--------------------------- MODULE MCActionJournal ---------------------------
(* Small instances of the action journal for TLC. *)
EXTENDS ActionJournal, TLC

CONSTANTS a1, a2, a3, doc, other, slot

Plain(kind) == [kind |-> kind, sdk |-> FALSE, optional |-> FALSE, checked |-> FALSE,
                retirable |-> FALSE, witness |-> FALSE, discovers |-> {}, stops |-> {}]

\* Two commands of one document.
PairActions == {a1, a2}
PairFootprint == [a \in PairActions |-> {doc}]
PairNothing == [a \in PairActions |-> {}]

\* A file with a witness before a bridge write, and a checked CLI operation that finds more to
\* declare.
ContractProgram == (a1 :> <<[Plain("file") EXCEPT !.witness = TRUE],
                            Plain("native")>>)
                @@ (a2 :> <<[Plain("native") EXCEPT !.sdk = TRUE, !.checked = TRUE,
                                                    !.discovers = {other}]>>)

\* A launch that holds a session slot and then applies families, the stop of its session, which reconciles
\* it, and a second launch of the same slot; all of them touch one document.
TrioActions == {a1, a2, a3}
TrioProgram == (a1 :> <<[Plain("native") EXCEPT !.sdk = TRUE, !.retirable = TRUE],
                        [Plain("native") EXCEPT !.witness = TRUE]>>)
            @@ (a2 :> <<[Plain("native") EXCEPT !.sdk = TRUE, !.stops = {a1}]>>)
            @@ (a3 :> <<[Plain("native") EXCEPT !.sdk = TRUE]>>)
TrioFootprint == [a \in TrioActions |-> {doc}]
TrioReconciles == (a1 :> {}) @@ (a2 :> {a1}) @@ (a3 :> {})
TrioSlots == (a1 :> {slot}) @@ (a2 :> {}) @@ (a3 :> {slot})

\* A push whose Work rebind is a convenience.
ConvenienceProgram == (a1 :> <<Plain("native"), [Plain("publication") EXCEPT !.optional = TRUE]>>)
                   @@ (a2 :> <<Plain("native")>>)

=============================================================================
