---------------------------- MODULE WriteChannel ----------------------------
(***************************************************************************)
(* What the app may expect of the writes it hands to the Firestore client  *)
(* of one device: they reach the document in order and at least once, and  *)
(* the newest of them are the ones a dying process loses.  Other devices   *)
(* may write the document in between.                                      *)
(***************************************************************************)
EXTENDS Naturals, Sequences, SequencesExt

CONSTANT Apply(_, _)    \* Apply(doc, w): the document after write w

VARIABLES
    doc,    \* the document at the server
    queue,  \* the writes issued and not yet acknowledged, oldest first
    sent    \* how many of them the server has applied since the last break

vars == <<doc, queue, sent>>

Init == queue = <<>> /\ sent = 0

\* The app issues some writes.
Issue == IsPrefix(queue, queue') /\ UNCHANGED <<doc, sent>>

\* The next write reaches the document.
ApplyNext ==
    /\ sent < Len(queue)
    /\ doc' = Apply(doc, queue[sent + 1])
    /\ sent' = sent + 1
    /\ UNCHANGED queue

\* The answer to the oldest write arrives.
Acknowledge ==
    /\ sent > 0
    /\ queue' = Tail(queue)
    /\ sent' = sent - 1
    /\ UNCHANGED doc

\* The oldest write is refused.
Refuse ==
    /\ sent = 0
    /\ queue # <<>>
    /\ queue' = Tail(queue)
    /\ UNCHANGED <<doc, sent>>

\* Answers are lost; what was not acknowledged will be applied again.
Break == sent' = 0 /\ UNCHANGED <<doc, queue>>

\* A process dies: writes not persisted, and so not sent, are lost.
Lose ==
    /\ \E k \in sent..Len(queue) : queue' = SubSeq(queue, 1, k)
    /\ UNCHANGED <<doc, sent>>

\* Somebody else writes the document.
Foreign == UNCHANGED <<queue, sent>>

Next == Issue \/ ApplyNext \/ Acknowledge \/ Refuse \/ Break \/ Lose \/ Foreign

Spec == Init /\ [][Next]_vars
=============================================================================
