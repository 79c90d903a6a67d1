------------------------------- MODULE LossyPipe -------------------------------
(***************************************************************************)
(* What a named pipe of KP promises its users: some of the messages put    *)
(* into it, those of one writer in order and each at most once.            *)
(***************************************************************************)
EXTENDS Naturals, Sequences

CONSTANT Writers

VARIABLES
  puts,     \* how many messages each writer has put
  chan,     \* messages on their way
  got       \* messages received so far

pipeVars == <<puts, chan, got>>

Init == puts = [w \in Writers |-> 0] /\ chan = <<>> /\ got = <<>>

\* The n-th message of a writer.
Message(w, n) == <<w, n>>

Put(w) == /\ puts' = [puts EXCEPT ![w] = @ + 1]
          /\ chan' \in {chan, Append(chan, Message(w, puts[w] + 1))}
          /\ UNCHANGED got

\* t is what is left of s when some of it is lost.
LeftOf(t, s) ==
  \E f \in [DOMAIN t -> DOMAIN s] : /\ \A i, j \in DOMAIN t : i < j => f[i] < f[j]
                                   /\ \A i \in DOMAIN t : t[i] = s[f[i]]

Lose == LeftOf(chan', chan) /\ UNCHANGED <<puts, got>>

\* The oldest message is received, others may be lost with it.
Receive == /\ chan # <<>>
           /\ got' = Append(got, Head(chan))
           /\ LeftOf(chan', Tail(chan))
           /\ UNCHANGED puts

Next == Lose \/ Receive \/ \E w \in Writers : Put(w)

Spec == Init /\ [][Next]_pipeVars
=============================================================================
