----------------------------- MODULE JobService -----------------------------
(***************************************************************************)
(* What the job endpoints promise a client, without handlers, threads or   *)
(* flags: jobs are accepted, stand in line, and are settled one at a time  *)
(* in the order of the line; a settled job may be forgotten to make room,  *)
(* an unsettled one never; once closed the service settles at most the job *)
(* it had begun.  JobServer implements it.                                 *)
(***************************************************************************)
EXTENDS Integers, Sequences, FiniteSets

CONSTANTS Submissions, Room

Jobs == 1 .. Submissions
Settled == {"done", "failed", "cancelled"}

VARIABLES
    state,  \* each job: "unborn", "accepted" or a final state
    known,  \* the jobs a client can still ask about
    line,   \* the jobs in line, the first one being served
    open    \* new work is begun

vars == <<state, known, line, open>>

Init ==
    /\ state = [j \in Jobs |-> "unborn"]
    /\ known = {}
    /\ line = <<>>
    /\ open = TRUE

\* A job is accepted; settled ones are forgotten, oldest first, to make room.
Accept(j) ==
    /\ state[j] = "unborn"
    /\ state' = [state EXCEPT ![j] = "accepted"]
    /\ \E forgotten \in SUBSET {k \in known : state[k] \in Settled} :
          /\ known' = (known \cup {j}) \ forgotten
          /\ \A f \in forgotten, k \in known' : state[k] \in Settled => f < k
    /\ Cardinality(known') <= Room \/ \A k \in known' : state'[k] = "accepted"
    /\ UNCHANGED <<line, open>>

JoinLine(j) ==
    /\ open
    /\ state[j] = "accepted"
    /\ \A i \in DOMAIN line : line[i] # j
    /\ line' = Append(line, j)
    /\ UNCHANGED <<state, known, open>>

Settle(s) ==
    /\ line # <<>>
    /\ state' = [state EXCEPT ![Head(line)] = s]
    /\ line' = Tail(line)
    /\ UNCHANGED <<known, open>>

\* Closing sends the line away, but for the job being served, if one is.
Close ==
    /\ open
    /\ open' = FALSE
    /\ \/ line' = <<>>
       \/ line # <<>> /\ line' = <<Head(line)>>
    /\ UNCHANGED <<state, known>>

Next ==
    \/ \E j \in Jobs : Accept(j) \/ JoinLine(j)
    \/ \E s \in Settled : Settle(s)
    \/ Close

\* The service goes on serving its line, and whoever was accepted joins it.
Fairness ==
    /\ WF_vars(open /\ \E s \in Settled : Settle(s))
    /\ \A j \in Jobs : WF_vars(JoinLine(j))

Spec == Init /\ [][Next]_vars /\ Fairness
=============================================================================
