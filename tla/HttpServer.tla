----------------------------- MODULE HttpServer -----------------------------
(***************************************************************************)
(* tools/ace-server.cpp from its start to its end: main, the handlers and  *)
(* the workers of Intake, which write to the log, and the log's reader and *)
(* followers of LogStream.  The capture outlives the HTTP server and the   *)
(* worker, and exit() ends it too.                                         *)
(***************************************************************************)
EXTENDS Intake, LogStream

CONSTANTS Tried,  \* model and adapter directories, and what clients post
          TriedLogged  \* bound: the same, while the log is captured

\* A JSON value holds what its kind says; no client sends back more than a job
\* has answered (SentBack); a part that is there has a length.
Sendable(p) ==
    /\ p.from = <<>>
    /\ p.parts \in [Parts -> Nat \cup {Absent}]
    /\ p.text.objects \in Seq(Range(p.text.objects))
    /\ p.text.form = "object" => Len(p.text.objects) = 1
    /\ \A i \in DOMAIN p.text.objects : \A f \in DOMAIN p.text.objects[i] :
          LET v == p.text.objects[i][f]
          IN  /\ v.kind = "num" => v.is \in Int
              /\ v.kind = "bool" => v.is \in BOOLEAN

ASSUME TriedAssumption ==
    \A t \in {Tried, TriedLogged} :
        /\ \A d \in t.models \cup t.adapters : IsFiniteSet(DOMAIN d)
        /\ \A p \in t.posts : Sendable(p)

vars == <<intakeVars, logVars>>

Init == IntakeInit /\ LogInit

\* A client sends back what an LM job answered: all of it, or one request.
NoParts == [x \in Parts |-> Absent]
SentBack ==
    IF made.body = <<>> THEN {}
    ELSE {[to |-> "synth", multipart |-> FALSE, parts |-> NoParts,
           text |-> ArrayText(made.body), from |-> made.requests],
          [to |-> "synth", multipart |-> FALSE, parts |-> NoParts,
           text |-> ObjectText(made.body[1]), from |-> <<made.requests[1]>>]}

Quietly(A) == A /\ UNCHANGED logVars
Aside(A) == A /\ UNCHANGED intakeVars

Inputs == IF capture = "on" THEN TriedLogged ELSE Tried

StartUp == \E m \in Inputs.models, a \in Inputs.adapters : Start(m, a) /\ Log(1)
Post == \E p \in Inputs.posts \cup SentBack : Handle(p) /\ Log(1)

WorkerTake == Quietly(Take)
WorkerRun == Work /\ Log(1)
WorkerExit == Abort /\ Log(1)
Stop == Quietly(Signal)

\* listen waits for the handlers, the content providers of /logs among them.
ListenReturns == (\A c \in Clients : at[c] = "closed") /\ Quietly(StopWorker)
ShutDown == Done /\ Log(1)

\* ~LogCapture at the end of main, or the hook that exit runs.
StopCapture == main \in {"done", "aborted"} /\ Aside(Restore)

Follow(c) == Aside(Serve(c, main # "serving"))
ReadLog == Aside(Reader)

Next ==
    \/ StartUp \/ Post \/ WorkerTake \/ WorkerRun \/ WorkerExit
    \/ Stop \/ ListenReturns \/ ShutDown \/ StopCapture
    \/ \E c \in Clients : Follow(c) \/ (main = "serving" /\ Aside(Connect(c)))
    \/ ReadLog

\* Threads that can go on do: a job ends one way or another, a line is sent or
\* its connection times out, and the wait for lines ends after two seconds.
Fairness ==
    /\ WF_vars(WorkerTake) /\ WF_vars(WorkerRun)
    /\ WF_vars(ListenReturns) /\ WF_vars(ShutDown) /\ WF_vars(StopCapture)
    /\ WF_vars(ReadLog)
    /\ \A c \in Clients : WF_vars(Follow(c))

Spec == Init /\ [][Next]_vars /\ Fairness

-----------------------------------------------------------------------------
\* What is in the log reaches every client that stays connected, even a line
\* that comes while its handler is not waiting, since the wait ends by itself.
\* For the same reason a quiet log does not hold up the end of the server, and
\* at the end, by return or by exit, all of the log is on the terminal
\* (ace-server.cpp:484-534, 538-570, 2221-2241).
FollowersServed ==
    /\ LinesArrive
    /\ main = "signalled" ~> main \in {"done", "aborted"}
    /\ main \in {"done", "aborted"} ~> (capture = "off" \/ 2 * seq = written)
=============================================================================
