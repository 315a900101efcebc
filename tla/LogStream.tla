----------------------------- MODULE LogStream -----------------------------
(***************************************************************************)
(* The log capture of tools/ace-server.cpp: stderr is a pipe, a reader     *)
(* thread forwards what it reads to the terminal and puts every line into  *)
(* a ring, and the clients of GET /logs follow the ring, each in the       *)
(* handler thread of its connection.  A client gets the backlog first.     *)
(* The lock is given up while a line is sent, so the log goes on meanwhile *)
(* and may lap a slow client.                                              *)
(* Lines are numbered as they are written, from 0; one is written as two   *)
(* pieces, since the reader may get a part of it first.                    *)
(***************************************************************************)
EXTENDS Integers, Sequences

CONSTANTS Clients,  \* connections to /logs
          Ring,     \* LOG_RING_SIZE, 512
          MaxLines  \* bound: lines written

ASSUME RingAssumption == Ring \in Nat \ {0}

VARIABLES
    written,  \* pieces written to stderr
    capture,  \* "on", then "restored" and "joined" by log_capture_stop, or "off"
              \* if setup_log_capture failed
    read,     \* pieces the reader took from the pipe and forwarded
    seq,      \* log_seq
    ring,     \* log_ring: the line each slot holds
    at,       \* where a client's content provider is
    cursor,
    init,     \* the client has had its backlog
    event,    \* the line it is sending
    woken,    \* it was notified while it waited
    lapped    \* history: the line that is its turn is lost to the ring

clientVars == <<at, cursor, init, event, woken, lapped>>
logVars == <<written, capture, read, seq, ring, clientVars>>

None == -1
Slot(n) == n % Ring

LogInit ==
    /\ written = 0 /\ capture \in {"on", "off"} /\ read = 0 /\ seq = 0
    /\ ring = [s \in 0 .. Ring - 1 |-> None]
    /\ at = [c \in Clients |-> "closed"]
    /\ cursor = [c \in Clients |-> 0]
    /\ init = [c \in Clients |-> FALSE]
    /\ event = [c \in Clients |-> None]
    /\ woken = [c \in Clients |-> FALSE]
    /\ lapped = [c \in Clients |-> FALSE]

-----------------------------------------------------------------------------
(* The process and the reader.                                               *)

\* Any thread writes n lines to stderr, within the bound.
Log(n) ==
    /\ written' = IF capture = "on" /\ written + 2 * n <= 2 * MaxLines
                  THEN written + 2 * n ELSE written
    /\ UNCHANGED <<capture, read, seq, ring, clientVars>>

\* A read returns when there is something in the pipe, and forwards all it got.
\* The lines already complete are put into the ring before the next one.
Pushed == read \div 2

Read ==
    /\ capture # "joined"
    /\ seq = Pushed
    /\ \E upTo \in read + 1 .. written : read' = upTo
    /\ UNCHANGED <<written, capture, seq, ring, clientVars>>

\* Who has still to be sent the line that the next one takes the place of.
Overtaken(c) == at[c] # "closed" /\ (init[c] \/ at[c] # "called") /\ cursor[c] <= seq - Ring

\* A line goes into the ring under the lock, and all who wait are notified.
Push ==
    /\ seq < Pushed
    /\ ring' = [ring EXCEPT ![Slot(seq)] = seq]
    /\ lapped' = [c \in Clients |-> lapped[c] \/ Overtaken(c)]
    /\ seq' = seq + 1
    /\ woken' = [c \in Clients |-> woken[c] \/ at[c] = "waiting"]
    /\ UNCHANGED <<written, capture, read, at, cursor, init, event>>

\* log_capture_stop: the terminal gets stderr back, and the reader, at the end
\* of the pipe, returns.
Restore ==
    /\ capture = "on"
    /\ capture' = "restored"
    /\ woken' = [c \in Clients |-> woken[c] \/ at[c] = "waiting"]
    /\ UNCHANGED <<written, read, seq, ring, at, cursor, init, event, lapped>>

Join ==
    /\ capture = "restored"
    /\ read = written /\ seq = Pushed
    /\ capture' = "joined"
    /\ UNCHANGED <<written, read, seq, ring, clientVars>>

-----------------------------------------------------------------------------
(* handle_logs: the content provider of one client.                          *)

LogSame == UNCHANGED <<written, capture, read, seq, ring>>

Connect(c) ==
    /\ at[c] = "closed" /\ capture # "off"
    /\ at' = [at EXCEPT ![c] = "called"]
    /\ init' = [init EXCEPT ![c] = FALSE]
    /\ cursor' = [cursor EXCEPT ![c] = 0]
    /\ lapped' = [lapped EXCEPT ![c] = FALSE]
    /\ LogSame /\ UNCHANGED <<event, woken>>

\* Slip: the backlog begins one line too early once the ring is full.
OldestLate == IF seq <= Ring THEN 0 ELSE seq - Ring - 1

\* The oldest line of the backlog.
Oldest == seq - (IF seq < Ring THEN seq ELSE Ring)

\* The provider is called: the first time it finds its place, then it sends
\* the backlog; later it waits at once.
Called(c) ==
    /\ at[c] = "called"
    /\ IF init[c]
       THEN /\ at' = [at EXCEPT ![c] = "waiting"]
            /\ woken' = [woken EXCEPT ![c] = FALSE]
            /\ UNCHANGED cursor
       ELSE /\ at' = [at EXCEPT ![c] = "loop"]
            /\ cursor' = [cursor EXCEPT ![c] = Oldest]
            /\ UNCHANGED woken
    /\ LogSame /\ UNCHANGED <<init, event, lapped>>

\* One look at the ring: the line under the cursor is copied and the lock given
\* up to send it, or the loop is over.  The first loop is followed by the wait,
\* under the same lock, the second by the return.
Loop(c) ==
    /\ at[c] = "loop"
    /\ IF cursor[c] < seq
       THEN /\ event' = [event EXCEPT ![c] = ring[Slot(cursor[c])]]
            /\ cursor' = [cursor EXCEPT ![c] = @ + 1]
            /\ at' = [at EXCEPT ![c] = "sending"]
            /\ lapped' = [lapped EXCEPT ![c] = @ /\ cursor[c] < seq - Ring]
            /\ UNCHANGED <<init, woken>>
       ELSE /\ IF init[c] THEN at' = [at EXCEPT ![c] = "called"] /\ UNCHANGED woken
               ELSE /\ at' = [at EXCEPT ![c] = "waiting"]
                    /\ woken' = [woken EXCEPT ![c] = FALSE]
            /\ init' = [init EXCEPT ![c] = TRUE]
            /\ UNCHANGED <<cursor, event, lapped>>
    /\ LogSame

\* The line is sent, or the connection is gone.
Sent(c) ==
    /\ at[c] = "sending"
    /\ \E next \in {"loop", "closed"} : at' = [at EXCEPT ![c] = next]
    /\ event' = [event EXCEPT ![c] = None]
    /\ LogSame /\ UNCHANGED <<cursor, init, woken, lapped>>

\* The server is being stopped: the provider is not called again.
HangUp(c) ==
    /\ at[c] = "called"
    /\ at' = [at EXCEPT ![c] = "closed"]
    /\ LogSame /\ UNCHANGED <<cursor, init, event, woken, lapped>>

\* Slip: the wait has no end of its own.
WakeNotified(c) ==
    /\ at[c] = "waiting" /\ woken[c]
    /\ at' = [at EXCEPT ![c] = "loop"]
    /\ LogSame /\ UNCHANGED <<cursor, init, event, woken, lapped>>

\* wait_for: notified, or two seconds later.
Wake(c) ==
    /\ at[c] = "waiting"
    /\ at' = [at EXCEPT ![c] = "loop"]
    /\ LogSame /\ UNCHANGED <<cursor, init, event, woken, lapped>>

Serve(c, stopped) ==
    \/ IF stopped THEN HangUp(c) ELSE Called(c)
    \/ Loop(c) \/ Sent(c) \/ Wake(c)

Reader == Read \/ Push \/ Join

-----------------------------------------------------------------------------
\* A client has a turn for every line, in the order they were written, from
\* the oldest the ring held when it came, and in the turn of a line it is sent
\* that line.  Only in the turn of a line that the ring has lost by then is it
\* sent another, out of order: the newer one in the same slot, which it gets
\* again in its own turn.  As soon as it is back at the lines that the ring
\* holds it is sent exactly those.  When the capture has ended every line has
\* been forwarded and kept (ace-server.cpp:456-499, 538-570).
StreamFollows ==
    /\ \A c \in Clients :
          at[c] = "sending" =>
             LET turn == cursor[c] - 1
             IN  /\ event[c] \in turn .. seq - 1
                 /\ Slot(event[c]) = Slot(turn)
                 /\ ~lapped[c] \/ turn >= seq - Ring => event[c] = turn
    /\ capture = "joined" => read = written /\ 2 * seq = written

\* What is in the log reaches every client that stays connected, even a line
\* that comes while its handler is not waiting: the wait ends by itself.
LinesArrive ==
    \A c \in Clients : \A n \in 1 .. MaxLines :
        (at[c] # "closed" /\ init[c] /\ cursor[c] < n /\ n <= seq)
            ~> (at[c] = "closed" \/ cursor[c] >= n)
=============================================================================
