-------------------------- MODULE HttpServer_proofs --------------------------
(***************************************************************************)
(* Proofs about HttpServer for any ring, clients, limits and posts: what   *)
(* the followers of the log are sent, what the handlers accept, what the   *)
(* workers free, and what a request is after the way through the LM.       *)
(***************************************************************************)
EXTENDS HttpServer, FiniteSetTheorems, TLAPS

(***************************************************************************)
(* The log.                                                                *)
(***************************************************************************)

LogTypeOK ==
    /\ written \in Nat /\ read \in 0 .. written
    /\ Pushed \in Nat /\ seq \in 0 .. Pushed
    /\ capture \in {"on", "restored", "joined", "off"}
    /\ ring \in [0 .. Ring - 1 -> Int]
    /\ at \in [Clients -> {"closed", "called", "loop", "sending", "waiting"}]
    /\ cursor \in [Clients -> Nat]
    /\ init \in [Clients -> BOOLEAN] /\ lapped \in [Clients -> BOOLEAN]
    /\ event \in [Clients -> Int]

WholeLines == \E n \in Nat : written = 2 * n

\* The ring holds the last lines, and in the slot of an older one a newer one.
RingHolds ==
    \A n \in Nat :
        n < seq =>
           /\ ring[Slot(n)] \in n .. seq - 1
           /\ Slot(ring[Slot(n)]) = Slot(n)
           /\ n >= seq - Ring => ring[Slot(n)] = n

\* A client that is not lapped finds the line under its cursor in the ring.
InReach ==
    \A c \in Clients :
        at[c] # "closed" /\ (init[c] \/ at[c] # "called") /\ ~lapped[c] => cursor[c] >= seq - Ring

LogInv == LogTypeOK /\ WholeLines /\ RingHolds /\ InReach /\ StreamFollows

\* One step of the log's threads and clients, whatever the rest of the server does.
LogStep ==
    \/ Log(1) \/ Restore \/ Reader
    \/ \E c \in Clients : Connect(c) \/ \E over \in BOOLEAN : Serve(c, over)

-----------------------------------------------------------------------------

\* A line's place is a slot of the ring, and two lines less than a ring apart
\* have different ones.
LEMMA SlotInRing == ASSUME NEW n \in Nat PROVE Slot(n) \in 0 .. Ring - 1
  BY RingAssumption DEF Slot

LEMMA SlotsApart ==
  ASSUME NEW m \in Nat, NEW n \in Nat, m < n, n < m + Ring
  PROVE  Slot(m) # Slot(n)
<1> DEFINE p == m \div Ring
           q == n \div Ring
<1>0. Ring \in Nat \ {0}
  BY RingAssumption
<1>1. p \in Int /\ q \in Int /\ m = Ring * p + Slot(m) /\ n = Ring * q + Slot(n)
  BY <1>0 DEF Slot
<1> HIDE DEF p, q
<1> SUFFICES ASSUME Slot(m) = Slot(n) PROVE FALSE
    OBVIOUS
<1>2. n - m = Ring * (q - p)
  BY <1>0, <1>1, SlotInRing
<1>3. CASE q - p <= 0
  BY <1>0, <1>1, <1>2, <1>3
<1>4. CASE q - p >= 1
  BY <1>0, <1>1, <1>2, <1>4
<1> QED  BY <1>1, <1>3, <1>4
LEMMA Halves ==
  ASSUME NEW n \in Nat
  PROVE  n \div 2 \in Nat /\ 2 * (n \div 2) <= n /\ n <= 2 * (n \div 2) + 1
  OBVIOUS

LEMMA LogInitEstablishes == LogInit => LogInv
<1> SUFFICES ASSUME LogInit PROVE LogInv
    OBVIOUS
<1>1. Pushed = 0 /\ WholeLines
  BY DEF LogInit, Pushed, WholeLines
<1>2. LogTypeOK
  BY <1>1 DEF LogInit, LogTypeOK, None
<1> QED
  BY <1>1, <1>2 DEF LogInit, LogInv, RingHolds, InReach, StreamFollows

\* What is written and read, but not yet put into the ring, changes nothing
\* for the clients.
LEMMA WritingKeeps ==
  ASSUME LogInv, Log(1) \/ Restore \/ Read \/ Join
  PROVE  LogInv'
<1>1. UNCHANGED <<seq, ring, at, cursor, init, event, lapped>>
  BY DEF Log, Restore, Read, Join, clientVars
<1>2. written \in Nat /\ read \in 0 .. written /\ seq \in Nat /\ seq <= read \div 2
  BY DEF LogInv, LogTypeOK, Pushed
<1>3. /\ written' \in Nat /\ read' \in 0 .. written' /\ read <= read'
      /\ capture' \in {"on", "restored", "joined", "off"}
  BY <1>2 DEF LogInv, LogTypeOK, Log, Restore, Read, Join
<1>4. Pushed' \in Nat /\ seq <= Pushed'
  <2> DEFINE before == read \div 2
             after == read' \div 2
  <2>0. read \in Nat /\ read' \in Nat
    BY <1>2, <1>3
  <2>1. /\ before \in Nat /\ 2 * before <= read
        /\ after \in Nat /\ read' <= 2 * after + 1
    BY <2>0, Halves
  <2> HIDE DEF before, after
  <2>2. before <= after
    BY <1>3, <2>0, <2>1
  <2>3. seq <= before
    BY <1>2 DEF before
  <2>4. after \in Nat /\ seq <= after
    BY <1>2, <2>1, <2>2, <2>3
  <2> QED  BY <2>4 DEF Pushed, after
<1>5. WholeLines'
  <2> PICK n \in Nat : written = 2 * n
    BY DEF LogInv, WholeLines
  <2>1. (written' = 2 * n \/ written' = 2 * (n + 1)) /\ n + 1 \in Nat
    BY <1>2 DEF Log, Restore, Read, Join
  <2>2. \E k \in Nat : written' = 2 * k
    BY <2>1
  <2> QED  BY <2>2 DEF WholeLines
<1>6. capture' = "joined" => read' = written' /\ 2 * seq' = written'
  <2> SUFFICES ASSUME capture' = "joined" PROVE read' = written' /\ 2 * seq' = written'
      OBVIOUS
  <2>1. CASE capture = "joined"
    BY <2>1 DEF LogInv, StreamFollows, Log, Restore, Read, Join
  <2>2. CASE capture # "joined"
    <3>1. read = written /\ seq = read \div 2 /\ UNCHANGED <<written, read, seq>>
      BY <2>2 DEF Log, Restore, Read, Join, Pushed
    <3> PICK n \in Nat : written = 2 * n
      BY DEF LogInv, WholeLines
    <3>2. seq \in Nat /\ 2 * seq <= read /\ read <= 2 * seq + 1
      <4>1. read \in Nat
        BY <1>2
      <4> QED  BY <3>1, <4>1, Halves
    <3> QED  BY <3>1, <3>2
  <2> QED  BY <2>1, <2>2
<1>7. LogTypeOK'
  BY <1>1, <1>2, <1>3, <1>4 DEF LogInv, LogTypeOK
<1>8. RingHolds' /\ InReach' /\ StreamFollows'
  BY <1>1, <1>6 DEF LogInv, RingHolds, InReach, StreamFollows
<1> QED  BY <1>5, <1>7, <1>8 DEF LogInv

\* The line pushed takes the slot of the one that was a ring before it, and
\* the clients that still had to be sent that one are lapped.
LEMMA PushKeeps ==
  ASSUME LogInv, Push
  PROVE  LogInv'
<1>0. /\ seq \in Nat /\ seq' = seq + 1 /\ seq < Pushed /\ Pushed' = Pushed /\ Pushed \in Nat
      /\ ring \in [0 .. Ring - 1 -> Int] /\ ring' = [ring EXCEPT ![Slot(seq)] = seq]
      /\ lapped' = [c \in Clients |-> lapped[c] \/ Overtaken(c)]
      /\ UNCHANGED <<written, capture, read, at, cursor, init, event>>
  BY DEF LogInv, LogTypeOK, Push, Pushed
<1>a. WholeLines'
  BY <1>0 DEF LogInv, WholeLines
<1>b. Slot(seq) \in 0 .. Ring - 1 /\ \A n \in Nat : Slot(n) \in 0 .. Ring - 1
  BY <1>0, SlotInRing
<1>1. LogTypeOK'
  <2>1. ring' \in [0 .. Ring - 1 -> Int] /\ seq' \in 0 .. Pushed'
    BY <1>0, <1>b
  <2>2. lapped' \in [Clients -> BOOLEAN]
    BY <1>0 DEF LogInv, LogTypeOK, Overtaken
  <2> QED  BY <1>0, <2>1, <2>2 DEF LogInv, LogTypeOK
<1>2. RingHolds'
  <2> SUFFICES ASSUME NEW n \in Nat, n < seq'
               PROVE  /\ ring'[Slot(n)] \in n .. seq' - 1
                      /\ Slot(ring'[Slot(n)]) = Slot(n)
                      /\ n >= seq' - Ring => ring'[Slot(n)] = n
      BY Zenon DEF RingHolds, Slot
  <2>0. n < seq + 1 /\ seq' = seq + 1 /\ seq \in Nat
    BY <1>0
  <2>1. ring'[Slot(seq)] = seq /\ (Slot(n) # Slot(seq) => ring'[Slot(n)] = ring[Slot(n)])
    BY <1>0, <1>b
  <2>2. CASE n = seq
    BY <2>0, <2>1, <2>2, RingAssumption
  <2>3. CASE n < seq /\ Slot(n) # Slot(seq)
    <3>1. /\ ring[Slot(n)] \in n .. seq - 1
          /\ Slot(ring[Slot(n)]) = Slot(n)
          /\ n >= seq - Ring => ring[Slot(n)] = n
      BY <2>3 DEF LogInv, RingHolds
    <3> QED  BY <2>0, <2>1, <2>3, <3>1, RingAssumption
  <2>4. CASE n < seq /\ Slot(n) = Slot(seq)
    <3>1. ~(seq < n + Ring)
      BY <2>0, <2>4, SlotsApart
    <3> QED  BY <2>0, <2>1, <2>4, <3>1, RingAssumption
  <2> QED  BY <2>0, <2>2, <2>3, <2>4
<1>3. InReach'
  <2> SUFFICES ASSUME NEW c \in Clients,
                      at'[c] # "closed", init'[c] \/ at'[c] # "called", ~lapped'[c]
               PROVE  cursor'[c] >= seq' - Ring
      BY Zenon DEF InReach
  <2>1. ~lapped[c] /\ ~Overtaken(c)
    BY <1>0
  <2>2. cursor[c] \in Nat /\ ~(cursor[c] <= seq - Ring)
    BY <1>0, <2>1 DEF Overtaken, LogInv, LogTypeOK
  <2> QED  BY <1>0, <2>2, RingAssumption
<1>4. StreamFollows'
  <2>1. capture # "joined"
    BY <1>0 DEF LogInv, LogTypeOK, StreamFollows, Pushed
  <2>2. \A c \in Clients : cursor[c] \in Nat /\ event[c] \in Int
    BY DEF LogInv, LogTypeOK
  <2>3. UNCHANGED <<capture, at, cursor, event>> /\ \A c \in Clients : lapped[c] => lapped'[c]
    BY <1>0
  <2>4. ASSUME NEW c \in Clients, at[c] = "sending"
        PROVE  /\ event[c] \in cursor[c] - 1 .. seq' - 1
               /\ Slot(event[c]) = Slot(cursor[c] - 1)
               /\ ~lapped[c] \/ cursor[c] - 1 >= seq' - Ring => event[c] = cursor[c] - 1
    <3>1. /\ event[c] \in cursor[c] - 1 .. seq - 1
          /\ Slot(event[c]) = Slot(cursor[c] - 1)
          /\ ~lapped[c] \/ cursor[c] - 1 >= seq - Ring => event[c] = cursor[c] - 1
      BY <2>4, Zenon DEF LogInv, StreamFollows
    <3>2. cursor[c] - 1 >= seq' - Ring => cursor[c] - 1 >= seq - Ring
      BY <1>0, <2>2, RingAssumption
    <3>3. event[c] \in cursor[c] - 1 .. seq' - 1
      BY <1>0, <2>2, <3>1
    <3> QED  BY <3>1, <3>2, <3>3
  <2> QED  BY <2>1, <2>3, <2>4, Zenon DEF StreamFollows, Slot
<1> QED  BY <1>a, <1>1, <1>2, <1>3, <1>4 DEF LogInv

\* What LogInv says of one client.
ClientInv(c) ==
    /\ at[c] \in {"closed", "called", "loop", "sending", "waiting"}
    /\ cursor[c] \in Nat /\ init[c] \in BOOLEAN /\ lapped[c] \in BOOLEAN /\ event[c] \in Int
    /\ at[c] # "closed" /\ (init[c] \/ at[c] # "called") /\ ~lapped[c] => cursor[c] >= seq - Ring
    /\ at[c] = "sending" =>
          /\ event[c] \in cursor[c] - 1 .. seq - 1
          /\ Slot(event[c]) = Slot(cursor[c] - 1)
          /\ ~lapped[c] \/ cursor[c] - 1 >= seq - Ring => event[c] = cursor[c] - 1

\* The steps of one client that leave the log alone.
LEMMA ClientKeeps ==
  ASSUME LogInv, NEW c \in Clients,
         Connect(c) \/ Called(c) \/ HangUp(c) \/ Loop(c) \/ Sent(c) \/ Wake(c)
  PROVE  LogInv'
<1>0. /\ UNCHANGED <<written, capture, read, seq, ring>>
      /\ seq \in Nat
  BY DEF Connect, Called, HangUp, Loop, Sent, Wake, LogSame, LogInv, LogTypeOK
<1>1. RingHolds' /\ WholeLines' /\ Pushed' = Pushed
  BY <1>0 DEF LogInv, RingHolds, Slot, WholeLines, Pushed
<1>2. /\ at \in [Clients -> {"closed", "called", "loop", "sending", "waiting"}]
      /\ cursor \in [Clients -> Nat] /\ event \in [Clients -> Int]
      /\ init \in [Clients -> BOOLEAN] /\ lapped \in [Clients -> BOOLEAN]
      /\ \A d \in Clients : ClientInv(d)
  BY DEF LogInv, LogTypeOK, InReach, StreamFollows, ClientInv
<1>3. \A d \in Clients \ {c} :
          /\ at'[d] = at[d] /\ cursor'[d] = cursor[d] /\ init'[d] = init[d]
          /\ event'[d] = event[d] /\ lapped'[d] = lapped[d]
  BY <1>2 DEF Connect, Called, HangUp, Loop, Sent, Wake
<1>4. /\ at' = [at EXCEPT ![c] = at'[c]] /\ cursor' = [cursor EXCEPT ![c] = cursor'[c]]
      /\ init' = [init EXCEPT ![c] = init'[c]] /\ event' = [event EXCEPT ![c] = event'[c]]
      /\ lapped' = [lapped EXCEPT ![c] = lapped'[c]]
  BY <1>2 DEF Connect, Called, HangUp, Loop, Sent, Wake
<1>5. ClientInv(c)'
  <2>1. CASE Connect(c)
    BY <1>0, <1>2, <2>1 DEF Connect, ClientInv
  <2>2. CASE HangUp(c) \/ Sent(c) \/ Wake(c)
    BY <1>0, <1>2, <2>2 DEF HangUp, Sent, Wake, ClientInv, None
  <2>3. CASE Called(c)
    BY <1>0, <1>2, <2>3, RingAssumption DEF Called, ClientInv, Oldest
  <2>4. CASE Loop(c) /\ cursor[c] < seq
    <3> DEFINE turn == cursor[c]
               held == ring[Slot(turn)]
    <3>1. /\ held \in turn .. seq - 1
          /\ Slot(held) = Slot(turn)
          /\ turn >= seq - Ring => held = turn
      <4>1. turn \in Nat /\ turn < seq
        BY <1>2, <2>4
      <4> QED  BY <4>1, Zenon DEF LogInv, RingHolds
    <3>2. /\ event'[c] = held /\ cursor'[c] = turn + 1
          /\ at'[c] = "sending" /\ at[c] = "loop" /\ init'[c] = init[c]
          /\ lapped'[c] = (lapped[c] /\ turn < seq - Ring)
      BY <1>2, <2>4 DEF Loop
    <3>3. /\ turn \in Nat /\ init[c] \in BOOLEAN /\ lapped[c] \in BOOLEAN
          /\ ~lapped[c] => turn >= seq - Ring
      BY <1>2, <3>2 DEF ClientInv
    <3>4. cursor'[c] \in Nat /\ cursor'[c] - 1 = turn /\ held \in Int
      BY <3>1, <3>2, <3>3
    <3>5. seq' = seq /\ (turn >= seq - Ring => turn + 1 >= seq - Ring)
      BY <1>0, <3>3, RingAssumption
    <3>6. ~lapped'[c] => turn >= seq - Ring
      BY <1>0, <3>2, <3>3, RingAssumption
    <3> HIDE DEF turn, held
    <3>7. /\ event'[c] \in cursor'[c] - 1 .. seq' - 1
          /\ Slot(event'[c]) = Slot(cursor'[c] - 1)
          /\ ~lapped'[c] \/ cursor'[c] - 1 >= seq' - Ring => event'[c] = cursor'[c] - 1
      BY <3>1, <3>2, <3>4, <3>5, <3>6
    <3>8. ~lapped'[c] => cursor'[c] >= seq' - Ring
      BY <3>2, <3>5, <3>6
    <3>9. event'[c] \in Int /\ lapped'[c] \in BOOLEAN
      BY <3>2, <3>3, <3>4
    <3> QED  BY <3>2, <3>3, <3>4, <3>7, <3>8, <3>9, Zenon DEF ClientInv, Slot
  <2>5. CASE Loop(c) /\ ~(cursor[c] < seq)
    BY <1>0, <1>2, <2>5, RingAssumption DEF Loop, ClientInv
  <2> QED  BY <2>1, <2>2, <2>3, <2>4, <2>5
<1>6. \A d \in Clients : ClientInv(d)'
  BY <1>0, <1>2, <1>3, <1>5 DEF ClientInv
<1>7. LogTypeOK'
  BY <1>0, <1>1, <1>2, <1>4, <1>5 DEF LogInv, LogTypeOK, ClientInv
<1>8. InReach'
  <2> SUFFICES ASSUME NEW d \in Clients,
                      at'[d] # "closed", init'[d] \/ at'[d] # "called", ~lapped'[d]
               PROVE  cursor'[d] >= seq' - Ring
      BY Zenon DEF InReach
  <2> QED  BY <1>6, Zenon DEF ClientInv
<1>9. StreamFollows'
  <2>1. capture' = "joined" => read' = written' /\ 2 * seq' = written'
    BY <1>0 DEF LogInv, StreamFollows
  <2>2. ASSUME NEW d \in Clients, at'[d] = "sending"
        PROVE  /\ event'[d] \in cursor'[d] - 1 .. seq' - 1
               /\ Slot(event'[d]) = Slot(cursor'[d] - 1)
               /\ ~lapped'[d] \/ cursor'[d] - 1 >= seq' - Ring => event'[d] = cursor'[d] - 1
    BY <1>6, <2>2, Zenon DEF ClientInv, Slot
  <2> QED  BY <2>1, <2>2, Zenon DEF StreamFollows, Slot
<1> QED  BY <1>1, <1>7, <1>8, <1>9 DEF LogInv

LEMMA LogStepKeeps == ASSUME LogInv, LogStep PROVE LogInv'
  BY WritingKeeps, PushKeeps, ClientKeeps DEF LogStep, Reader, Serve

LEMMA NextLogs == ASSUME Next PROVE LogStep \/ UNCHANGED logVars
<1>1. CASE StartUp \/ Post \/ WorkerRun \/ WorkerExit \/ ShutDown
  BY <1>1, Zenon DEF StartUp, Post, WorkerRun, WorkerExit, ShutDown, LogStep
<1>2. CASE WorkerTake \/ Stop \/ ListenReturns
  BY <1>2, Zenon DEF WorkerTake, Stop, ListenReturns, Quietly
<1>3. CASE StopCapture \/ ReadLog
  BY <1>3, Zenon DEF StopCapture, ReadLog, Aside, LogStep
<1>4. CASE \E c \in Clients : Follow(c) \/ (main = "serving" /\ Aside(Connect(c)))
  <2>1. PICK c \in Clients : Serve(c, main # "serving") \/ Connect(c)
    BY <1>4, Zenon DEF Follow, Aside
  <2>2. (main # "serving") \in BOOLEAN
    OBVIOUS
  <2> QED  BY <2>1, <2>2, Zenon DEF LogStep
<1> QED  BY <1>1, <1>2, <1>3, <1>4, Zenon DEF Next

LEMMA LogFrame == ASSUME LogInv, UNCHANGED logVars PROVE LogInv'
<1>1. UNCHANGED <<written, capture, read, seq, ring, at, cursor, init, event, lapped>>
  BY DEF logVars, clientVars
<1> QED
  BY <1>1 DEF LogInv, LogTypeOK, WholeLines, RingHolds, InReach, StreamFollows, Pushed, Slot

\* Whatever the server and its clients do, however long the ring and however
\* fast the lines come, a follower has a turn for every line in order, and is
\* sent that line in it unless the ring has lost it; then, and only then, it is
\* sent a newer line out of order, that of the same slot
\* (ace-server.cpp:346-570).
THEOREM LogSafety == Spec => []StreamFollows
<1>1. Init => LogInv
  BY LogInitEstablishes DEF Init
<1>2. LogInv /\ [Next]_vars => LogInv'
  <2> SUFFICES ASSUME LogInv, [Next]_vars PROVE LogInv'
      OBVIOUS
  <2>1. LogStep \/ UNCHANGED logVars
    BY NextLogs, Zenon DEF vars
  <2> QED  BY <2>1, LogStepKeeps, LogFrame, Zenon
<1>3. LogInv => StreamFollows
  BY DEF LogInv
<1> QED  BY <1>1, <1>2, <1>3, PTL DEF Spec

(***************************************************************************)
(* Requests.                                                               *)
(***************************************************************************)

\* A request as request_init and request_parse_obj leave it.
RequestOK(r) ==
    /\ r = [f \in Fields |-> r[f]]
    /\ \A f \in Numbers : r[f] \in Int
    /\ \A f \in Flags : r[f] \in BOOLEAN
    /\ \A f \in Named : r[f] # ""

\* A JSON object whose values hold what their kinds say.
ObjectOK(o) ==
    \A f \in DOMAIN o : /\ o[f].kind = "num" => o[f].is \in Int
                        /\ o[f].kind = "bool" => o[f].is \in BOOLEAN

LEMMA FieldNames ==
    /\ Fields = {"caption", "lyrics", "vocal_language", "audio_codes", "seed", "lm_seed",
                 "lm_batch_size", "synth_batch_size", "lm_temperature", "use_cot_caption",
                 "lm_mode", "task_type", "output_format", "synth_model", "lm_model",
                 "adapter", "vae"}
    /\ Numbers \subseteq Fields /\ Flags \subseteq Fields /\ Named \subseteq Fields
    /\ Numbers \cap Named = {} /\ Flags \cap Named = {} /\ Flags \cap Numbers = {}
  BY DEF Fields, Default, Numbers, Flags, Named

LEMMA TypedFields ==
  ASSUME NEW r
  PROVE  RequestOK(r) <=>
            /\ r = [f \in Fields |-> r[f]]
            /\ r.seed \in Int /\ r.lm_seed \in Int /\ r.lm_batch_size \in Int
            /\ r.synth_batch_size \in Int /\ r.lm_temperature \in Int
            /\ r.use_cot_caption \in BOOLEAN
            /\ r.task_type # "" /\ r.lm_mode # "" /\ r.output_format # ""
  BY DEF RequestOK, Numbers, Flags, Named

LEMMA DefaultOK == RequestOK(Default) /\ RequestOK(UnderstandDefault)
<1>1. /\ Default["seed"] \in Int /\ Default["lm_seed"] \in Int
      /\ Default["lm_batch_size"] \in Int /\ Default["synth_batch_size"] \in Int
      /\ Default["lm_temperature"] \in Int
  BY DEF Default
<1>2. /\ Default["use_cot_caption"] \in BOOLEAN
      /\ Default["task_type"] # "" /\ Default["lm_mode"] # "" /\ Default["output_format"] # ""
  BY DEF Default
<1>3. Default = [f \in Fields |-> Default[f]]
  BY DEF Default, Fields
<1>4. RequestOK(Default)
  BY <1>1, <1>2, <1>3 DEF RequestOK, Numbers, Flags, Named
<1>5. /\ UnderstandDefault = [f \in Fields |-> UnderstandDefault[f]]
      /\ UnderstandDefault["lm_temperature"] \in Int
      /\ \A f \in Fields \ {"lm_temperature"} : UnderstandDefault[f] = Default[f]
  BY <1>3, FieldNames DEF UnderstandDefault
<1>6. RequestOK(UnderstandDefault)
  BY <1>4, <1>5, FieldNames DEF RequestOK, Flags, Named
<1> QED  BY <1>4, <1>6

LEMMA InstrumentalOK ==
  ASSUME NEW r, RequestOK(r)
  PROVE  RequestOK(Instrumental(r)) /\ Instrumental(r).seed = r.seed
  BY FieldNames DEF RequestOK, Instrumental, Numbers, Flags, Named

\* Whatever object a client posts, the server works with a whole request.
LEMMA ParseOK == ASSUME NEW o, ObjectOK(o) PROVE RequestOK(Parse(o))
<1> DEFINE r == [f \in Fields |->
                    IF f \in DOMAIN o /\ TakenOver(f, o[f])
                    THEN ValueOf(f, o[f]) ELSE Default[f]]
<1>1. \A f \in Numbers : KindOf(f) = "num" /\ ~(f \in Flags)
  BY DEF KindOf, Numbers, Flags
<1>2. \A f \in Flags : KindOf(f) = "bool" /\ ~(f \in Numbers)
  BY DEF KindOf, Numbers, Flags
<1>3. \A f \in Numbers : r[f] \in Int
  BY <1>1, FieldNames, DefaultOK DEF TakenOver, ValueOf, ObjectOK, RequestOK
<1>4. ASSUME NEW f \in Flags PROVE r[f] \in BOOLEAN
  <2>1. CASE f \in DOMAIN o /\ o[f].kind = "bool"
    <3>1. TakenOver(f, o[f]) /\ ValueOf(f, o[f]) = o[f].is /\ o[f].is \in BOOLEAN
      BY <1>2, <2>1, FieldNames DEF TakenOver, ValueOf, ObjectOK
    <3> QED  BY <2>1, <3>1, FieldNames
  <2>2. CASE f \in DOMAIN o /\ o[f].kind = "str"
    <3>1. TakenOver(f, o[f])
      BY <2>2 DEF TakenOver
    <3>2. f \in Flags /\ o[f].kind = "str"
      BY <2>2
    <3>3. ValueOf(f, o[f]) = (o[f].is \in {"true", "1"})
      BY <3>2, Zenon DEF ValueOf
    <3>4. (o[f].is \in {"true", "1"}) \in BOOLEAN
      OBVIOUS
    <3>5. ValueOf(f, o[f]) \in BOOLEAN
      BY <3>3, <3>4, Zenon
    <3> QED  BY <2>2, <3>1, <3>5, FieldNames
  <2>3. CASE ~(f \in DOMAIN o /\ o[f].kind \in {"bool", "str"})
    <3>1. ~(f \in DOMAIN o /\ TakenOver(f, o[f]))
      BY <1>2, <2>3 DEF TakenOver
    <3> QED  BY <3>1, FieldNames, DefaultOK DEF RequestOK
  <2> QED  BY <2>1, <2>2, <2>3
<1>5. \A f \in Named : r[f] # ""
  BY FieldNames, DefaultOK DEF TakenOver, ValueOf, RequestOK
<1>6. r = [f \in Fields |-> r[f]]
  OBVIOUS
<1>7. RequestOK(r)
  BY <1>3, <1>4, <1>5, <1>6 DEF RequestOK
<1> HIDE DEF r
<1>8. RequestOK(Instrumental(r))
  BY <1>7, InstrumentalOK
<1> QED  BY <1>8 DEF Parse, r

\* What the server writes of a request is read back as that request.
LEMMA BuildParse == ASSUME NEW r, RequestOK(r) PROVE Parse(Build(r)) = Instrumental(r)
<1> DEFINE o == Build(r)
           q == [f \in Fields |->
                    IF f \in DOMAIN o /\ TakenOver(f, o[f])
                    THEN ValueOf(f, o[f]) ELSE Default[f]]
<1>1. ASSUME NEW f \in Fields PROVE q[f] = r[f]
  <2>1. CASE f \in DOMAIN o
    <3>1. o[f] = [kind |-> KindOf(f), is |-> r[f]]
      BY <2>1 DEF Build, Written
    <3>2. ~(f \in Named /\ r[f] = "")
      BY DEF RequestOK
    <3>3. ~(f \in Flags /\ KindOf(f) = "str")
      BY FieldNames DEF KindOf
    <3>4. o[f].kind = KindOf(f) /\ o[f].is = r[f]
      BY <3>1
    <3>5. TakenOver(f, o[f]) /\ ValueOf(f, o[f]) = r[f]
      BY <3>2, <3>3, <3>4, Zenon DEF TakenOver, ValueOf
    <3> QED  BY <2>1, <3>5
  <2>2. CASE f \notin DOMAIN o
    <3>1. r[f] = Default[f]
      BY <2>2 DEF Build, Written
    <3> QED  BY <2>2, <3>1
  <2> QED  BY <2>1, <2>2
<1>2. q = [f \in Fields |-> r[f]]
  BY <1>1
<1>3. q = r
  BY <1>2 DEF RequestOK
<1> QED  BY <1>3, Zenon DEF Parse

LEMMA BuildOK == ASSUME NEW r, RequestOK(r) PROVE ObjectOK(Build(r))
<1> SUFFICES ASSUME NEW f \in DOMAIN Build(r)
             PROVE  /\ Build(r)[f].kind = "num" => Build(r)[f].is \in Int
                    /\ Build(r)[f].kind = "bool" => Build(r)[f].is \in BOOLEAN
    BY DEF ObjectOK
<1>1. Build(r)[f].kind = KindOf(f) /\ Build(r)[f].is = r[f]
  BY DEF Build, Written
<1>2. /\ KindOf(f) = "num" => f \in Numbers
      /\ KindOf(f) = "bool" => f \in Flags
  BY DEF KindOf
<1> QED  BY <1>1, <1>2, Zenon DEF RequestOK

LEMMA LmOutOK ==
  ASSUME NEW r, RequestOK(r), NEW out \in LmOut(r)
  PROVE  RequestOK(out) /\ out.seed = r.seed
<1>1. PICK l, v : out = LmSings(r, l, v)
  BY SMT DEF LmOut
<1>2. DOMAIN r = Fields
  BY DEF RequestOK
<1>3. /\ out = [f \in Fields |-> out[f]]
      /\ out.lm_batch_size = 1
      /\ out.seed = r.seed /\ out.lm_seed = r.lm_seed
      /\ out.synth_batch_size = r.synth_batch_size /\ out.lm_temperature = r.lm_temperature
      /\ out.task_type = r.task_type /\ out.lm_mode = r.lm_mode
      /\ out.output_format = r.output_format
  BY <1>1, <1>2, FieldNames DEF LmSings
<1>4. out.use_cot_caption = TRUE \/ out.use_cot_caption = r.use_cot_caption
  BY <1>1, <1>2, FieldNames DEF LmSings
<1>5. /\ r.seed \in Int /\ r.lm_seed \in Int /\ r.synth_batch_size \in Int
      /\ r.lm_temperature \in Int
      /\ r.task_type # "" /\ r.lm_mode # "" /\ r.output_format # ""
  BY TypedFields, Zenon
<1>6. /\ out.seed \in Int /\ out.lm_seed \in Int /\ out.synth_batch_size \in Int
      /\ out.lm_temperature \in Int /\ out.lm_batch_size \in Int
      /\ out.task_type # "" /\ out.lm_mode # "" /\ out.output_format # ""
  <2>1. 1 \in Int
    OBVIOUS
  <2> QED  BY <2>1, <1>3, <1>5, Zenon
<1>7. out.use_cot_caption \in BOOLEAN
  BY <1>4, TypedFields, Zenon
<1>8. out = [f \in Fields |-> out[f]] /\ out.seed = r.seed
  BY <1>3, Zenon
<1> QED  BY <1>6, <1>7, <1>8, TypedFields, Zenon

LEMMA ResolveOneOK ==
  ASSUME NEW r, RequestOK(r), NEW f \in {"seed", "lm_seed"}, NEW q \in ResolveSeed(r, f)
  PROVE  /\ RequestOK(q) /\ q[f] >= 0
         /\ \A g \in Fields \ {f} : q[g] = r[g]
<1>1. PICK s \in IF r[f] < 0 THEN Drawn ELSE {r[f]} : q = [r EXCEPT ![f] = s]
  BY Zenon DEF ResolveSeed
<1>2. r[f] \in Int
  BY DEF RequestOK, Numbers
<1>3. s \in Int /\ s >= 0
  BY <1>1, <1>2, DrawnAssumption
<1>4. /\ q = [g \in Fields |-> q[g]] /\ q[f] = s
      /\ \A g \in Fields \ {f} : q[g] = r[g]
  BY <1>1, FieldNames DEF RequestOK
<1> QED  BY <1>3, <1>4, FieldNames DEF RequestOK, Flags, Named

LEMMA ResolveBothOK ==
  ASSUME NEW r, RequestOK(r), NEW q \in ResolveSeeds(r)
  PROVE  /\ RequestOK(q) /\ q.seed >= 0 /\ q.lm_seed >= 0
         /\ q.lm_mode = r.lm_mode /\ q.lm_model = r.lm_model
<1>1. PICK p \in ResolveSeed(r, "lm_seed") : q \in ResolveSeed(p, "seed")
  BY Zenon DEF ResolveSeeds
<1>2. /\ RequestOK(p) /\ p["lm_seed"] >= 0
      /\ \A g \in Fields \ {"lm_seed"} : p[g] = r[g]
  BY <1>1, ResolveOneOK
<1>3. /\ RequestOK(q) /\ q["seed"] >= 0
      /\ \A g \in Fields \ {"seed"} : q[g] = p[g]
  BY <1>1, <1>2, ResolveOneOK
<1> QED  BY <1>2, <1>3, FieldNames

\* The requests of an accepted LM job: no more than the KV sets, of one mode
\* and model, and with their seeds.
LmBatchOK(s) ==
    /\ s \in Seq(Range(s)) /\ Len(s) \in 1 .. MaxBatch
    /\ \A i \in DOMAIN s :
          /\ RequestOK(s[i]) /\ s[i].seed >= 0 /\ s[i].lm_seed >= 0
          /\ s[i].lm_mode = s[1].lm_mode /\ s[i].lm_model = s[1].lm_model

\* The variants of one request: no seed twice.
Apart(s) ==
    \A i, k \in DOMAIN s : i # k => s[i].lm_seed # s[k].lm_seed /\ s[i].seed # s[k].seed

LEMMA BatchesOK ==
  ASSUME NEW rs, rs \in Seq(Range(rs)), \A i \in DOMAIN rs : RequestOK(rs[i]),
         LmAccepts(rs), NEW s \in Batches(rs)
  PROVE  LmBatchOK(s) /\ (Len(rs) = 1 => Apart(s))
<1>a. Len(rs) \in 1 .. MaxBatch /\ DOMAIN rs = 1 .. Len(rs) /\ MaxBatch \in 1 .. 9
  <2>1. Len(rs) \in 1 .. MaxBatch
    BY Zenon DEF LmAccepts
  <2>2. MaxBatch \in 1 .. 9
    BY IntakeAssumption
  <2>3. DOMAIN rs = 1 .. Len(rs)
    OBVIOUS
  <2> QED  BY <2>1, <2>2, <2>3
<1>b. \A i \in DOMAIN rs : rs[i].lm_mode = rs[1].lm_mode /\ rs[i].lm_model = rs[1].lm_model
  BY Zenon DEF LmAccepts
<1>1. CASE Len(rs) = 1
  <2>1. RequestOK(rs[1]) /\ rs[1].lm_batch_size \in Int
    <3>1. 1 \in DOMAIN rs
      BY <1>a, <1>1
    <3>2. RequestOK(rs[1])
      BY <3>1, Zenon
    <3> QED  BY <3>2, TypedFields, Zenon
  <2> DEFINE n == Clamped(rs[1].lm_batch_size)
  <2>2. n \in 1 .. MaxBatch
    BY <1>a, <2>1 DEF Clamped
  <2> HIDE DEF n
  <2> DEFINE variant(q, b) == [q EXCEPT !.lm_seed = @ + b - 1, !.seed = @ + b - 1]
  <2>3. PICK q \in ResolveSeeds(rs[1]) : s = [b \in 1 .. n |-> variant(q, b)]
    BY <1>1, Zenon DEF Batches, VariantsOf, n
  <2> HIDE DEF variant
  <2>4. RequestOK(q) /\ q.seed >= 0 /\ q.lm_seed >= 0
    BY <2>1, ResolveBothOK
  <2>5. ASSUME NEW b \in 1 .. n
        PROVE  /\ RequestOK(s[b]) /\ s[b].seed >= 0 /\ s[b].lm_seed >= 0
               /\ s[b].lm_mode = q.lm_mode /\ s[b].lm_model = q.lm_model
               /\ s[b].seed = q.seed + b - 1 /\ s[b].lm_seed = q.lm_seed + b - 1
    <3>1. s[b] = [q EXCEPT !.lm_seed = @ + b - 1, !.seed = @ + b - 1]
      BY <2>3 DEF variant
    <3>2. q.seed \in Int /\ q.lm_seed \in Int /\ b \in Int /\ b >= 1
      <4>1. q.seed \in Int /\ q.lm_seed \in Int
        BY <2>4, TypedFields, Zenon
      <4> QED  BY <2>2, <4>1
    <3>3. /\ s[b] = [f \in Fields |-> s[b][f]]
          /\ s[b]["seed"] = q.seed + b - 1 /\ s[b]["lm_seed"] = q.lm_seed + b - 1
          /\ \A f \in Fields \ {"seed", "lm_seed"} : s[b][f] = q[f]
      BY <2>4, <3>1, FieldNames DEF RequestOK
    <3>4. s[b]["seed"] \in Nat /\ s[b]["lm_seed"] \in Nat
      BY <2>4, <3>2, <3>3
    <3>5. /\ q.lm_batch_size \in Int /\ q.synth_batch_size \in Int /\ q.lm_temperature \in Int
          /\ q.use_cot_caption \in BOOLEAN
          /\ q.task_type # "" /\ q.lm_mode # "" /\ q.output_format # ""
      BY <2>4, TypedFields, Zenon
    <3>6. /\ s[b].lm_batch_size = q.lm_batch_size /\ s[b].synth_batch_size = q.synth_batch_size
          /\ s[b].lm_temperature = q.lm_temperature /\ s[b].use_cot_caption = q.use_cot_caption
          /\ s[b].task_type = q.task_type /\ s[b].lm_mode = q.lm_mode
          /\ s[b].output_format = q.output_format /\ s[b].lm_model = q.lm_model
      BY <3>3, FieldNames
    <3>7. s[b].seed \in Int /\ s[b].seed >= 0 /\ s[b].lm_seed \in Int /\ s[b].lm_seed >= 0
      BY <3>4
    <3>8. RequestOK(s[b])
      BY <3>3, <3>5, <3>6, <3>7, TypedFields, Zenon
    <3> QED  BY <3>3, <3>6, <3>7, <3>8
  <2>6. s \in Seq(Range(s)) /\ Len(s) = n /\ DOMAIN s = 1 .. n
    <3>1. n \in Nat /\ DOMAIN s = 1 .. n /\ s = [b \in 1 .. n |-> s[b]]
      BY <1>a, <2>2, <2>3
    <3>2. \A b \in 1 .. n : s[b] \in Range(s)
      BY <3>1 DEF Range
    <3> QED  BY <3>1, <3>2
  <2>7. LmBatchOK(s)
    BY <2>2, <2>5, <2>6 DEF LmBatchOK
  <2>8. ASSUME NEW i \in 1 .. n, NEW k \in 1 .. n, i # k
        PROVE  s[i].lm_seed # s[k].lm_seed /\ s[i].seed # s[k].seed
    <3>1. q.seed \in Int /\ q.lm_seed \in Int
      BY <2>4, TypedFields, Zenon
    <3>2. i \in Int /\ k \in Int
      BY <2>2
    <3>3. /\ s[i].seed = q.seed + i - 1 /\ s[i].lm_seed = q.lm_seed + i - 1
          /\ s[k].seed = q.seed + k - 1 /\ s[k].lm_seed = q.lm_seed + k - 1
      BY <2>5
    <3> QED  BY <2>8, <3>1, <3>2, <3>3
  <2> QED  BY <2>6, <2>7, <2>8, Zenon DEF Apart
<1>2. CASE Len(rs) # 1
  <2>1. /\ DOMAIN s = DOMAIN rs /\ s = [i \in DOMAIN rs |-> s[i]]
        /\ \A i \in DOMAIN rs : s[i] \in ResolveSeeds(rs[i])
    BY <1>2 DEF Batches
  <2>2. \A i \in DOMAIN rs :
          /\ RequestOK(s[i]) /\ s[i].seed >= 0 /\ s[i].lm_seed >= 0
          /\ s[i].lm_mode = rs[i].lm_mode /\ s[i].lm_model = rs[i].lm_model
    BY <2>1, ResolveBothOK
  <2>3. s \in Seq(Range(s)) /\ Len(s) = Len(rs)
    <3>1. \A i \in 1 .. Len(rs) : s[i] \in Range(s)
      BY <1>a, <2>1 DEF Range
    <3> QED  BY <1>a, <2>1, <3>1
  <2>4. LmBatchOK(s)
    BY <1>a, <1>b, <2>1, <2>2, <2>3 DEF LmBatchOK
  <2> QED  BY <1>2, <2>4
<1> QED  BY <1>1, <1>2

(***************************************************************************)
(* The registry.                                                           *)
(***************************************************************************)

LEMMA NamesSeq ==
  ASSUME NEW entries, IsFiniteSet(DOMAIN entries), NEW chosen, chosen \subseteq DOMAIN entries
  PROVE  Names(entries, chosen) \in Seq(Range(Names(entries, chosen)))
<1> DEFINE n == Cardinality(chosen)
           s == Names(entries, chosen)
<1>1. n \in Nat
  BY FS_Subset, FS_CardinalityType
<1>2. s = [k \in 1 .. n |-> s[k]]
  BY DEF Names
<1> HIDE DEF n, s
<1>3. \A k \in 1 .. n : s[k] \in Range(s)
  BY <1>2 DEF Range
<1>4. s \in Seq(Range(s))
  BY <1>1, <1>2, <1>3
<1> QED  BY <1>4 DEF s

\* A bucket is a sequence, whatever it holds.
RegistryOK == \A b \in {"lm", "dit", "vae"} : registry[b] \in Seq(Range(registry[b]))

LEMMA OnlyOne ==
  ASSUME NEW s, s \in Seq(Range(s)), Len(s) = 1
  PROVE  Range(s) = {s[1]} /\ s = <<s[1]>> /\ s # <<>>
<1>1. DOMAIN s = {1}
  OBVIOUS
<1>2. Range(s) = {s[1]}
  BY <1>1 DEF Range
<1>3. s = <<s[1]>>
  OBVIOUS
<1>4. s # <<>>
  <2>1. Len(<<>>) = 0 /\ 0 # 1
    OBVIOUS
  <2> QED  BY <2>1, Zenon
<1> QED  BY <1>2, <1>3, <1>4, Zenon

\* A name that handle_caption lets through is found at any later time, and is
\* the only one there is if the post had not named one.
LEMMA CaptionNamed ==
  ASSUME NEW bucket, bucket \in Seq(Range(bucket)), NEW asked, Exact(bucket, asked),
         NEW was, was = "" \/ was \in Range(bucket)
  PROVE  /\ Find(bucket, ResolveName(bucket, asked, was))
         /\ asked = "" => bucket = <<ResolveName(bucket, asked, was)>>
<1>1. CASE asked # ""
  <2>1. ResolveName(bucket, asked, was) = asked
    BY <1>1 DEF ResolveName
  <2>2. Find(bucket, asked)
    BY <1>1, Zenon DEF Exact
  <2> QED  BY <1>1, <2>1, <2>2
<1>2. CASE asked = ""
  <2>1. Len(bucket) = 1
    BY <1>2, Zenon DEF Exact
  <2>2. Range(bucket) = {bucket[1]} /\ bucket = <<bucket[1]>> /\ bucket # <<>>
    BY <2>1, OnlyOne, Zenon
  <2>3. was = "" \/ was = bucket[1]
    BY <2>2, Zenon
  <2>4. ResolveName(bucket, asked, was) = bucket[1]
    BY <1>2, <2>2, <2>3, Zenon DEF ResolveName
  <2>5. bucket[1] \in Range(bucket)
    BY <2>2, Zenon
  <2> QED  BY <1>2, <2>2, <2>4, <2>5, Zenon DEF Find
<1> QED  BY <1>1, <1>2

(***************************************************************************)
(* Jobs.                                                                   *)
(***************************************************************************)

\* What the worker of a job frees.
Frees(to) ==
    CASE to = "synth" -> {"audio", "refAudio"}
      [] to \in {"understand", "caption", "encode"} -> {"audio"}
      [] OTHER -> {}

\* A job as its handler leaves it, for as long as it waits or runs.
Sound(j) ==
    /\ j # NoJob
    /\ j.requests \in Seq(Range(j.requests)) /\ j.requests # <<>>
    /\ \A i \in DOMAIN j.requests : RequestOK(j.requests[i])
    /\ j.parts \in [Parts -> Nat \cup {Absent}]
    /\ FitsIfThere(j.parts.src) /\ FitsIfThere(j.parts.ref)
    /\ Decoded(j.parts) \subseteq Frees(j.to)
    /\ j.to = "lm" => LmBatchOK(j.requests) /\ (j.single => Apart(j.requests))
    /\ j.to \in {"understand", "caption"} =>
          SeedsResolved(j) /\ (j.parts.src > 0 \/ j.parts.audio > 0)
    /\ j.to = "encode" => EncodeTakes(j.parts.audio)
    /\ j.from # <<>> =>
          /\ j.requests = [i \in DOMAIN j.from |-> Instrumental(j.from[i])]
          /\ \A i \in DOMAIN j.requests : j.requests[i].seed >= 0

\* A caption's models are in the registry, by one name each.
CaptionKnown(j) ==
    j.to = "caption" =>
        /\ Exact(registry.lm, j.requests[1].lm_model)
        /\ Exact(registry.dit, j.requests[1].synth_model)
        /\ Exact(registry.vae, j.requests[1].vae)

JobsOK ==
    /\ queue \in Seq(Range(queue))
    /\ posts \in Nat
    /\ \A j \in Pending : Sound(j) /\ CaptionKnown(j) /\ j.post \in 1 .. posts
    /\ \A i \in DOMAIN queue : queue[i] # NoJob

\* No two jobs are of one post.
PostsApart ==
    /\ \A i, k \in DOMAIN queue : i # k => queue[i].post # queue[k].post
    /\ running # NoJob => \A i \in DOMAIN queue : queue[i].post # running.post

\* What is remembered as loaded was found by that name.
LoadedOK ==
    /\ DOMAIN loaded = {"lm", "dit", "undDit", "vae", "adapter"}
    /\ loaded.lm = "" \/ loaded.lm \in Range(registry.lm)
    /\ loaded.undDit = "" \/ loaded.undDit \in Range(registry.dit)
    /\ loaded.vae = "" \/ loaded.vae \in Range(registry.vae)

MadeOK ==
    /\ made.body = [i \in DOMAIN made.requests |-> Build(made.requests[i])]
    /\ made.requests \in Seq(Range(made.requests))
    /\ \A i \in DOMAIN made.requests :
          RequestOK(made.requests[i]) /\ made.requests[i].seed >= 0

\* The registry is there before the first job and does not change.
StartsEmpty ==
    main = "starting" => queue = <<>> /\ running = NoJob /\ loaded = Nothing

IntakeInv ==
    RegistryOK /\ JobsOK /\ PostsApart /\ BuffersOwned /\ LoadedOK /\ MadeOK /\ StartsEmpty

LEMMA IntakeInitEstablishes == IntakeInit => IntakeInv
<1> SUFFICES ASSUME IntakeInit PROVE IntakeInv
    OBVIOUS
<1>0. /\ posts = 0 /\ queue = <<>> /\ running = NoJob /\ heap = {}
      /\ loaded = Nothing /\ made = NothingMade
      /\ \A b \in {"lm", "dit", "vae"} : registry[b] = <<>>
  BY DEF IntakeInit, Buckets
<1>1. Pending = {}
  BY <1>0 DEF Pending
<1>2. RegistryOK
  <2>1. <<>> \in Seq(Range(<<>>))
    OBVIOUS
  <2> QED  BY <1>0, <2>1, Zenon DEF RegistryOK
<1>3. JobsOK /\ PostsApart
  <2>1. queue \in Seq(Range(queue)) /\ DOMAIN queue = {} /\ posts \in Nat
    BY <1>0
  <2> QED  BY <1>0, <1>1, <2>1, Zenon DEF JobsOK, PostsApart
<1>4. BuffersOwned
  BY <1>0, <1>1 DEF BuffersOwned
<1>5. LoadedOK
  BY <1>0 DEF LoadedOK, Nothing
<1>6. MadeOK
  BY <1>0 DEF MadeOK, NothingMade
<1> QED  BY <1>0, <1>2, <1>3, <1>4, <1>5, <1>6 DEF IntakeInv, StartsEmpty

-----------------------------------------------------------------------------

LEMMA KnownStays ==
  ASSUME NEW j, UNCHANGED registry PROVE CaptionKnown(j) <=> CaptionKnown(j)'
  BY Zenon DEF CaptionKnown

LEMMA SameKeeps ==
  /\ RegistryOK /\ UNCHANGED registry => RegistryOK'
  /\ LoadedOK /\ UNCHANGED <<registry, loaded>> => LoadedOK'
  /\ MadeOK /\ UNCHANGED made => MadeOK'
<1>1. RegistryOK /\ UNCHANGED registry => RegistryOK'
  BY Zenon DEF RegistryOK
<1>2. LoadedOK /\ UNCHANGED <<registry, loaded>> => LoadedOK'
  BY Zenon DEF LoadedOK
<1>3. MadeOK /\ UNCHANGED made => MadeOK'
  BY Zenon DEF MadeOK
<1> QED  BY <1>1, <1>2, <1>3

LEMMA AppendOne ==
  ASSUME NEW q, q \in Seq(Range(q)), NEW j
  PROVE  /\ Append(q, j) \in Seq(Range(Append(q, j)))
         /\ DOMAIN q = 1 .. Len(q) /\ DOMAIN Append(q, j) = DOMAIN q \cup {Len(q) + 1}
         /\ Len(q) + 1 \notin DOMAIN q
         /\ \A i \in DOMAIN q : Append(q, j)[i] = q[i]
         /\ Append(q, j)[Len(q) + 1] = j
<1> DEFINE p == Append(q, j)
<1>1. Len(q) \in Nat /\ DOMAIN q = 1 .. Len(q)
  OBVIOUS
<1>2. DOMAIN p = 1 .. Len(q) + 1 /\ (\A i \in 1 .. Len(q) : p[i] = q[i]) /\ p[Len(q) + 1] = j
  BY <1>1
<1>3. p \in Seq(Range(q) \cup {j}) /\ Len(p) = Len(q) + 1
  OBVIOUS
<1> HIDE DEF p
<1>4. p = [i \in 1 .. Len(p) |-> p[i]]
  BY <1>3
<1>5. \A i \in 1 .. Len(p) : p[i] \in Range(p)
  BY <1>1, <1>2, <1>3 DEF Range
<1>6. p \in Seq(Range(p))
  BY <1>1, <1>3, <1>4, <1>5
<1> QED  BY <1>1, <1>2, <1>6 DEF p

LEMMA AcceptKeeps ==
  ASSUME IntakeInv, main = "serving",
         NEW j, j.post = posts + 1, Sound(j), CaptionKnown(j),
         Enqueue(j), heap' = heap \cup Owned(j)
  PROVE  IntakeInv'
<1>0. /\ posts' = posts + 1 /\ queue' = Append(queue, j) /\ posts \in Nat
      /\ queue \in Seq(Range(queue))
      /\ UNCHANGED <<main, registry, running, refused, loaded, made>>
  BY DEF Enqueue, IntakeInv, JobsOK
<1>1. /\ queue' \in Seq(Range(queue'))
      /\ DOMAIN queue' = DOMAIN queue \cup {Len(queue) + 1} /\ Len(queue) + 1 \notin DOMAIN queue
      /\ \A i \in DOMAIN queue : queue'[i] = queue[i]
      /\ queue'[Len(queue) + 1] = j
  BY <1>0, AppendOne
<1>2. Pending' = Pending \cup {j}
  BY <1>0, <1>1 DEF Pending
<1>3. /\ \A k \in Pending : Sound(k) /\ CaptionKnown(k) /\ k.post \in 1 .. posts
      /\ \A i \in DOMAIN queue : queue[i] # NoJob /\ queue[i].post \in 1 .. posts
      /\ running # NoJob => running.post \in 1 .. posts
  BY Zenon DEF IntakeInv, JobsOK, Pending
<1>4. RegistryOK' /\ LoadedOK' /\ MadeOK'
  BY <1>0, SameKeeps DEF IntakeInv
<1>5. JobsOK'
  <2>1. \A k \in Pending : Sound(k) /\ CaptionKnown(k)' /\ k.post \in 1 .. posts'
    BY <1>0, <1>3, KnownStays
  <2>2. Sound(j) /\ CaptionKnown(j)' /\ j.post \in 1 .. posts'
    BY <1>0, KnownStays
  <2>3. \A i \in DOMAIN queue' : queue'[i] # NoJob
    BY <1>1, <1>3, Zenon DEF Sound
  <2>4. posts' \in Nat
    BY <1>0
  <2>5. \A k \in Pending' : Sound(k) /\ CaptionKnown(k)' /\ k.post \in 1 .. posts'
    BY <1>2, <2>1, <2>2, Zenon
  <2> QED  BY <1>1, <2>3, <2>4, <2>5, Zenon DEF JobsOK
<1>6. PostsApart'
  <2>1. \A i \in DOMAIN queue : queue[i].post # j.post
    BY <1>0, <1>3
  <2>2. running # NoJob => running.post # j.post
    BY <1>0, <1>3
  <2>3. /\ \A i, k \in DOMAIN queue : i # k => queue[i].post # queue[k].post
        /\ running # NoJob => \A i \in DOMAIN queue : queue[i].post # running.post
    BY Zenon DEF IntakeInv, PostsApart
  <2>4. ASSUME NEW i \in DOMAIN queue', NEW k \in DOMAIN queue', i # k
        PROVE  queue'[i].post # queue'[k].post
    BY <1>1, <2>1, <2>3, <2>4
  <2>5. running' # NoJob => \A i \in DOMAIN queue' : queue'[i].post # running'.post
    BY <1>0, <1>1, <2>2, <2>3
  <2> QED  BY <2>4, <2>5, Zenon DEF PostsApart
<1>7. BuffersOwned'
  <2>1. UNION {Owned(k) : k \in Pending'} \subseteq heap'
    BY <1>2 DEF IntakeInv, BuffersOwned
  <2>2. \A b \in heap' : b[1] \in refused' \/ \E k \in Pending' : b \in Owned(k)
    BY <1>0, <1>2, Zenon DEF IntakeInv, BuffersOwned
  <2> QED  BY <2>1, <2>2, Zenon DEF BuffersOwned
<1>8. StartsEmpty'
  BY <1>0, Zenon DEF StartsEmpty
<1> QED  BY <1>4, <1>5, <1>6, <1>7, <1>8, Zenon DEF IntakeInv

LEMMA TailOne ==
  ASSUME NEW q, q \in Seq(Range(q)), q # <<>>
  PROVE  /\ Tail(q) \in Seq(Range(Tail(q)))
         /\ 1 \in DOMAIN q /\ Head(q) = q[1]
         /\ \A i \in DOMAIN Tail(q) : i + 1 \in DOMAIN q \ {1} /\ Tail(q)[i] = q[i + 1]
         /\ \A i \in DOMAIN q : i = 1 \/ (i - 1 \in DOMAIN Tail(q) /\ q[i] = Tail(q)[i - 1])
         /\ DOMAIN q \subseteq Nat /\ DOMAIN Tail(q) \subseteq Nat
<1> DEFINE p == Tail(q)
<1>1. Len(q) \in Nat \ {0} /\ DOMAIN q = 1 .. Len(q) /\ Head(q) = q[1]
  OBVIOUS
<1>2. p \in Seq(Range(q)) /\ Len(p) = Len(q) - 1 /\ \A i \in 1 .. Len(p) : p[i] = q[i + 1]
  OBVIOUS
<1> HIDE DEF p
<1>3. DOMAIN p = 1 .. Len(p) /\ p = [i \in 1 .. Len(p) |-> p[i]] /\ Len(p) \in Nat
  BY <1>1, <1>2
<1>4. \A i \in 1 .. Len(p) : p[i] \in Range(p)
  BY <1>3 DEF Range
<1>5. p \in Seq(Range(p))
  BY <1>3, <1>4
<1>6. \A i \in DOMAIN p : i + 1 \in DOMAIN q \ {1} /\ p[i] = q[i + 1]
  BY <1>1, <1>2, <1>3
<1>7. ASSUME NEW i \in DOMAIN q, i # 1 PROVE i - 1 \in DOMAIN p /\ q[i] = p[i - 1]
  <2>1. i \in Int /\ i - 1 \in 1 .. Len(p) /\ (i - 1) + 1 = i
    BY <1>1, <1>2, <1>7
  <2> QED  BY <1>2, <1>3, <2>1
<1> QED  BY <1>1, <1>3, <1>5, <1>6, <1>7 DEF p

LEMMA TakeKeeps == ASSUME IntakeInv, Take PROVE IntakeInv'
<1>0. /\ running = NoJob /\ queue # <<>> /\ running' = Head(queue) /\ queue' = Tail(queue)
      /\ main \in {"serving", "signalled"}
      /\ queue \in Seq(Range(queue))
      /\ UNCHANGED <<main, registry, posts, heap, refused, loaded, made>>
  BY DEF Take, IntakeInv, JobsOK
<1>1. /\ queue' \in Seq(Range(queue')) /\ 1 \in DOMAIN queue /\ running' = queue[1]
      /\ \A i \in DOMAIN queue' : i + 1 \in DOMAIN queue \ {1} /\ queue'[i] = queue[i + 1]
      /\ \A i \in DOMAIN queue :
            i = 1 \/ (i - 1 \in DOMAIN queue' /\ queue[i] = queue'[i - 1])
      /\ DOMAIN queue \subseteq Nat /\ DOMAIN queue' \subseteq Nat
  BY <1>0, TailOne
<1>2. \A i \in DOMAIN queue : queue[i] # NoJob
  BY Zenon DEF IntakeInv, JobsOK
<1>3. Pending' = Pending
  <2>1. ASSUME NEW j \in Pending PROVE j \in Pending'
    <3>1. PICK i \in DOMAIN queue : j = queue[i]
      BY <1>0 DEF Pending
    <3>2. CASE i = 1
      BY <1>1, <1>2, <3>1, <3>2 DEF Pending
    <3>3. CASE i # 1
      BY <1>1, <3>1, <3>3 DEF Pending
    <3> QED  BY <3>2, <3>3
  <2>2. ASSUME NEW j \in Pending' PROVE j \in Pending
    <3>1. CASE j = running'
      BY <1>1, <3>1 DEF Pending
    <3>2. CASE \E i \in DOMAIN queue' : j = queue'[i]
      BY <1>1, <3>2 DEF Pending
    <3> QED  BY <3>1, <3>2 DEF Pending
  <2> QED  BY <2>1, <2>2
<1>4. RegistryOK' /\ LoadedOK' /\ MadeOK'
  BY <1>0, SameKeeps DEF IntakeInv
<1>5. JobsOK'
  <2>1. \A j \in Pending : Sound(j) /\ CaptionKnown(j)' /\ j.post \in 1 .. posts'
    BY <1>0, KnownStays DEF IntakeInv, JobsOK
  <2>2. \A i \in DOMAIN queue' : queue'[i] # NoJob
    BY <1>1, <1>2
  <2>3. posts' \in Nat
    BY <1>0 DEF IntakeInv, JobsOK
  <2>4. \A j \in Pending' : Sound(j) /\ CaptionKnown(j)' /\ j.post \in 1 .. posts'
    BY <1>3, <2>1
  <2> QED  BY <1>1, <2>2, <2>3, <2>4, Zenon DEF JobsOK
<1>6. PostsApart'
  <2>1. \A i, k \in DOMAIN queue : i # k => queue[i].post # queue[k].post
    BY Zenon DEF IntakeInv, PostsApart
  <2>2. ASSUME NEW i \in DOMAIN queue', NEW k \in DOMAIN queue', i # k
        PROVE  queue'[i].post # queue'[k].post
    <3>1. i + 1 # k + 1 /\ i + 1 \in DOMAIN queue /\ k + 1 \in DOMAIN queue
      BY <1>1, <2>2
    <3>2. queue[i + 1].post # queue[k + 1].post
      BY <2>1, <3>1
    <3> QED  BY <1>1, <3>2
  <2>3. running' # NoJob => \A i \in DOMAIN queue' : queue'[i].post # running'.post
    BY <1>1, <2>1
  <2> QED  BY <2>2, <2>3, Zenon DEF PostsApart
<1>7. BuffersOwned'
  BY <1>0, <1>3, Zenon DEF IntakeInv, BuffersOwned
<1>8. StartsEmpty'
  BY <1>0 DEF StartsEmpty
<1> QED  BY <1>4, <1>5, <1>6, <1>7, <1>8, Zenon DEF IntakeInv

LEMMA SettleKeeps ==
  ASSUME IntakeInv, running # NoJob, NEW freed, Decoded(running.parts) \subseteq freed,
         Settle(freed), LoadedOK', MadeOK'
  PROVE  IntakeInv'
<1>0. /\ running' = NoJob /\ heap' = heap \ ({running.post} \X freed)
      /\ UNCHANGED <<main, registry, posts, queue, refused>>
  BY DEF Settle
<1>1. Pending = Pending' \cup {running}
  BY <1>0 DEF Pending
<1>2. \A j \in Pending' : j.post # running.post
  BY <1>0, Zenon DEF Pending, IntakeInv, PostsApart
<1>3. RegistryOK'
  BY <1>0, SameKeeps DEF IntakeInv
<1>4. JobsOK'
  <2>1. \A j \in Pending : Sound(j) /\ CaptionKnown(j)' /\ j.post \in 1 .. posts'
    BY <1>0, KnownStays DEF IntakeInv, JobsOK
  <2>2. posts' \in Nat /\ queue' \in Seq(Range(queue')) /\ \A i \in DOMAIN queue' : queue'[i] # NoJob
    BY <1>0, Zenon DEF IntakeInv, JobsOK
  <2>3. \A j \in Pending' : Sound(j) /\ CaptionKnown(j)' /\ j.post \in 1 .. posts'
    BY <1>1, <2>1
  <2> QED  BY <2>2, <2>3, Zenon DEF JobsOK
<1>5. PostsApart'
  BY <1>0, Zenon DEF IntakeInv, PostsApart
<1>6. BuffersOwned'
  <2>1. ASSUME NEW j \in Pending', NEW b \in Owned(j) PROVE b \in heap'
    <3>1. b \in heap
      BY <1>1 DEF IntakeInv, BuffersOwned
    <3>2. b[1] = j.post
      BY DEF Owned
    <3>3. b[1] # running.post
      BY <1>2, <3>2
    <3> QED  BY <1>0, <3>1, <3>3
  <2>2. ASSUME NEW b \in heap' PROVE b[1] \in refused' \/ \E j \in Pending' : b \in Owned(j)
    <3>1. b \in heap /\ b \notin Owned(running)
      BY <1>0 DEF Owned
    <3>2. b[1] \in refused \/ \E j \in Pending : b \in Owned(j)
      BY <3>1, Zenon DEF IntakeInv, BuffersOwned
    <3> QED  BY <1>0, <1>1, <3>1, <3>2
  <2> QED  BY <2>1, <2>2 DEF BuffersOwned
<1>7. StartsEmpty'
  BY <1>0, Zenon DEF IntakeInv, StartsEmpty
<1> QED  BY <1>3, <1>4, <1>5, <1>6, <1>7, Zenon DEF IntakeInv

LEMMA RefuseKeeps ==
  ASSUME IntakeInv, NEW p, RefuseSynth(p) PROVE IntakeInv'
<1>0. /\ posts' = posts + 1 /\ refused' = refused \cup {posts + 1} /\ posts \in Nat
      /\ \E parts : heap' = heap \cup ({posts + 1} \X parts)
      /\ UNCHANGED <<main, registry, queue, running, loaded, made>>
  BY Zenon DEF RefuseSynth, Allocate, IntakeInv, JobsOK
<1>1. Pending' = Pending
  BY <1>0 DEF Pending
<1>2. RegistryOK' /\ LoadedOK' /\ MadeOK'
  BY <1>0, SameKeeps DEF IntakeInv
<1>3. JobsOK'
  <2>1. \A j \in Pending : Sound(j) /\ CaptionKnown(j) /\ j.post \in 1 .. posts
    BY Zenon DEF IntakeInv, JobsOK
  <2>2. \A j \in Pending' : Sound(j) /\ CaptionKnown(j)' /\ j.post \in 1 .. posts'
    BY <1>0, <1>1, <2>1, KnownStays
  <2>3. queue' \in Seq(Range(queue')) /\ \A i \in DOMAIN queue' : queue'[i] # NoJob
    BY <1>0, Zenon DEF IntakeInv, JobsOK
  <2>4. posts' \in Nat
    BY <1>0
  <2> QED  BY <2>2, <2>3, <2>4, Zenon DEF JobsOK
<1>4. PostsApart'
  BY <1>0, Zenon DEF IntakeInv, PostsApart
<1>5. BuffersOwned'
  <2>1. PICK parts : heap' = heap \cup ({posts + 1} \X parts)
    BY <1>0
  <2>2. UNION {Owned(j) : j \in Pending'} \subseteq heap'
    BY <1>1, <2>1 DEF IntakeInv, BuffersOwned
  <2>3. ASSUME NEW b \in heap' PROVE b[1] \in refused' \/ \E j \in Pending' : b \in Owned(j)
    <3>1. CASE b \in {posts + 1} \X parts
      BY <1>0, <3>1
    <3>2. CASE b \in heap
      BY <1>0, <1>1, <3>2, Zenon DEF IntakeInv, BuffersOwned
    <3> QED  BY <2>1, <3>1, <3>2
  <2> QED  BY <2>2, <2>3, Zenon DEF BuffersOwned
<1>6. StartsEmpty'
  BY <1>0, Zenon DEF IntakeInv, StartsEmpty
<1> QED  BY <1>2, <1>3, <1>4, <1>5, <1>6, Zenon DEF IntakeInv

\* Steps that move main only, and none of them back to its start.
LEMMA MainKeeps ==
  ASSUME IntakeInv, main' # "starting" \/ UNCHANGED main,
         UNCHANGED <<registry, posts, queue, running, heap, refused, loaded, made>>
  PROVE  IntakeInv'
<1>1. Pending' = Pending
  BY DEF Pending
<1>2. RegistryOK' /\ LoadedOK' /\ MadeOK'
  BY SameKeeps DEF IntakeInv
<1>3. JobsOK'
  BY <1>1, KnownStays, Zenon DEF IntakeInv, JobsOK
<1>4. PostsApart'
  BY Zenon DEF IntakeInv, PostsApart
<1>5. BuffersOwned'
  BY <1>1, Zenon DEF IntakeInv, BuffersOwned
<1>6. StartsEmpty'
  BY Zenon DEF IntakeInv, StartsEmpty
<1> QED  BY <1>2, <1>3, <1>4, <1>5, <1>6, Zenon DEF IntakeInv

LEMMA StartKeeps ==
  ASSUME IntakeInv, NEW models, IsFiniteSet(DOMAIN models), NEW adapters, Start(models, adapters)
  PROVE  IntakeInv'
<1>0. /\ queue = <<>> /\ running = NoJob /\ loaded = Nothing
      /\ main' \in {"serving", "done"}
      /\ UNCHANGED <<posts, queue, running, heap, refused, loaded, made>>
      /\ \A b \in Buckets : registry'[b] = Scan(models)[b]
  BY DEF Start, IntakeInv, StartsEmpty, Buckets
<1>1. Pending' = {} /\ Pending = {}
  BY <1>0 DEF Pending
<1>2. RegistryOK'
  <2> SUFFICES ASSUME NEW b \in {"lm", "dit", "vae"}
               PROVE  registry'[b] \in Seq(Range(registry'[b]))
      BY Zenon DEF RegistryOK
  <2> DEFINE chosen == {i \in DOMAIN models : models[i].gguf /\ models[i].arch = Architecture[b]}
  <2>1. registry'[b] = Names(models, chosen)
    BY <1>0 DEF Scan, Buckets
  <2>2. chosen \subseteq DOMAIN models
    OBVIOUS
  <2> QED  BY <2>1, <2>2, NamesSeq, Zenon
<1>3. LoadedOK'
  BY <1>0 DEF LoadedOK, Nothing
<1>4. MadeOK'
  BY <1>0, SameKeeps DEF IntakeInv
<1>5. JobsOK' /\ PostsApart'
  <2>1. queue' = queue /\ posts' = posts /\ running' = running
    BY <1>0
  <2>2. queue \in Seq(Range(queue)) /\ posts \in Nat
    BY Zenon DEF IntakeInv, JobsOK
  <2>3. \A i \in DOMAIN queue : queue[i] # NoJob
    BY Zenon DEF IntakeInv, JobsOK
  <2>4. PostsApart
    BY Zenon DEF IntakeInv
  <2>5. JobsOK'
    BY ONLY <2>1, <2>2, <2>3, <1>1, Zenon DEF JobsOK
  <2>6. PostsApart'
    BY ONLY <2>1, <2>4, Zenon DEF PostsApart
  <2> QED  BY <2>5, <2>6
<1>6. BuffersOwned'
  BY <1>0, <1>1 DEF IntakeInv, BuffersOwned
<1>7. StartsEmpty'
  BY <1>0 DEF StartsEmpty
<1> QED  BY <1>2, <1>3, <1>4, <1>5, <1>6, <1>7, Zenon DEF IntakeInv

(***************************************************************************)
(* The handlers.                                                           *)
(***************************************************************************)

\* What the environment posts: a client's own text, or what the server
\* answered.
PostOK(p) ==
    /\ p.parts \in [Parts -> Nat \cup {Absent}]
    /\ p.text.objects \in Seq(Range(p.text.objects))
    /\ \A i \in DOMAIN p.text.objects : ObjectOK(p.text.objects[i])
    /\ p.text.form = "object" => Len(p.text.objects) = 1
    /\ p.from # <<>> =>
          /\ p.to = "synth"
          /\ ParseArray(p.text) = [i \in DOMAIN p.from |-> Instrumental(p.from[i])]
          /\ \A i \in DOMAIN ParseArray(p.text) : ParseArray(p.text)[i].seed >= 0

LEMMA JobFields ==
  ASSUME NEW to, NEW requests, NEW parts, NEW p
  PROVE  LET j == Job(to, requests, parts, p)
         IN  /\ j.post = posts + 1 /\ j.to = to /\ j.requests = requests
             /\ j.parts = parts /\ j.from = p.from /\ j # NoJob
             /\ j.single = (Len(p.text.objects) = 1)
<1>1. DOMAIN Job(to, requests, parts, p) = {"post", "to", "requests", "parts", "from", "single"}
  BY DEF Job
<1>2. DOMAIN NoJob = {}
  BY DEF NoJob
<1>3. Job(to, requests, parts, p) # NoJob
  BY <1>1, <1>2
<1> QED  BY <1>3 DEF Job

\* A job enqueued with its own buffers, each condition on the job as its
\* handler left it.
LEMMA JobAccepted ==
  ASSUME IntakeInv, main = "serving",
         NEW to, NEW requests, NEW parts, NEW p,
         Enqueue(Job(to, requests, parts, p)), Allocate(Decoded(parts)),
         Sound(Job(to, requests, parts, p)), CaptionKnown(Job(to, requests, parts, p))
  PROVE  IntakeInv'
<1> DEFINE j == Job(to, requests, parts, p)
<1>1. j.post = posts + 1 /\ j.parts = parts
  BY JobFields
<1>2. heap' = heap \cup Owned(j)
  BY <1>1 DEF Owned, Allocate
<1> HIDE DEF j
<1>3. Enqueue(j) /\ Sound(j) /\ CaptionKnown(j)
  BY DEF j
<1> QED  BY <1>1, <1>2, <1>3, AcceptKeeps

LEMMA ParseArrayOK ==
  ASSUME NEW p, PostOK(p)
  PROVE  /\ ParseArray(p.text) \in Seq(Range(ParseArray(p.text)))
         /\ \A i \in DOMAIN ParseArray(p.text) : RequestOK(ParseArray(p.text)[i])
<1> DEFINE o == p.text.objects
           s == ParseArray(p.text)
<1>1. Len(o) \in Nat /\ DOMAIN o = 1 .. Len(o) /\ \A i \in 1 .. Len(o) : ObjectOK(o[i])
  BY DEF PostOK
<1>2. s = [i \in 1 .. Len(o) |-> Parse(o[i])]
  BY <1>1 DEF ParseArray
<1>3. \A i \in 1 .. Len(o) : RequestOK(s[i])
  BY <1>1, <1>2, ParseOK
<1> HIDE DEF o, s
<1>4. \A i \in 1 .. Len(o) : s[i] \in Range(s)
  BY <1>2 DEF Range
<1>5. s \in Seq(Range(s)) /\ DOMAIN s = 1 .. Len(o)
  BY <1>1, <1>2, <1>4
<1>6. /\ s \in Seq(Range(s))
      /\ \A i \in DOMAIN s : RequestOK(s[i])
  BY <1>3, <1>5
<1> QED  BY <1>6 DEF s

LEMMA ParseOneOK ==
  ASSUME NEW p, PostOK(p), NEW own, RequestOK(own), ParseOne(p.text, own) # <<>>
  PROVE  \E r : ParseOne(p.text, own) = <<r>> /\ RequestOK(r)
<1>1. CASE p.text.form = "none"
  <2>1. ParseOne(p.text, own) = <<own>>
    BY <1>1 DEF ParseOne
  <2> QED  BY <2>1
<1>2. CASE p.text.form = "object"
  <2>1. ParseOne(p.text, own) = <<Parse(p.text.objects[1])>>
    BY <1>2 DEF ParseOne
  <2>2. 1 \in DOMAIN p.text.objects
    BY <1>2 DEF PostOK
  <2>3. ObjectOK(p.text.objects[1])
    BY <2>2, Zenon DEF PostOK
  <2> QED  BY <2>1, <2>3, ParseOK
<1>3. CASE p.text.form \notin {"none", "object"}
  BY <1>3 DEF ParseOne
<1> QED  BY <1>1, <1>2, <1>3

\* The parts that a handler looks at, and those it does not.
LEMMA OnlyParts ==
  ASSUME NEW p, PostOK(p), NEW names \in SUBSET Parts
  PROVE  /\ Only(names, p) \in [Parts -> Nat \cup {Absent}]
         /\ \A x \in Parts : Only(names, p)[x] = IF x \in names THEN p.parts[x] ELSE Absent
         /\ Decoded(Only(names, p)) = Decoded(p.parts) \cap names
<1>1. /\ Only(names, p) \in [Parts -> Nat \cup {Absent}]
      /\ \A x \in Parts : Only(names, p)[x] = IF x \in names THEN p.parts[x] ELSE Absent
  BY DEF PostOK, Only
<1>2. {"audio", "refAudio"} \subseteq Parts
  BY DEF Parts
<1>3. ~Decodes(Absent)
  BY DEF Decodes, Absent
<1>4. Decoded(Only(names, p)) = Decoded(p.parts) \cap names
  BY <1>1, <1>2, <1>3 DEF Decoded
<1> QED  BY <1>1, <1>4

LEMMA NotEmpty ==
  ASSUME NEW s, s \in Seq(Range(s)), Len(s) >= 1 PROVE s # <<>> /\ 1 \in DOMAIN s
<1>1. Len(<<>>) = 0 /\ ~(0 >= 1)
  OBVIOUS
<1>2. s # <<>>
  BY <1>1, Zenon
<1>3. 1 \in DOMAIN s
  OBVIOUS
<1> QED  BY <1>2, <1>3

LEMMA LmHandled ==
  ASSUME IntakeInv, main = "serving", NEW p, PostOK(p), p.to = "lm", HandleLm(p)
  PROVE  IntakeInv'
<1> DEFINE rs == ParseArray(p.text)
           parts == Only({}, p)
<1>1. /\ LmAccepts(rs) /\ Allocate({})
      /\ \E s \in Batches(rs) : Enqueue(Job("lm", s, parts, p))
  BY Zenon DEF HandleLm
<1>a. Len(rs) = Len(p.text.objects)
  BY DEF PostOK, ParseArray
<1> HIDE DEF rs
<1>2. PICK s \in Batches(rs) : Enqueue(Job("lm", s, parts, p))
  BY <1>1
<1>3. LmBatchOK(s) /\ (Len(p.text.objects) = 1 => Apart(s))
  BY <1>1, <1>a, ParseArrayOK, BatchesOK DEF rs
<1>4. Decoded(parts) = {} /\ parts \in [Parts -> Nat \cup {Absent}]
      /\ parts.src = Absent /\ parts.ref = Absent
  BY OnlyParts DEF Parts
<1> HIDE DEF parts
<1>5. p.from = <<>>
  BY DEF PostOK
<1> DEFINE j == Job("lm", s, parts, p)
<1>6. /\ j.requests = s /\ j.parts = parts /\ j.from = <<>> /\ j.to = "lm" /\ j # NoJob
      /\ j.single = (Len(p.text.objects) = 1)
  BY <1>5, JobFields
<1> HIDE DEF j
<1>7. /\ s \in Seq(Range(s)) /\ s # <<>>
      /\ \A i \in DOMAIN s : RequestOK(s[i])
  BY <1>3, NotEmpty DEF LmBatchOK
<1>8. Sound(j)
  BY <1>3, <1>4, <1>6, <1>7, Zenon DEF Sound, FitsIfThere
<1>9. CaptionKnown(j)
  BY <1>6 DEF CaptionKnown
<1> QED  BY <1>1, <1>2, <1>4, <1>8, <1>9, JobAccepted DEF j

LEMMA SynthHandled ==
  ASSUME IntakeInv, main = "serving", NEW p, PostOK(p), HandleSynth(p)
  PROVE  IntakeInv'
<1> DEFINE rs == ParseArray(p.text)
           parts == [p.parts EXCEPT !.refAudio = IF Decodes(@) THEN @ ELSE Absent]
<1>1. /\ rs # <<>> /\ FitsIfThere(p.parts.src) /\ FitsIfThere(p.parts.ref)
      /\ Enqueue(Job("synth", rs, parts, p)) /\ Allocate(Decoded(p.parts))
  BY Zenon DEF HandleSynth, SynthReads
<1>2. rs \in Seq(Range(rs)) /\ \A i \in DOMAIN rs : RequestOK(rs[i])
  BY ParseArrayOK
<1>3. p.from # <<>> =>
        /\ rs = [i \in DOMAIN p.from |-> Instrumental(p.from[i])]
        /\ \A i \in DOMAIN rs : rs[i].seed >= 0
  BY Zenon DEF PostOK
<1>4. /\ p.parts \in [Parts -> Nat \cup {Absent}]
      /\ Parts = {"src", "audio", "ref", "refAudio"}
  BY DEF PostOK, Parts
<1>5. /\ parts \in [Parts -> Nat \cup {Absent}] /\ parts.src = p.parts.src
      /\ parts.ref = p.parts.ref /\ parts.audio = p.parts.audio
      /\ parts.refAudio = IF Decodes(p.parts.refAudio) THEN p.parts.refAudio ELSE Absent
  BY <1>4
<1> HIDE DEF parts, rs
<1>6. ~Decodes(Absent)
  BY DEF Decodes, Absent
<1>7. Decoded(parts) = Decoded(p.parts)
  BY <1>5, <1>6 DEF Decoded
<1> DEFINE j == Job("synth", rs, parts, p)
<1>8. /\ j.requests = rs /\ j.parts = parts /\ j.from = p.from /\ j.to = "synth" /\ j # NoJob
  BY JobFields
<1> HIDE DEF j
<1>9. Decoded(j.parts) \subseteq Frees(j.to)
  BY <1>8 DEF Decoded, Frees
<1>10. Sound(j)
  BY <1>1, <1>2, <1>3, <1>5, <1>8, <1>9, Zenon DEF Sound
<1>11. CaptionKnown(j)
  BY <1>8 DEF CaptionKnown
<1> QED  BY <1>1, <1>7, <1>10, <1>11, JobAccepted DEF j, parts, rs

LEMMA UnderstandHandled ==
  ASSUME IntakeInv, main = "serving", NEW p, PostOK(p), HandleUnderstand(p)
  PROVE  IntakeInv'
<1> DEFINE r == ParseOne(p.text, UnderstandDefault)
           parts == Only({"src", "audio"}, p)
<1>1. /\ p.to \in {"understand", "caption"} /\ r # <<>>
      /\ p.to = "caption" => CaptionTakes(r[1], p)
      /\ FitsIfThere(p.parts.src) /\ DecodesIfThere(p.parts.audio)
      /\ p.parts.src # Absent \/ p.parts.audio # Absent
      /\ \E q \in ResolveSeed(r[1], "lm_seed") : Enqueue(Job(p.to, <<q>>, parts, p))
      /\ Allocate(Decoded(Only({"audio"}, p)))
  BY Zenon DEF HandleUnderstand
<1>2. RequestOK(r[1])
  <2>1. PICK x : r = <<x>> /\ RequestOK(x)
    BY <1>1, DefaultOK, ParseOneOK
  <2>2. r[1] = x
    BY <2>1
  <2> QED  BY <2>1, <2>2
<1> HIDE DEF r
<1>3. PICK q \in ResolveSeed(r[1], "lm_seed") : Enqueue(Job(p.to, <<q>>, parts, p))
  BY <1>1
<1>4. /\ RequestOK(q) /\ q.lm_seed >= 0
      /\ q.lm_model = r[1].lm_model /\ q.synth_model = r[1].synth_model /\ q.vae = r[1].vae
  BY <1>2, ResolveOneOK, FieldNames
<1>5. {"src", "audio"} \in SUBSET Parts /\ {"audio"} \in SUBSET Parts /\ "ref" \in Parts
  BY DEF Parts
<1>6. /\ parts \in [Parts -> Nat \cup {Absent}] /\ parts.src = p.parts.src
      /\ parts.ref = Absent /\ parts.audio = p.parts.audio
      /\ Decoded(parts) = Decoded(p.parts) \cap {"src", "audio"}
      /\ Decoded(Only({"audio"}, p)) = Decoded(p.parts) \cap {"audio"}
  BY <1>5, OnlyParts
<1>7. Decoded(parts) = Decoded(Only({"audio"}, p)) /\ Decoded(parts) \subseteq {"audio"}
  BY <1>6 DEF Decoded
<1>8. p.from = <<>>
  BY <1>1 DEF PostOK
<1>9. parts.src > 0 \/ parts.audio > 0
  BY <1>1, <1>6 DEF FitsIfThere, Fits, DecodesIfThere, Decodes
<1> HIDE DEF parts
<1> DEFINE j == Job(p.to, <<q>>, parts, p)
<1>10. /\ j.requests = <<q>> /\ j.parts = parts /\ j.from = <<>> /\ j.to = p.to /\ j # NoJob
  BY <1>8, JobFields
<1> HIDE DEF j
<1>11. /\ <<q>> \in Seq(Range(<<q>>)) /\ <<q>> # <<>> /\ DOMAIN <<q>> = {1} /\ <<q>>[1] = q
  BY DEF Range
<1>12. SeedsResolved(j)
  BY <1>4, <1>10, <1>11, Zenon DEF SeedsResolved
<1>13. Decoded(j.parts) \subseteq Frees(j.to)
  BY <1>1, <1>7, <1>10 DEF Frees
<1>14. \A i \in DOMAIN j.requests : RequestOK(j.requests[i])
  BY <1>4, <1>10, <1>11, Zenon
<1>15. j.to # "lm" /\ j.to # "encode"
  BY <1>1, <1>10
<1>16. FitsIfThere(parts.src) /\ FitsIfThere(parts.ref)
  BY <1>1, <1>6, Zenon DEF FitsIfThere
<1>17. Sound(j)
  BY <1>6, <1>9, <1>10, <1>11, <1>12, <1>13, <1>14, <1>15, <1>16, Zenon DEF Sound
<1>18. CaptionKnown(j)
  BY <1>1, <1>4, <1>10, <1>11, Zenon DEF CaptionKnown, CaptionTakes
<1> QED  BY <1>1, <1>3, <1>7, <1>17, <1>18, JobAccepted DEF j

LEMMA VaeHandled ==
  ASSUME IntakeInv, main = "serving", NEW p, PostOK(p), p.to = "vae", HandleVae(p)
  PROVE  IntakeInv'
<1> DEFINE r == ParseOne(p.text, Default)
<1>1. /\ r # <<>>
      /\ \/ /\ p.parts.src = Absent /\ EncodeTakes(p.parts.audio)
            /\ Enqueue(Job("encode", r, Only({"audio"}, p), p)) /\ Allocate({"audio"})
         \/ /\ Fits(p.parts.src)
            /\ Enqueue(Job("decode", r, Only({"src"}, p), p)) /\ Allocate({})
  BY Zenon DEF HandleVae
<1>2. PICK x : r = <<x>> /\ RequestOK(x)
  BY <1>1, DefaultOK, ParseOneOK
<1> HIDE DEF r
<1>3. /\ r \in Seq(Range(r)) /\ r # <<>> /\ \A i \in DOMAIN r : RequestOK(r[i])
  <2>1. /\ <<x>> \in Seq(Range(<<x>>)) /\ <<x>> # <<>> /\ DOMAIN <<x>> = {1} /\ <<x>>[1] = x
    BY DEF Range
  <2> QED  BY <1>2, <2>1, Zenon
<1>4. /\ {"src"} \in SUBSET Parts /\ {"audio"} \in SUBSET Parts
      /\ {"src", "audio", "ref"} \subseteq Parts
  BY DEF Parts
<1>5. p.from = <<>>
  BY DEF PostOK
<1>6. CASE /\ EncodeTakes(p.parts.audio)
           /\ Enqueue(Job("encode", r, Only({"audio"}, p), p)) /\ Allocate({"audio"})
  <2> DEFINE parts == Only({"audio"}, p)
             j == Job("encode", r, parts, p)
  <2>1. /\ parts \in [Parts -> Nat \cup {Absent}] /\ parts.src = Absent /\ parts.ref = Absent
        /\ parts.audio = p.parts.audio /\ Decoded(parts) = Decoded(p.parts) \cap {"audio"}
    BY <1>4, OnlyParts
  <2>2. Decoded(parts) = {"audio"}
    BY <1>6, <2>1 DEF Decoded, EncodeTakes
  <2> HIDE DEF parts
  <2>3. /\ j.requests = r /\ j.parts = parts /\ j.from = <<>> /\ j.to = "encode" /\ j # NoJob
    BY <1>5, JobFields
  <2> HIDE DEF j
  <2>4. Decoded(j.parts) \subseteq Frees(j.to)
    BY <2>2, <2>3 DEF Frees
  <2>5. Sound(j)
    BY <1>3, <1>6, <2>1, <2>3, <2>4, Zenon DEF Sound, FitsIfThere
  <2>6. CaptionKnown(j)
    BY <2>3 DEF CaptionKnown
  <2> QED  BY <1>6, <2>2, <2>5, <2>6, JobAccepted DEF j, parts
<1>7. CASE /\ Fits(p.parts.src)
           /\ Enqueue(Job("decode", r, Only({"src"}, p), p)) /\ Allocate({})
  <2> DEFINE parts == Only({"src"}, p)
             j == Job("decode", r, parts, p)
  <2>1. /\ parts \in [Parts -> Nat \cup {Absent}] /\ parts.src = p.parts.src
        /\ parts.ref = Absent /\ Decoded(parts) = Decoded(p.parts) \cap {"src"}
    BY <1>4, OnlyParts
  <2>2. Decoded(parts) = {}
    BY <2>1 DEF Decoded
  <2> HIDE DEF parts
  <2>3. /\ j.requests = r /\ j.parts = parts /\ j.from = <<>> /\ j.to = "decode" /\ j # NoJob
    BY <1>5, JobFields
  <2> HIDE DEF j
  <2>4. Decoded(j.parts) \subseteq Frees(j.to)
    BY <2>2, <2>3
  <2>5. Sound(j)
    BY <1>3, <1>7, <2>1, <2>3, <2>4, Zenon DEF Sound, FitsIfThere
  <2>6. CaptionKnown(j)
    BY <2>3 DEF CaptionKnown
  <2> QED  BY <1>7, <2>2, <2>5, <2>6, JobAccepted DEF j, parts
<1> QED  BY <1>1, <1>6, <1>7

LEMMA HandleKeeps ==
  ASSUME IntakeInv, NEW p, PostOK(p), Handle(p) PROVE IntakeInv'
  BY LmHandled, SynthHandled, RefuseKeeps, UnderstandHandled, VaeHandled, Zenon DEF Handle

(***************************************************************************)
(* The workers.                                                            *)
(***************************************************************************)

LEMMA RememberKeeps ==
  ASSUME LoadedOK, UNCHANGED registry, NEW names, Remember(names),
         "lm" \in DOMAIN names => Find(registry.lm, names.lm),
         "undDit" \in DOMAIN names => Find(registry.dit, names.undDit),
         "vae" \in DOMAIN names => Find(registry.vae, names.vae)
  PROVE  LoadedOK'
<1>1. /\ DOMAIN loaded = {"lm", "dit", "undDit", "vae", "adapter"}
      /\ DOMAIN loaded' = DOMAIN loaded
      /\ \A n \in DOMAIN loaded : loaded'[n] = loaded[n] \/ loaded'[n] = ""
                                  \/ (n \in DOMAIN names /\ loaded'[n] = names[n])
  BY DEF LoadedOK, Remember
<1>2. loaded'.lm = "" \/ loaded'.lm \in Range(registry.lm)
  BY <1>1 DEF LoadedOK, Find
<1>3. loaded'.undDit = "" \/ loaded'.undDit \in Range(registry.dit)
  BY <1>1 DEF LoadedOK, Find
<1>4. loaded'.vae = "" \/ loaded'.vae \in Range(registry.vae)
  BY <1>1 DEF LoadedOK, Find
<1> QED  BY <1>1, <1>2, <1>3, <1>4 DEF LoadedOK

LEMMA WorkKeeps == ASSUME IntakeInv, Work PROVE IntakeInv'
<1>1. Sound(running) /\ running # NoJob
  BY DEF Work, Pending, IntakeInv, JobsOK
<1>2. Decoded(running.parts) \subseteq Frees(running.to)
  BY <1>1, Zenon DEF Sound
<1>3. ASSUME NEW freed, GivesUp(freed), Frees(running.to) \subseteq freed PROVE IntakeInv'
  <2>1. Settle(freed) /\ UNCHANGED <<registry, loaded, made>>
    BY <1>3 DEF GivesUp, Settle
  <2>2. LoadedOK' /\ MadeOK'
    BY <2>1, SameKeeps DEF IntakeInv
  <2> QED  BY <1>1, <1>2, <1>3, <2>1, <2>2, SettleKeeps
<1>4. ASSUME NEW freed, Settle(freed), Frees(running.to) \subseteq freed, UNCHANGED made, LoadedOK'
      PROVE  IntakeInv'
  <2>1. MadeOK'
    BY <1>4, SameKeeps DEF IntakeInv
  <2> QED  BY <1>1, <1>2, <1>4, <2>1, SettleKeeps
<1>5. CASE LmWorker
  <2>1. running.to = "lm"
    BY <1>5 DEF LmWorker
  <2>2. Frees(running.to) \subseteq {}
    BY <2>1 DEF Frees
  <2>3. CASE GivesUp({})
    BY <1>3, <2>2, <2>3
  <2>4. CASE ~GivesUp({})
    <3>1. /\ Find(registry.lm, LmName) /\ Remember([lm |-> LmName]) /\ Settle({})
          /\ \E out \in [DOMAIN running.requests ->
                            UNION {LmOut(running.requests[i]) : i \in DOMAIN running.requests}] :
                /\ \A i \in DOMAIN out : out[i] \in LmOut(running.requests[i])
                /\ made' = [requests |-> out, body |-> [i \in DOMAIN out |-> Build(out[i])]]
      BY <1>5, <2>4, Zenon DEF LmWorker
    <3>2. LoadedOK'
      <4>1. DOMAIN [lm |-> LmName] = {"lm"} /\ [lm |-> LmName].lm = LmName
        OBVIOUS
      <4> QED  BY <3>1, <4>1, RememberKeeps DEF Settle, IntakeInv
    <3>3. MadeOK'
      <4>1. PICK out :
               /\ DOMAIN out = DOMAIN running.requests /\ out = [i \in DOMAIN out |-> out[i]]
               /\ \A i \in DOMAIN out : out[i] \in LmOut(running.requests[i])
               /\ made' = [requests |-> out, body |-> [i \in DOMAIN out |-> Build(out[i])]]
        BY <3>1
      <4>2. LmBatchOK(running.requests)
        BY <1>1, <2>1, Zenon DEF Sound
      <4>3. \A i \in DOMAIN out : RequestOK(out[i]) /\ out[i].seed >= 0
        BY <4>1, <4>2, LmOutOK DEF LmBatchOK
      <4>4. DOMAIN out = 1 .. Len(running.requests) /\ Len(running.requests) \in Nat
        BY <4>1, <4>2 DEF LmBatchOK
      <4>5. out \in Seq(Range(out))
        <5>1. \A i \in DOMAIN out : out[i] \in Range(out)
          BY DEF Range
        <5> QED  BY <4>1, <4>4, <5>1
      <4>6. made'.requests = out /\ made'.body = [i \in DOMAIN out |-> Build(out[i])]
        BY <4>1
      <4> QED  BY <4>3, <4>5, <4>6, Zenon DEF MadeOK
    <3> QED  BY <1>1, <1>2, <2>2, <3>1, <3>2, <3>3, SettleKeeps
  <2> QED  BY <2>3, <2>4
<1>6. CASE SynthWorker
  <2>1. running.to = "synth"
    BY <1>6 DEF SynthWorker
  <2>2. Frees(running.to) \subseteq SynthFrees
    BY <2>1 DEF Frees, SynthFrees
  <2>3. CASE GivesUp(SynthFrees)
    BY <1>3, <2>2, <2>3
  <2>4. CASE ~GivesUp(SynthFrees)
    <3>1. SynthFinds /\ Remember(SynthNames) /\ Settle(SynthFrees) /\ UNCHANGED made
      BY <1>6, <2>4, Zenon DEF SynthWorker
    <3>2. LoadedOK'
      <4>1. DOMAIN SynthNames = {"dit", "vae", "adapter"}
        BY DEF SynthNames
      <4>2. UNCHANGED registry /\ LoadedOK /\ Find(registry.vae, SynthNames.vae)
        BY <3>1 DEF Settle, SynthFinds, IntakeInv
      <4> QED  BY <3>1, <4>1, <4>2, RememberKeeps
    <3> QED  BY <1>4, <2>2, <3>1, <3>2
  <2> QED  BY <2>3, <2>4
<1>7. CASE UnderstandWorker
  <2>1. running.to \in {"understand", "caption"}
    BY <1>7 DEF UnderstandWorker
  <2>2. Frees(running.to) \subseteq {"audio"}
    BY <2>1 DEF Frees
  <2>3. CASE GivesUp({"audio"})
    BY <1>3, <2>2, <2>3
  <2>4. CASE ~GivesUp({"audio"})
    <3>1. UnderstandFinds /\ Remember(UnderstandNames) /\ Settle({"audio"}) /\ UNCHANGED made
      BY <1>7, <2>4, Zenon DEF UnderstandWorker
    <3>2. LoadedOK'
      <4>1. UNCHANGED registry /\ LoadedOK
        BY <3>1 DEF Settle, IntakeInv
      <4>2. /\ Find(registry.lm, UnderstandNames.lm) /\ Find(registry.dit, UnderstandNames.undDit)
            /\ Find(registry.vae, UnderstandNames.vae)
        BY <3>1 DEF UnderstandFinds
      <4> QED  BY <3>1, <4>1, <4>2, RememberKeeps
    <3> QED  BY <1>4, <2>2, <3>1, <3>2
  <2> QED  BY <2>3, <2>4
<1>8. CASE DecodeWorker \/ EncodeWorker
  <2>1. \E freed : Frees(running.to) \subseteq freed /\
           \/ GivesUp(freed)
           \/ /\ Find(registry.vae, VaeName) /\ Remember([vae |-> VaeName])
              /\ Settle(freed) /\ UNCHANGED made
    <3>1. CASE DecodeWorker
      <4>1. Frees(running.to) \subseteq {}
        BY <3>1 DEF DecodeWorker, Frees
      <4> QED  BY <3>1, <4>1, Zenon DEF DecodeWorker
    <3>2. CASE EncodeWorker
      <4>1. Frees(running.to) \subseteq {"audio"}
        BY <3>2 DEF EncodeWorker, Frees
      <4> QED  BY <3>2, <4>1, Zenon DEF EncodeWorker
    <3> QED  BY <1>8, <3>1, <3>2
  <2>2. PICK freed : Frees(running.to) \subseteq freed /\
           \/ GivesUp(freed)
           \/ /\ Find(registry.vae, VaeName) /\ Remember([vae |-> VaeName])
              /\ Settle(freed) /\ UNCHANGED made
    BY <2>1
  <2>3. CASE GivesUp(freed)
    BY <1>3, <2>2, <2>3
  <2>4. CASE ~GivesUp(freed)
    <3>1. LoadedOK'
      <4>1. DOMAIN [vae |-> VaeName] = {"vae"} /\ [vae |-> VaeName].vae = VaeName
        OBVIOUS
      <4> QED  BY <2>2, <2>4, <4>1, RememberKeeps DEF Settle, IntakeInv
    <3> QED  BY <1>4, <2>2, <2>4, <3>1
  <2> QED  BY <2>3, <2>4
<1> QED  BY <1>5, <1>6, <1>7, <1>8 DEF Work

(***************************************************************************)
(* The server.                                                             *)
(***************************************************************************)

\* What is posted is one of the clients' texts, or an answer of the LM sent
\* back, which reads as the requests that were answered.
LEMMA PostsOK ==
  ASSUME MadeOK, NEW p \in Inputs.posts \cup SentBack
  PROVE  PostOK(p)
<1>1. CASE p \in Inputs.posts
  <2>1. Inputs \in {Tried, TriedLogged}
    BY DEF Inputs
  <2>2. Sendable(p)
    BY <1>1, <2>1, TriedAssumption, Zenon
  <2>3. \A i \in DOMAIN p.text.objects : ObjectOK(p.text.objects[i])
    BY <2>2, Zenon DEF Sendable, ObjectOK
  <2> QED  BY <2>2, <2>3, Zenon DEF Sendable, PostOK
<1>2. CASE p \in SentBack
  <2>1. made.body # <<>>
    BY <1>2 DEF SentBack
  <2>2. /\ \A i \in DOMAIN made.requests :
              /\ RequestOK(made.requests[i]) /\ made.requests[i].seed >= 0
              /\ Parse(made.body[i]) = Instrumental(made.requests[i])
              /\ Instrumental(made.requests[i]).seed >= 0
        /\ DOMAIN made.body = DOMAIN made.requests
    BY BuildParse, InstrumentalOK DEF MadeOK
  <2>3. \A i \in DOMAIN made.body : ObjectOK(made.body[i])
    BY <2>2, BuildOK DEF MadeOK
  <2>4. made.requests \in Seq(Range(made.requests)) /\ Len(made.requests) \in Nat
    BY DEF MadeOK
  <2>5. DOMAIN made.requests = 1 .. Len(made.requests)
    BY <2>4
  <2>6. 1 \in DOMAIN made.requests
    <3>1. CASE Len(made.requests) = 0
      <4>1. made.body = [i \in {} |-> Build(made.requests[i])]
        BY <2>5, <3>1 DEF MadeOK
      <4>2. [i \in {} |-> Build(made.requests[i])] = <<>>
        OBVIOUS
      <4> QED  BY <2>1, <4>1, <4>2
    <3>2. CASE Len(made.requests) # 0
      BY <2>4, <2>5, <3>2
    <3> QED  BY <3>1, <3>2
  <2>7. NoParts \in [Parts -> Nat \cup {Absent}]
    BY DEF NoParts
  <2>8. CASE p = [to |-> "synth", multipart |-> FALSE, parts |-> NoParts,
                  text |-> ArrayText(made.body), from |-> made.requests]
    <3>1. /\ p.parts = NoParts /\ p.to = "synth" /\ p.from = made.requests
          /\ p.text.form = "array" /\ p.text.objects = made.body
      BY <2>8 DEF ArrayText
    <3>2. made.body \in Seq(Range(made.body))
      <4>1. made.body = [i \in 1 .. Len(made.requests) |-> Build(made.requests[i])]
        BY <2>5 DEF MadeOK
      <4> DEFINE n == Len(made.requests)
      <4>2. \A i \in 1 .. n : made.body[i] \in Range(made.body)
        BY <4>1 DEF Range
      <4>3. n \in Nat /\ DOMAIN made.body = 1 .. n
        BY <2>4, <4>1
      <4>4. made.body = [i \in 1 .. n |-> made.body[i]]
        BY <4>1
      <4> DEFINE f == made.body
                 S == Range(made.body)
      <4>5. f = [i \in 1 .. n |-> f[i]] /\ \A i \in 1 .. n : f[i] \in S
        BY <4>2, <4>4
      <4> HIDE DEF n, f, S
      <4>6. f \in [1 .. n -> S]
        BY ONLY <4>5
      <4>7. f \in Seq(S)
        BY ONLY <4>3, <4>6
      <4> QED  BY <4>7 DEF f, S
    <3>3. ParseArray(p.text) = [i \in DOMAIN p.from |-> Instrumental(p.from[i])]
      BY <2>2, <3>1 DEF ParseArray
    <3>4. \A i \in DOMAIN ParseArray(p.text) : ParseArray(p.text)[i].seed >= 0
      BY <2>2, <3>1, <3>3
    <3>5. "array" # "object"
      OBVIOUS
    <3> QED  BY <2>3, <2>7, <3>1, <3>2, <3>3, <3>4, <3>5, Zenon DEF PostOK
  <2>9. CASE p = [to |-> "synth", multipart |-> FALSE, parts |-> NoParts,
                  text |-> ObjectText(made.body[1]), from |-> <<made.requests[1]>>]
    <3>1. /\ p.parts = NoParts /\ p.to = "synth" /\ p.from = <<made.requests[1]>>
          /\ p.text.objects = <<made.body[1]>>
      BY <2>9 DEF ObjectText
    <3>2. /\ DOMAIN <<made.body[1]>> = {1} /\ <<made.body[1]>>[1] = made.body[1]
          /\ <<made.body[1]>> \in Seq(Range(<<made.body[1]>>)) /\ Len(<<made.body[1]>>) = 1
          /\ DOMAIN <<made.requests[1]>> = {1} /\ <<made.requests[1]>>[1] = made.requests[1]
      BY DEF Range
    <3>3. ParseArray(p.text) = [i \in {1} |-> Parse(made.body[1])]
      BY <3>1, <3>2 DEF ParseArray
    <3>4. Parse(made.body[1]) = Instrumental(made.requests[1])
          /\ Instrumental(made.requests[1]).seed >= 0
      BY <2>2, <2>6
    <3>5. ParseArray(p.text) = [i \in DOMAIN p.from |-> Instrumental(p.from[i])]
      BY <3>1, <3>2, <3>3, <3>4
    <3>6. \A i \in DOMAIN ParseArray(p.text) : ParseArray(p.text)[i].seed >= 0
      BY <3>3, <3>4
    <3>7. \A i \in DOMAIN p.text.objects : ObjectOK(p.text.objects[i])
      BY <2>2, <2>3, <2>6, <3>1, <3>2
    <3> QED  BY <2>7, <3>1, <3>2, <3>5, <3>6, <3>7, Zenon DEF PostOK
  <2> QED  BY <1>2, <2>8, <2>9 DEF SentBack
<1> QED  BY <1>1, <1>2

LEMMA IntakeFrame == ASSUME IntakeInv, UNCHANGED intakeVars PROVE IntakeInv'
  BY MainKeeps DEF intakeVars

LEMMA NextKeeps == ASSUME IntakeInv, Next PROVE IntakeInv'
<1>1. CASE StartUp
  <2>1. PICK m \in Inputs.models, a \in Inputs.adapters : Start(m, a)
    BY <1>1, Zenon DEF StartUp
  <2>2. Inputs \in {Tried, TriedLogged}
    BY DEF Inputs
  <2>3. IsFiniteSet(DOMAIN m)
    BY <2>2, TriedAssumption
  <2> QED  BY <2>1, <2>3, StartKeeps
<1>2. CASE Post
  <2>1. PICK p \in Inputs.posts \cup SentBack : Handle(p)
    BY <1>2, Zenon DEF Post
  <2>2. PostOK(p)
    BY PostsOK, Zenon DEF IntakeInv
  <2> QED  BY <2>1, <2>2, HandleKeeps
<1>3. CASE WorkerTake
  BY <1>3, TakeKeeps, Zenon DEF WorkerTake, Quietly
<1>4. CASE WorkerRun
  BY <1>4, WorkKeeps, Zenon DEF WorkerRun
<1>5. CASE WorkerExit
  BY <1>5, MainKeeps DEF WorkerExit, Abort
<1>6. CASE Stop \/ ListenReturns
  BY <1>6, MainKeeps DEF Stop, ListenReturns, Quietly, Signal, StopWorker
<1>7. CASE ShutDown
  BY <1>7, MainKeeps DEF ShutDown, Done
<1>8. CASE StopCapture \/ ReadLog \/ \E c \in Clients : Follow(c) \/ (main = "serving" /\ Aside(Connect(c)))
  <2>1. UNCHANGED intakeVars
    BY <1>8, Zenon DEF StopCapture, ReadLog, Follow, Aside
  <2> QED  BY <2>1, IntakeFrame
<1> QED  BY <1>1, <1>2, <1>3, <1>4, <1>5, <1>6, <1>7, <1>8, Zenon DEF Next

LEMMA AcceptedInv == ASSUME IntakeInv PROVE AcceptedFits
<1> SUFFICES ASSUME NEW j \in Pending
             PROVE  /\ j.requests # <<>>
                    /\ FitsIfThere(j.parts.src) /\ FitsIfThere(j.parts.ref)
                    /\ j.to = "lm" =>
                          /\ Len(j.requests) <= MaxBatch
                          /\ Cardinality({<<r.lm_mode, r.lm_model>> : r \in Range(j.requests)}) = 1
                          /\ SeedsResolved(j)
                          /\ (\A r \in Range(j.requests) : r.seed >= 0)
                          /\ j.single => SeedsApart(j)
                    /\ j.to \in {"understand", "caption"} =>
                          SeedsResolved(j) /\ (j.parts.src > 0 \/ j.parts.audio > 0)
                    /\ j.to = "caption" =>
                          \A b \in {"lm", "dit", "vae"} :
                             LET asked == CASE b = "lm" -> j.requests[1].lm_model
                                            [] b = "dit" -> j.requests[1].synth_model
                                            [] b = "vae" -> j.requests[1].vae
                                 was == loaded[IF b = "dit" THEN "undDit" ELSE b]
                                 name == ResolveName(registry[b], asked, was)
                             IN  Find(registry[b], name) /\ (asked = "" => registry[b] = <<name>>)
                    /\ j.to = "encode" =>
                          j.parts.audio \div SamplesPerFrame <= EncodeRoom(j.parts.audio)
    BY Zenon DEF AcceptedFits
<1>1. Sound(j) /\ CaptionKnown(j)
  BY Zenon DEF IntakeInv, JobsOK
<1>2. ASSUME j.to = "lm"
      PROVE  /\ Len(j.requests) <= MaxBatch
             /\ Cardinality({<<r.lm_mode, r.lm_model>> : r \in Range(j.requests)}) = 1
             /\ SeedsResolved(j)
             /\ \A r \in Range(j.requests) : r.seed >= 0
             /\ j.single => SeedsApart(j)
  <2> DEFINE s == j.requests
  <2>1. LmBatchOK(s)
    BY <1>1, <1>2, Zenon DEF Sound
  <2>2. /\ Len(s) \in 1 .. MaxBatch /\ s \in Seq(Range(s)) /\ 1 \in DOMAIN s
        /\ \A i \in DOMAIN s : /\ s[i].seed >= 0 /\ s[i].lm_seed >= 0
                               /\ s[i].lm_mode = s[1].lm_mode /\ s[i].lm_model = s[1].lm_model
    <3>1. Len(s) \in 1 .. MaxBatch /\ s \in Seq(Range(s))
      BY <2>1, Zenon DEF LmBatchOK
    <3>2. Len(s) >= 1
      BY <3>1, IntakeAssumption
    <3>3. 1 \in DOMAIN s
      BY <3>1, <3>2, NotEmpty
    <3> QED  BY <2>1, <3>1, <3>3, Zenon DEF LmBatchOK
  <2>3. SeedsResolved(j)
    BY <2>2, Zenon DEF SeedsResolved
  <2>8. j.single => SeedsApart(j)
    BY <1>1, <1>2, Zenon DEF Sound, Apart, SeedsApart
  <2> HIDE DEF s
  <2>4. \A r \in Range(s) : r.seed >= 0
    BY <2>2, Zenon DEF Range
  <2>5. {<<r.lm_mode, r.lm_model>> : r \in Range(s)} = {<<s[1].lm_mode, s[1].lm_model>>}
    BY <2>2 DEF Range
  <2>6. Cardinality({<<r.lm_mode, r.lm_model>> : r \in Range(s)}) = 1
    BY <2>5, FS_Singleton, Zenon
  <2>7. Len(s) <= MaxBatch
    BY <2>2, IntakeAssumption
  <2> QED  BY <2>3, <2>4, <2>6, <2>7, <2>8 DEF s
<1>3. ASSUME j.to = "caption", NEW b \in {"lm", "dit", "vae"}
      PROVE  LET asked == CASE b = "lm" -> j.requests[1].lm_model
                            [] b = "dit" -> j.requests[1].synth_model
                            [] b = "vae" -> j.requests[1].vae
                 was == loaded[IF b = "dit" THEN "undDit" ELSE b]
                 name == ResolveName(registry[b], asked, was)
             IN  Find(registry[b], name) /\ (asked = "" => registry[b] = <<name>>)
  <2> DEFINE asked == CASE b = "lm" -> j.requests[1].lm_model
                        [] b = "dit" -> j.requests[1].synth_model
                        [] b = "vae" -> j.requests[1].vae
             was == loaded[IF b = "dit" THEN "undDit" ELSE b]
  <2>1. Exact(registry[b], asked)
    BY <1>1, <1>3 DEF CaptionKnown
  <2>2. was = "" \/ was \in Range(registry[b])
    BY DEF IntakeInv, LoadedOK
  <2>3. registry[b] \in Seq(Range(registry[b]))
    BY Zenon DEF IntakeInv, RegistryOK
  <2> HIDE DEF asked, was
  <2>4. /\ Find(registry[b], ResolveName(registry[b], asked, was))
        /\ asked = "" => registry[b] = <<ResolveName(registry[b], asked, was)>>
    BY <2>1, <2>2, <2>3, CaptionNamed
  <2> QED  BY <2>4, Zenon DEF asked, was
<1>4. ASSUME j.to = "encode"
      PROVE  j.parts.audio \div SamplesPerFrame <= EncodeRoom(j.parts.audio)
  <2> DEFINE n == j.parts.audio
             d == n \div SamplesPerFrame
  <2>1. n \in Nat \cup {Absent} /\ EncodeTakes(n)
    BY <1>1, <1>4 DEF Sound, Parts
  <2>2. n \in Nat /\ n > 0
    BY <2>1 DEF EncodeTakes, Decodes, Absent
  <2>3. SamplesPerFrame \in Nat \ {0} /\ Slack \in Nat /\ MaxT \in Nat
    BY IntakeAssumption
  <2>4. d \in Int /\ d < MaxT
    BY <2>1, <2>2, <2>3 DEF EncodeTakes
  <2>5. EncodeRoom(n) = IF d + Slack > MaxT THEN MaxT ELSE d + Slack
    BY DEF EncodeRoom
  <2> HIDE DEF d
  <2>6. d <= EncodeRoom(n)
    BY <2>3, <2>4, <2>5
  <2> QED  BY <2>6 DEF d
<1> QED  BY <1>1, <1>2, <1>3, <1>4, Zenon DEF Sound

LEMMA CarriedInv == ASSUME IntakeInv PROVE RequestCarried
<1> SUFFICES ASSUME NEW j \in Pending, j.from # <<>>
             PROVE  /\ j.requests = [i \in DOMAIN j.from |-> Instrumental(j.from[i])]
                    /\ \A i \in DOMAIN j.requests : j.requests[i].seed >= 0
    BY Zenon DEF RequestCarried
<1> QED  BY Zenon DEF IntakeInv, JobsOK, Sound

\* For any models, clients and requests, any limits and batch size: the audio
\* decoded for a job is on the heap as long as the job waits or runs, and when
\* it is over all that is on the heap is the audio of other such jobs and what
\* refused /synth posts have leaked; what a worker takes is what its pipeline
\* counts on; and a request the LM answered is the request that is synthesized
\* when it comes back (ace-server.cpp:608-1710, request.cpp:74-475).
THEOREM IntakeSafety == Spec => [](BuffersOwned /\ AcceptedFits /\ RequestCarried)
<1>1. Init => IntakeInv
  BY IntakeInitEstablishes DEF Init
<1>2. IntakeInv /\ [Next]_vars => IntakeInv'
  <2> SUFFICES ASSUME IntakeInv, [Next]_vars PROVE IntakeInv'
      OBVIOUS
  <2>1. CASE Next
    BY <2>1, NextKeeps
  <2>2. CASE UNCHANGED vars
    BY <2>2, IntakeFrame DEF vars
  <2> QED  BY <2>1, <2>2
<1>3. IntakeInv => BuffersOwned /\ AcceptedFits /\ RequestCarried
  BY AcceptedInv, CarriedInv DEF IntakeInv
<1> QED  BY <1>1, <1>2, <1>3, PTL DEF Spec

=============================================================================
