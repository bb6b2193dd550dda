--------------------------- MODULE TurnServiceProofs --------------------------
(***************************************************************************)
(* Invariants of TurnService, proved for every number of requests,         *)
(* sessions, problems and ladders, with or without the version flushed     *)
(* after a commit (Citations), restarts and lapsing TTLs.  First types,    *)
(* action by action: what a request has in memory at each place of its     *)
(* handler.  Then exclusive row locks, one active session per problem, and *)
(* a purge that spares what became active.                                 *)
(***************************************************************************)
EXTENDS TurnService, CoachFsmProofs, WellFoundedInduction

-------------------------------------------------------------------------------
(***************************************************************************)
(* Rows and calls.                                                         *)
(***************************************************************************)
AnswerCall == [op : {"turn", "byok"}, sid : Sid, step : Step, turn : Turn \cup {NoTurn}]

\* What the fields of a call are is known from what it asks for.
LEMMA CallFields ==
  ASSUME NEW c \in Call
  PROVE  /\ c.op \in {"turn", "byok"} => c \in AnswerCall
         /\ c.op \in {"model", "reset"} => c.sid \in Sid
         /\ c.op = "model" => c.byok \in BOOLEAN
         /\ c.op = "create" => c.problem \in Problem /\ c.track \in Track /\ c.byok \in BOOLEAN
  BY DEF Call, AnswerCall

LEMMA OfferedCalls ==
  ASSUME NEW r \in Req, NEW c \in Offered[r]
  PROVE  c \in Call
  BY ServiceAssumption

LEMMA FreshRowType ==
  ASSUME NEW problem \in Problem, NEW track \in Track, NEW byok \in BOOLEAN
  PROVE  /\ FreshRow(problem, track, byok) \in Row
         /\ FreshRow(problem, track, byok).problem = problem
         /\ FreshRow(problem, track, byok).status = "active"
  BY FirstStepIsFirst DEF FreshRow, Row, SessionStatus, MAX_HINT_LEVEL

\* The columns of a row make a state, and a state's columns leave a row.
LEMMA StateOfType ==
  ASSUME NEW row \in Row
  PROVE  StateOf(row) \in SessionState
  BY DEF StateOf, Row, SessionState, NoScores

LEMMA WithProgressType ==
  ASSUME NEW row \in Row, NEW state \in SessionState, NEW version \in Nat
  PROVE  /\ WithProgress(row, state, version) \in Row
         /\ WithProgress(row, state, version).problem = row.problem
         /\ WithProgress(row, state, version).status = state.status
  BY DEF WithProgress, Row, SessionState

LEMMA OtherColumns ==
  ASSUME NEW row \in Row, NEW byok \in BOOLEAN, NEW version \in Nat
  PROVE  /\ Switched(row, byok) \in Row
         /\ Switched(row, byok).problem = row.problem /\ Switched(row, byok).status = row.status
         /\ [row EXCEPT !.version = version] \in Row
         /\ [row EXCEPT !.version = version].problem = row.problem
         /\ [row EXCEPT !.version = version].status = row.status
  <1>1. /\ Switched(row, byok) \in Row
        /\ Switched(row, byok).problem = row.problem /\ Switched(row, byok).status = row.status
    <2> DEFINE moved == [row EXCEPT !.byok = byok]
    <2>1. row.version + 1 \in Nat
      BY DEF Row
    <2>2. moved \in Row /\ moved.problem = row.problem /\ moved.status = row.status
      BY Zenon DEF Row
    <2>3. Switched(row, byok) = [moved EXCEPT !.version = row.version + 1]
      BY DEF Switched
    <2> HIDE DEF moved
    <2> QED
      BY <2>1, <2>2, <2>3 DEF Row
  <1>2. /\ [row EXCEPT !.version = version] \in Row
        /\ [row EXCEPT !.version = version].problem = row.problem
        /\ [row EXCEPT !.version = version].status = row.status
    BY DEF Row
  <1> QED
    BY <1>1, <1>2

LEMMA RowFields ==
  ASSUME NEW row \in Row
  PROVE  /\ row.problem \in Problem /\ row.track \in Track /\ row.step \in Step
         /\ row.status \in SessionStatus /\ row.byok \in BOOLEAN /\ row.version \in Nat
         /\ row # NoRow
  BY ServiceAssumption DEF Row

\* A set of places in a transcript has a last one.
LEMMA LastPlace ==
  ASSUME NEW n \in Nat, NEW T \in SUBSET (1 .. n), T # {}
  PROVE  \E i \in T : \A j \in T : j <= i
  <1> DEFINE D == {n - i : i \in T}
  <1>1. \A i \in T : i \in Nat /\ n - i \in Nat
    OBVIOUS
  <1>2. D \subseteq Nat /\ D # {}
    BY <1>1
  <1>3. PICK d \in D : \A e \in D : ~ (<<e, d>> \in OpToRel(<, Nat))
    BY <1>2, NatLessThanWellFounded, WFMin, Zenon
  <1>4. \A e \in D : ~ (e < d)
    BY <1>2, <1>3 DEF OpToRel
  <1>5. PICK i \in T : d = n - i
    BY <1>3
  <1>6. \A j \in T : n - j \in D
    OBVIOUS
  <1> HIDE DEF D
  <1>7. ASSUME NEW j \in T PROVE j <= i
    <2>1. ~ (n - j < n - i)
      BY <1>4, <1>5, <1>6
    <2> QED
      BY <2>1, <1>1
  <1> QED
    BY <1>7

-------------------------------------------------------------------------------
(***************************************************************************)
(* Type correctness.  Where a request stands in its handler determines     *)
(* what it has been asked, and which instance it has in memory: that is    *)
(* what makes the types inductive.                                         *)
(***************************************************************************)
Answering == {"scan", "lazy", "begin", "gate", "flush", "stream", "write", "fk", "record"}

Placed == {"lock", "begin", "gate", "flush", "stream", "write", "fk", "record", "echo"}

ReqInv(r) ==
  /\ pc[r] # "idle" => call[r] \in Call
  /\ pc[r] \in Answering => call[r] \in AnswerCall /\ mem[r] \in Row
  /\ pc[r] \in Placed => at[r] \in Sid
  /\ pc[r] = "insert" => mem[r] \in Row
  /\ pc[r] = "lock" /\ call[r].op = "turn" => mem[r] \in Row
  /\ pc[r] = "sweep" /\ call[r].op = "reset" => mem[r] \in Row

TypeInv == TypeOK /\ \A r \in Req : ReqInv(r)

\* The types of what is committed, and of what belongs to the requests.
DbTypes ==
  /\ session \in [Sid -> Row \cup {NoRow}]
  /\ message \in [Sid -> Seq(Message)]
  /\ gate \in [Sid -> [Step -> GateRow \cup {NoGate}]]
  /\ gateCall \in [Sid -> SUBSET GateCall]
  /\ lapsed \subseteq Sid
  /\ minted \in 0 .. MaxSid

RequestTypes ==
  /\ pc \in [Req -> Labels]
  /\ call \in [Req -> Call \cup {NoCall}]
  /\ resp \in [Req -> [status : Statuses, reply : Turn \cup {NoTurn}]]
  /\ at \in [Req -> Sid \cup {0}]
  /\ mem \in [Req -> Row \cup {NoRow}]
  /\ hold \in [Req -> SUBSET Sid]
  /\ del \in [Req -> SUBSET Sid]
  /\ seq \in [Req -> Nat]

\* What the invariant reads of a request is as it was.
Same(r) ==
  pc'[r] = pc[r] /\ call'[r] = call[r] /\ at'[r] = at[r] /\ mem'[r] = mem[r]

LEMMA TypesTogether ==
  ASSUME NEW r \in Req, \A q \in Req : ReqInv(q), \A q \in Req \ {r} : Same(q),
         DbTypes', RequestTypes', ReqInv(r)'
  PROVE  TypeInv'
  <1>1. TypeOK'
    BY DEF TypeOK, DbTypes, RequestTypes
  <1>2. ASSUME NEW q \in Req \ {r} PROVE ReqInv(q)'
    <2>1. ReqInv(q) /\ Same(q)
      OBVIOUS
    <2> QED
      BY <2>1 DEF ReqInv, Same
  <1> QED
    BY <1>1, <1>2 DEF TypeInv

LEMMA DbSame ==
  ASSUME TypeInv, UNCHANGED db
  PROVE  DbTypes'
  BY DEF TypeInv, TypeOK, DbTypes, db

\* A request that ends.
LEMMA FinishTypes ==
  ASSUME TypeInv, NEW r \in Req, NEW status \in Statuses, NEW reply \in Turn \cup {NoTurn},
         Finish(r, status, reply), UNCHANGED call, call[r] \in Call
  PROVE  /\ RequestTypes'
         /\ \A q \in Req \ {r} : Same(q)
         /\ ReqInv(r)'
  <1>1. /\ pc' = [pc EXCEPT ![r] = "done"] /\ call' = call
        /\ resp' = [resp EXCEPT ![r] = [status |-> status, reply |-> reply]]
        /\ at' = [at EXCEPT ![r] = 0] /\ mem' = [mem EXCEPT ![r] = NoRow]
        /\ hold' = [hold EXCEPT ![r] = {}] /\ del' = [del EXCEPT ![r] = {}]
        /\ seq' = [seq EXCEPT ![r] = 0]
    BY DEF Finish, Respond, Release, Goto
  <1>2. RequestTypes
    BY DEF TypeInv, TypeOK, RequestTypes
  <1>3. pc' \in [Req -> Labels] /\ pc'[r] = "done"
    BY <1>1, <1>2 DEF RequestTypes, Labels
  <1>4. RequestTypes'
    BY <1>1, <1>2, <1>3 DEF RequestTypes
  <1>5. ASSUME NEW q \in Req \ {r} PROVE Same(q)
    BY <1>1, <1>2 DEF RequestTypes, Same
  <1> QED
    BY <1>1, <1>2, <1>3, <1>4, <1>5 DEF ReqInv, Answering, Placed, TypeInv

\* A request that is turned away as it arrives.
LEMMA RefuseTypes ==
  ASSUME TypeInv, NEW r \in Req, NEW c \in Call, NEW status \in Statuses,
         Arrive(r, c), Refuse(r, status)
  PROVE  TypeInv'
  <1>1. /\ pc' = [pc EXCEPT ![r] = "done"] /\ call' = [call EXCEPT ![r] = c]
        /\ resp' = [resp EXCEPT ![r] = [status |-> status, reply |-> NoTurn]]
        /\ UNCHANGED <<at, mem, hold, del, seq>>
    BY DEF Arrive, Refuse, Respond, Goto, txn
  <1>2. RequestTypes /\ "done" \in Labels
    BY DEF TypeInv, TypeOK, RequestTypes, Labels
  <1>3. RequestTypes'
    BY <1>1, <1>2 DEF RequestTypes
  <1>4. \A q \in Req \ {r} : Same(q)
    BY <1>1, <1>2 DEF RequestTypes, Same
  <1>5. ReqInv(r)'
    BY <1>1, <1>2 DEF RequestTypes, ReqInv, Answering, Placed
  <1>6. DbTypes'
    BY DbSame DEF Refuse
  <1> QED
    BY <1>3, <1>4, <1>5, <1>6, TypesTogether DEF TypeInv

\* A request that fails.
LEMMA FailTypes ==
  ASSUME TypeInv, NEW r \in Req, NEW status \in Statuses, Fail(r, status), call[r] \in Call
  PROVE  TypeInv'
  BY FinishTypes, DbSame, TypesTogether DEF Fail, TypeInv

LEMMA CreateTypes ==
  ASSUME TypeInv, NEW r \in Req, Create(r)
  PROVE  TypeInv'
  <1>1. PICK c \in Offered[r] : 
          /\ c.op = "create" /\ Arrive(r, c) /\ c \in Call
          /\ \/ Refuse(r, "200") \/ Refuse(r, "429")
             \/ /\ mem' = [mem EXCEPT ![r] = FreshRow(c.problem, c.track, c.byok)]
                /\ Goto(r, "insert")
                /\ UNCHANGED <<db, resp, at, hold, del, seq>>
    BY OfferedCalls DEF Create
  <1>2. FreshRow(c.problem, c.track, c.byok) \in Row
    BY <1>1, CallFields, FreshRowType
  <1>3. CASE Refuse(r, "200") \/ Refuse(r, "429")
    BY <1>1, <1>3, RefuseTypes DEF Statuses
  <1>4. CASE /\ mem' = [mem EXCEPT ![r] = FreshRow(c.problem, c.track, c.byok)]
             /\ Goto(r, "insert")
             /\ UNCHANGED <<db, resp, at, hold, del, seq>>
    <2>1. RequestTypes
      BY DEF TypeInv, TypeOK, RequestTypes
    <2>2. RequestTypes' /\ pc'[r] = "insert" /\ call'[r] = c /\ mem'[r] \in Row
      BY <1>1, <1>2, <1>4, <2>1 DEF RequestTypes, Arrive, Goto, Labels
    <2>3. \A q \in Req \ {r} : Same(q)
      BY <1>1, <1>4, <2>1 DEF RequestTypes, Same, Arrive, Goto
    <2>4. ReqInv(r)'
      BY <1>1, <2>2 DEF ReqInv, Answering, Placed
    <2> QED
      BY <1>4, <2>2, <2>3, <2>4, DbSame, TypesTogether DEF TypeInv
  <1> QED
    BY <1>1, <1>3, <1>4

\* The id of a new session.
LEMMA FreshSid ==
  ASSUME TypeInv, minted < MaxSid
  PROVE  minted + 1 \in Sid /\ minted + 1 \in 0 .. MaxSid
  BY ServiceAssumption DEF TypeInv, TypeOK, Sid

LEMMA CreateInsertTypes ==
  ASSUME TypeInv, NEW r \in Req, CreateInsert(r)
  PROVE  TypeInv'
  <1>1. mem[r] \in Row /\ call[r] \in Call
    BY DEF CreateInsert, TypeInv, ReqInv
  <1>2. CASE Fail(r, "500")
    BY <1>1, <1>2, FailTypes DEF Statuses
  <1>3. CASE ~ Fail(r, "500")
    <2>1. /\ minted < MaxSid /\ minted' = minted + 1
          /\ session' = [session EXCEPT ![minted + 1] = mem[r]]
          /\ Finish(r, "200", NoTurn)
          /\ UNCHANGED <<message, gate, gateCall, lapsed, call>>
      BY <1>3 DEF CreateInsert
    <2>2. DbTypes'
      BY <1>1, <2>1, FreshSid DEF DbTypes, TypeInv, TypeOK
    <2> QED
      BY <1>1, <2>1, <2>2, FinishTypes, TypesTogether DEF Statuses, TypeInv
  <1> QED
    BY <1>2, <1>3

LEMMA TurnReadTypes ==
  ASSUME TypeInv, NEW r \in Req, TurnRead(r)
  PROVE  TypeInv'
  <1>1. PICK c \in Offered[r] :
          /\ c.op = "turn" /\ Arrive(r, c) /\ c \in Call
          /\ \/ \E status \in {"404", "403", "429"} : Refuse(r, status)
             \/ /\ session[c.sid] # NoRow
                /\ at' = [at EXCEPT ![r] = c.sid]
                /\ mem' = [mem EXCEPT ![r] = session[c.sid]]
                /\ Goto(r, "scan")
                /\ UNCHANGED <<db, resp, hold, del, seq>>
    BY OfferedCalls DEF TurnRead
  <1>2. c \in AnswerCall /\ c.sid \in Sid
    BY <1>1, CallFields DEF AnswerCall
  <1>3. CASE \E status \in {"404", "403", "429"} : Refuse(r, status)
    BY <1>1, <1>3, RefuseTypes DEF Statuses
  <1>4. CASE /\ session[c.sid] # NoRow
             /\ at' = [at EXCEPT ![r] = c.sid]
             /\ mem' = [mem EXCEPT ![r] = session[c.sid]]
             /\ Goto(r, "scan")
             /\ UNCHANGED <<db, resp, hold, del, seq>>
    <2>1. RequestTypes /\ session[c.sid] \in Row
      BY <1>2, <1>4 DEF TypeInv, TypeOK, RequestTypes
    <2>2. RequestTypes' /\ pc'[r] = "scan" /\ call'[r] = c /\ mem'[r] \in Row
      BY <1>1, <1>2, <1>4, <2>1 DEF RequestTypes, Arrive, Goto, Labels
    <2>3. \A q \in Req \ {r} : Same(q)
      BY <1>1, <1>4, <2>1 DEF RequestTypes, Same, Arrive, Goto
    <2>4. ReqInv(r)'
      BY <1>1, <1>2, <2>2 DEF ReqInv, Placed
    <2> QED
      BY <1>4, <2>2, <2>3, <2>4, DbSame, TypesTogether DEF TypeInv
  <1> QED
    BY <1>1, <1>3, <1>4

LEMMA TurnScanTypes ==
  ASSUME TypeInv, NEW r \in Req, TurnScan(r)
  PROVE  TypeInv'
  <1>1. /\ pc[r] = "scan" /\ UNCHANGED <<db, call, resp, mem, hold, del, seq>>
        /\ \/ Goto(r, "lazy") /\ UNCHANGED at
           \/ Goto(r, "lock") /\ \E s \in Sid : at' = [at EXCEPT ![r] = s]
    BY DEF TurnScan, ActiveSids
  <1>2. RequestTypes /\ mem[r] \in Row /\ call[r] \in AnswerCall /\ call[r] \in Call
    BY <1>1 DEF TypeInv, TypeOK, RequestTypes, ReqInv, Answering
  <1>3. RequestTypes'
    BY <1>1, <1>2 DEF RequestTypes, Goto, Labels
  <1>4. \A q \in Req \ {r} : Same(q)
    BY <1>1, <1>2 DEF RequestTypes, Same, Goto
  <1>5. /\ pc'[r] = "lazy" \/ (pc'[r] = "lock" /\ at'[r] \in Sid)
        /\ call'[r] = call[r] /\ mem'[r] = mem[r]
    BY <1>1, <1>2 DEF RequestTypes, Goto
  <1>6. ReqInv(r)'
    BY <1>2, <1>5 DEF ReqInv, Placed
  <1> QED
    BY <1>1, <1>3, <1>4, <1>6, DbSame, TypesTogether DEF TypeInv

LEMMA TurnLockTypes ==
  ASSUME TypeInv, NEW r \in Req, TurnLock(r)
  PROVE  TypeInv'
  <1>1. /\ pc[r] = "lock" /\ call[r].op = "turn" /\ UNCHANGED <<db, call, resp, at, del, seq>>
        /\ \/ /\ session[at[r]] # NoRow
              /\ hold' = [hold EXCEPT ![r] = {at[r]}]
              /\ mem' = mem \/ mem' = [mem EXCEPT ![r] = session[at[r]]]
              /\ Goto(r, "begin")
           \/ Goto(r, "lazy") /\ UNCHANGED <<hold, mem>>
    BY DEF TurnLock, ActiveSids
  <1>2. RequestTypes /\ mem[r] \in Row /\ call[r] \in AnswerCall /\ call[r] \in Call /\ at[r] \in Sid
    BY <1>1, CallFields DEF TypeInv, TypeOK, RequestTypes, ReqInv, Placed
  <1>3. session[at[r]] \in Row \cup {NoRow}
    BY <1>2 DEF TypeInv, TypeOK
  <1>4. RequestTypes'
    <2>1. mem' \in [Req -> Row \cup {NoRow}]
      BY <1>1, <1>2, <1>3 DEF RequestTypes
    <2>2. hold' \in [Req -> SUBSET Sid]
      BY <1>1, <1>2 DEF RequestTypes
    <2>3. pc' \in [Req -> Labels]
      BY <1>1, <1>2 DEF RequestTypes, Goto, Labels
    <2> QED
      BY <1>1, <1>2, <2>1, <2>2, <2>3 DEF RequestTypes
  <1>5. \A q \in Req \ {r} : Same(q)
    BY <1>1, <1>2 DEF RequestTypes, Same, Goto
  <1>6. pc'[r] \in {"begin", "lazy"} /\ call'[r] = call[r] /\ mem'[r] \in Row /\ at'[r] \in Sid
    BY <1>1, <1>2, <1>3 DEF RequestTypes, Goto
  <1>7. ReqInv(r)'
    BY <1>2, <1>6 DEF ReqInv
  <1> QED
    BY <1>1, <1>4, <1>5, <1>7, DbSame, TypesTogether DEF TypeInv

LEMMA LazyCreateTypes ==
  ASSUME TypeInv, NEW r \in Req, TurnLazyCreate(r)
  PROVE  TypeInv'
  <1>1. /\ pc[r] = "lazy" /\ mem[r] \in Row /\ call[r] \in AnswerCall /\ call[r] \in Call
    BY DEF TurnLazyCreate, TypeInv, ReqInv, Answering
  <1>2. CASE Fail(r, "500")
    BY <1>1, <1>2, FailTypes DEF Statuses
  <1>3. CASE ~ Fail(r, "500")
    <2> DEFINE row == FreshRow(mem[r].problem, TrackOf(call[r].step), FALSE)
    <2>1. /\ minted < MaxSid /\ minted' = minted + 1
          /\ at' = [at EXCEPT ![r] = minted + 1]
          /\ hold' = [hold EXCEPT ![r] = {minted + 1}]
          /\ mem' = [mem EXCEPT ![r] = row]
          /\ Goto(r, "begin")
          /\ UNCHANGED <<session, message, gate, gateCall, lapsed, call, resp, del, seq>>
      BY <1>3 DEF TurnLazyCreate
    <2>2. row \in Row
      BY <1>1, FreshRowType, TrackOfStep, RowFields DEF AnswerCall
    <2> HIDE DEF row
    <2>3. RequestTypes
      BY DEF TypeInv, TypeOK, RequestTypes
    <2>4. RequestTypes' /\ pc'[r] = "begin" /\ call'[r] = call[r] /\ mem'[r] \in Row /\ at'[r] \in Sid
      BY <2>1, <2>2, <2>3, FreshSid DEF RequestTypes, Goto, Labels
    <2>5. \A q \in Req \ {r} : Same(q)
      BY <2>1, <2>3 DEF RequestTypes, Same, Goto
    <2>6. ReqInv(r)'
      BY <1>1, <2>4 DEF ReqInv
    <2>7. DbTypes'
      BY <2>1, FreshSid DEF DbTypes, TypeInv, TypeOK
    <2> QED
      BY <2>4, <2>5, <2>6, <2>7, TypesTogether DEF TypeInv
  <1> QED
    BY <1>2, <1>3

\* What a replay answers is a turn that has been replied to, or none.
LEMMA LastReplyType ==
  ASSUME TypeInv, NEW s \in Sid, NEW step \in Step
  PROVE  LastCoachReply(s, step) \in Turn \cup {NoTurn}
  <1> DEFINE replies == {i \in DOMAIN message[s] : message[s][i].role = "coach" /\ message[s][i].step = step}
  <1>1. message[s] \in Seq(Message) /\ Len(message[s]) \in Nat /\ DOMAIN message[s] = 1 .. Len(message[s])
    BY DEF TypeInv, TypeOK
  <1>2. CASE replies = {}
    BY <1>2 DEF LastCoachReply
  <1>3. CASE replies # {}
    <2> DEFINE last == CHOOSE i \in replies : \A j \in replies : j <= i
    <2>1. \E i \in replies : \A j \in replies : j <= i
      BY <1>1, <1>3, LastPlace
    <2>2. last \in DOMAIN message[s]
      BY <2>1
    <2>3. LastCoachReply(s, step) = message[s][last].turn
      BY <1>3 DEF LastCoachReply
    <2> HIDE DEF last
    <2>4. message[s][last] \in Message
      BY <1>1, <2>2
    <2> QED
      BY <2>3, <2>4 DEF Message
  <1> QED
    BY <1>2, <1>3

LEMMA NextSeqType ==
  ASSUME TypeInv, NEW s \in Sid
  PROVE  NextSeq(s) \in Nat /\ NextSeq(s) > Len(message[s]) /\ Len(message[s]) \in Nat
  <1>1. message[s] \in Seq(Message)
    BY DEF TypeInv, TypeOK
  <1> QED
    BY <1>1 DEF NextSeq

LEMMA TurnBeginTypes ==
  ASSUME TypeInv, NEW r \in Req, TurnBegin(r)
  PROVE  TypeInv'
  <1>1. /\ pc[r] = "begin" /\ mem[r] \in Row /\ mem[r].step \in Step
        /\ call[r] \in AnswerCall /\ call[r] \in Call /\ at[r] \in Sid
    BY RowFields DEF TurnBegin, TypeInv, ReqInv, Answering, Placed
  <1>2. CASE \E status \in {"503", "409"} : Fail(r, status)
    BY <1>1, <1>2, FailTypes DEF Statuses
  <1>3. CASE Finish(r, "replay", LastCoachReply(at[r], mem[r].step)) /\ UNCHANGED <<db, call>>
    BY <1>1, <1>3, LastReplyType, FinishTypes, DbSame, TypesTogether DEF Statuses, TypeInv
  <1>4. CASE /\ seq' = [seq EXCEPT ![r] = NextSeq(at[r])]
             /\ Goto(r, "gate")
             /\ UNCHANGED <<db, call, resp, at, mem, hold, del>>
    <2>1. RequestTypes
      BY DEF TypeInv, TypeOK, RequestTypes
    <2>2. RequestTypes' /\ pc'[r] = "gate" /\ call'[r] = call[r] /\ mem'[r] = mem[r] /\ at'[r] = at[r]
      BY <1>1, <1>4, <2>1, NextSeqType DEF RequestTypes, Goto, Labels
    <2>3. \A q \in Req \ {r} : Same(q)
      BY <1>4, <2>1 DEF RequestTypes, Same, Goto
    <2>4. ReqInv(r)'
      BY <1>1, <2>2 DEF ReqInv
    <2> QED
      BY <1>4, <2>2, <2>3, <2>4, DbSame, TypesTogether DEF TypeInv
  <1> QED
    BY <1>2, <1>3, <1>4 DEF TurnBegin, Replay

\* What judging an answer writes is well typed.
LEMMA RecordTypes ==
  ASSUME TypeInv, NEW r \in Req, at[r] \in Sid, mem[r] \in Row, call[r] \in AnswerCall,
         NEW verdict \in Verdicts, NEW judge \in {"llm", "byok"}, NEW base \in Row,
         NEW replies \in Seq(Message),
         RecordJudgement(r, verdict, judge, base, replies)
  PROVE  /\ DbTypes'
         /\ Transition(StateOf(mem[r]), verdict) \in SessionState
         /\ WithProgress(base, Transition(StateOf(mem[r]), verdict), mem[r].version + 1) \in Row
  <1> DEFINE s     == at[r]
             state == Transition(StateOf(mem[r]), verdict)
             row   == WithProgress(base, state, mem[r].version + 1)
             old   == gate[s][mem[r].step]
             new   == [verdict |-> verdict.verdict, score |-> verdict.score,
                       attempts |-> state.attempts,
                       judge_kind |-> IF old = NoGate THEN judge ELSE old.judge_kind]
             audit == [turn |-> call[r].turn, step |-> mem[r].step, answer_seq |-> NextSeq(s),
                       verdict |-> verdict.verdict, provider |-> judge]
             texts == message[s] \o <<AnswerMessage(r)>> \o replies
  <1>1. /\ session' = [session EXCEPT ![s] = row]
        /\ message' = [message EXCEPT ![s] = texts]
        /\ gate' = [gate EXCEPT ![s][mem[r].step] = new]
        /\ gateCall' = [gateCall EXCEPT ![s] = gateCall[s] \cup {audit}]
        /\ lapsed' = lapsed \ {s}
        /\ minted' = minted
    BY DEF RecordJudgement
  <1>2. verdict \in GateVerdict /\ mem[r].version + 1 \in Nat /\ mem[r].step \in Step
    BY ServiceAssumption, RowFields
  <1>3. state \in SessionState
    BY <1>2, StateOfType, TransitionType
  <1>4. row \in Row
    BY <1>2, <1>3, WithProgressType
  <1>5. new \in GateRow
    <2>1. state.attempts \in Nat
      BY <1>3 DEF SessionState
    <2>2. verdict.verdict \in Verdict /\ verdict.score \in SCORE_VALUES
      BY <1>2 DEF GateVerdict
    <2>3. old \in GateRow \cup {NoGate}
      BY <1>2 DEF TypeInv, TypeOK
    <2> HIDE DEF state, old
    <2>4. (IF old = NoGate THEN judge ELSE old.judge_kind) \in {"llm", "byok"}
      BY <2>3 DEF GateRow
    <2> QED
      BY <2>1, <2>2, <2>4 DEF GateRow
  <1>6. audit \in GateCall
    <2>1. verdict.verdict \in Verdict
      BY <1>2 DEF GateVerdict
    <2>2. NextSeq(s) \in Nat
      BY NextSeqType
    <2> QED
      BY <1>2, <2>1, <2>2 DEF GateCall, AnswerCall
  <1>7. texts \in Seq(Message)
    <2>1. AnswerMessage(r) \in Message
      BY <1>2 DEF AnswerMessage, Message, AnswerCall
    <2>2. message[s] \in Seq(Message)
      BY DEF TypeInv, TypeOK
    <2> QED
      BY <2>1, <2>2
  <1> HIDE DEF s, state, row, old, new, audit, texts
  <1>8. s \in Sid
    BY DEF s
  <1>9. /\ session \in [Sid -> Row \cup {NoRow}] /\ message \in [Sid -> Seq(Message)]
        /\ gate \in [Sid -> [Step -> GateRow \cup {NoGate}]]
        /\ gateCall \in [Sid -> SUBSET GateCall]
        /\ lapsed \subseteq Sid /\ minted \in 0 .. MaxSid
    BY DEF TypeInv, TypeOK
  <1>10. session' \in [Sid -> Row \cup {NoRow}] /\ message' \in [Sid -> Seq(Message)]
    BY <1>1, <1>4, <1>7, <1>8, <1>9
  <1>11. gate' \in [Sid -> [Step -> GateRow \cup {NoGate}]]
    BY <1>1, <1>2, <1>5, <1>8, <1>9
  <1>12. gateCall' \in [Sid -> SUBSET GateCall]
    BY <1>1, <1>6, <1>8, <1>9
  <1>13. DbTypes'
    BY <1>1, <1>9, <1>10, <1>11, <1>12 DEF DbTypes
  <1> QED
    BY <1>3, <1>4, <1>13 DEF row, state

LEMMA TurnGateTypes ==
  ASSUME TypeInv, NEW r \in Req, TurnGate(r)
  PROVE  TypeInv'
  <1>1. /\ pc[r] = "gate" /\ mem[r] \in Row /\ mem[r].version \in Nat
        /\ call[r] \in AnswerCall /\ call[r] \in Call /\ at[r] \in Sid
    BY RowFields DEF TurnGate, TypeInv, ReqInv, Answering, Placed
  <1>2. CASE \E status \in {"500", "409"} : Fail(r, status)
    BY <1>1, <1>2, FailTypes DEF Statuses
  <1>3. ASSUME NEW verdict \in Verdicts,
               RecordJudgement(r, verdict, "llm",
                 IF session[at[r]] = NoRow THEN mem[r] ELSE session[at[r]], <<>>),
               mem' = [mem EXCEPT ![r] =
                         WithProgress(@, Transition(StateOf(@), verdict), @.version + 2)],
               hold' = [hold EXCEPT ![r] = {}], seq' = [seq EXCEPT ![r] = 0],
               Goto(r, "flush"), UNCHANGED <<call, resp, at, del>>
        PROVE  TypeInv'
    <2> DEFINE base  == IF session[at[r]] = NoRow THEN mem[r] ELSE session[at[r]]
               state == Transition(StateOf(mem[r]), verdict)
               new   == WithProgress(mem[r], state, mem[r].version + 2)
    <2>1. base \in Row
      BY <1>1 DEF TypeInv, TypeOK
    <2>2. <<>> \in Seq(Message)
      OBVIOUS
    <2> HIDE DEF base
    <2>3. DbTypes' /\ state \in SessionState
      BY <1>1, <1>3, <2>1, <2>2, RecordTypes DEF base
    <2>4. mem[r].version + 2 \in Nat
      BY <1>1
    <2> HIDE DEF state
    <2>5. new \in Row
      BY <1>1, <2>3, <2>4, WithProgressType
    <2>6. mem' = [mem EXCEPT ![r] = new]
      BY <1>3 DEF state
    <2> HIDE DEF new
    <2>7. RequestTypes
      BY DEF TypeInv, TypeOK, RequestTypes
    <2>8. RequestTypes' /\ pc'[r] = "flush" /\ call'[r] = call[r] /\ mem'[r] \in Row /\ at'[r] = at[r]
      BY <1>1, <1>3, <2>5, <2>6, <2>7 DEF RequestTypes, Goto, Labels
    <2>9. \A q \in Req \ {r} : Same(q)
      BY <1>3, <2>6, <2>7 DEF RequestTypes, Same, Goto
    <2>10. ReqInv(r)'
      BY <1>1, <2>8 DEF ReqInv
    <2> QED
      BY <2>3, <2>8, <2>9, <2>10, TypesTogether DEF TypeInv
  <1> QED
    BY <1>2, <1>3 DEF TurnGate

LEMMA GateRaisesTypes ==
  ASSUME TypeInv, NEW r \in Req, GateRaises(r)
  PROVE  TypeInv'
  <1>1. call[r] \in AnswerCall /\ call[r] \in Call
    BY RowFields DEF GateRaises, TypeInv, ReqInv, Answering, Placed
  <1> QED
    BY <1>1, FailTypes DEF GateRaises, Statuses

LEMMA TurnFlushTypes ==
  ASSUME TypeInv, NEW r \in Req, TurnFlush(r)
  PROVE  TypeInv'
  <1>1. /\ pc[r] = "flush" /\ mem[r] \in Row /\ mem[r].version \in Nat
        /\ call[r] \in AnswerCall /\ call[r] \in Call /\ at[r] \in Sid
    BY RowFields DEF TurnFlush, TypeInv, ReqInv, Answering, Placed
  <1>2. CASE Fail(r, "500")
    BY <1>1, <1>2, FailTypes DEF Statuses
  <1>3. CASE ~ Fail(r, "500")
    <2>1. /\ session[at[r]] # NoRow
          /\ session' = [session EXCEPT ![at[r]].version = mem[r].version] \/ session' = session
          /\ \/ Finish(r, "503", NoTurn)
             \/ Goto(r, "stream") /\ UNCHANGED <<resp, txn>>
          /\ UNCHANGED <<message, gate, gateCall, lapsed, minted, call>>
      BY <1>3 DEF TurnFlush
    <2>2. session[at[r]] \in Row
      BY <1>1, <2>1 DEF TypeInv, TypeOK
    <2>3. [session[at[r]] EXCEPT !.version = mem[r].version] \in Row
      BY <1>1, <2>2, OtherColumns, RowFields
    <2>4. DbTypes'
      BY <1>1, <2>1, <2>3 DEF TypeInv, TypeOK, DbTypes
    <2>5. CASE Finish(r, "503", NoTurn)
      BY <1>1, <2>1, <2>4, <2>5, FinishTypes, TypesTogether DEF TypeInv, Statuses
    <2>6. CASE Goto(r, "stream") /\ UNCHANGED <<resp, txn>>
      <3>1. RequestTypes
        BY DEF TypeInv, TypeOK, RequestTypes
      <3>2. RequestTypes' /\ pc'[r] = "stream" /\ call'[r] = call[r] /\ mem'[r] = mem[r] /\ at'[r] = at[r]
        BY <2>1, <2>6, <3>1 DEF RequestTypes, Goto, Labels, txn
      <3>3. \A q \in Req \ {r} : Same(q)
        BY <2>1, <2>6, <3>1 DEF RequestTypes, Same, Goto, txn
      <3>4. ReqInv(r)'
        BY <1>1, <3>2 DEF ReqInv
      <3> QED
        BY <2>4, <3>2, <3>3, <3>4, TypesTogether DEF TypeInv
    <2> QED
      BY <2>1, <2>5, <2>6
  <1> QED
    BY <1>2, <1>3

LEMMA CoachStreamTypes ==
  ASSUME TypeInv, NEW r \in Req, CoachStream(r)
  PROVE  TypeInv'
  <1>1. /\ pc[r] = "stream" /\ mem[r] \in Row
        /\ call[r] \in AnswerCall /\ call[r] \in Call /\ at[r] \in Sid
    BY DEF CoachStream, TypeInv, ReqInv, Answering, Placed
  <1>2. CASE Fail(r, "lost")
    BY <1>1, <1>2, FailTypes DEF Statuses
  <1>3. CASE ~ Fail(r, "lost")
    <2>1. /\ seq' = [seq EXCEPT ![r] = NextSeq(at[r])]
          /\ Goto(r, "write")
          /\ UNCHANGED <<db, call, resp, at, mem, hold, del>>
      BY <1>3 DEF CoachStream
    <2>2. RequestTypes
      BY DEF TypeInv, TypeOK, RequestTypes
    <2>3. RequestTypes' /\ pc'[r] = "write" /\ call'[r] = call[r] /\ mem'[r] = mem[r] /\ at'[r] = at[r]
      BY <1>1, <2>1, <2>2, NextSeqType DEF RequestTypes, Goto, Labels
    <2>4. \A q \in Req \ {r} : Same(q)
      BY <2>1, <2>2 DEF RequestTypes, Same, Goto
    <2>5. ReqInv(r)'
      BY <1>1, <2>3 DEF ReqInv
    <2> QED
      BY <2>1, <2>3, <2>4, <2>5, DbSame, TypesTogether DEF TypeInv
  <1> QED
    BY <1>2, <1>3

LEMMA CoachWriteTypes ==
  ASSUME TypeInv, NEW r \in Req, CoachWrite(r)
  PROVE  TypeInv'
  <1>1. /\ pc[r] = "write" /\ mem[r] \in Row
        /\ call[r] \in AnswerCall /\ call[r] \in Call /\ at[r] \in Sid
    BY DEF CoachWrite, TypeInv, ReqInv, Answering, Placed
  <1>2. CASE Fail(r, "200")
    BY <1>1, <1>2, FailTypes DEF Statuses
  <1>3. CASE Goto(r, "fk") /\ UNCHANGED <<db, call, resp, txn>>
    <2>1. RequestTypes
      BY DEF TypeInv, TypeOK, RequestTypes
    <2>2. RequestTypes' /\ pc'[r] = "fk" /\ call'[r] = call[r] /\ mem'[r] = mem[r] /\ at'[r] = at[r]
      BY <1>3, <2>1 DEF RequestTypes, Goto, Labels, txn
    <2>3. \A q \in Req \ {r} : Same(q)
      BY <1>3, <2>1 DEF RequestTypes, Same, Goto, txn
    <2>4. ReqInv(r)'
      BY <1>1, <2>2 DEF ReqInv
    <2> QED
      BY <1>3, <2>2, <2>3, <2>4, DbSame, TypesTogether DEF TypeInv
  <1> QED
    BY <1>2, <1>3 DEF CoachWrite

LEMMA CoachCommitTypes ==
  ASSUME TypeInv, NEW r \in Req, CoachCommit(r)
  PROVE  TypeInv'
  <1>1. /\ pc[r] = "fk" /\ call[r] \in AnswerCall /\ call[r] \in Call /\ at[r] \in Sid
        /\ call[r].turn \in Turn \cup {NoTurn}
    BY DEF CoachCommit, TypeInv, ReqInv, Answering, Placed, AnswerCall
  <1>2. ReplyMessage(r) \in Message
    BY <1>1 DEF ReplyMessage, Message, AnswerCall
  <1>3. /\ message' = message \/ message' = [message EXCEPT ![at[r]] = Append(@, ReplyMessage(r))]
        /\ Finish(r, "200", call[r].turn)
        /\ UNCHANGED <<session, gate, gateCall, lapsed, minted, call>>
    BY DEF CoachCommit
  <1>4. message \in [Sid -> Seq(Message)]
    BY DEF TypeInv, TypeOK
  <1>5. message' \in [Sid -> Seq(Message)]
    <2>1. Append(message[at[r]], ReplyMessage(r)) \in Seq(Message)
      BY <1>1, <1>2, <1>4
    <2> QED
      BY <1>1, <1>3, <1>4, <2>1
  <1>6. DbTypes'
    BY <1>3, <1>5 DEF DbTypes, TypeInv, TypeOK
  <1> QED
    BY <1>1, <1>3, <1>6, FinishTypes, TypesTogether DEF TypeInv, Statuses

LEMMA AddressTypes ==
  ASSUME TypeInv, NEW r \in Req, Address(r)
  PROVE  TypeInv'
  <1>1. PICK c \in Offered[r] :
          /\ c.op \in {"byok", "model", "reset"} /\ Arrive(r, c) /\ c \in Call
          /\ \/ Refuse(r, "404")
             \/ /\ at' = [at EXCEPT ![r] = c.sid]
                /\ Goto(r, "lock")
                /\ UNCHANGED <<db, resp, mem, hold, del, seq>>
    BY OfferedCalls DEF Address
  <1>2. c.sid \in Sid
    BY <1>1, CallFields DEF AnswerCall
  <1>3. CASE Refuse(r, "404")
    BY <1>1, <1>3, RefuseTypes DEF Statuses
  <1>4. CASE /\ at' = [at EXCEPT ![r] = c.sid]
             /\ Goto(r, "lock")
             /\ UNCHANGED <<db, resp, mem, hold, del, seq>>
    <2>1. RequestTypes
      BY DEF TypeInv, TypeOK, RequestTypes
    <2>2. RequestTypes' /\ pc'[r] = "lock" /\ call'[r] = c /\ at'[r] = c.sid
      BY <1>1, <1>2, <1>4, <2>1 DEF RequestTypes, Arrive, Goto, Labels
    <2>3. \A q \in Req \ {r} : Same(q)
      BY <1>1, <1>4, <2>1 DEF RequestTypes, Same, Arrive, Goto
    <2>4. ReqInv(r)'
      BY <1>1, <1>2, <2>2 DEF ReqInv, Answering
    <2> QED
      BY <1>4, <2>2, <2>3, <2>4, DbSame, TypesTogether DEF TypeInv
  <1> QED
    BY <1>1, <1>3, <1>4

\* A request that locked the session it addresses has the row in memory.
LEMMA LockByIdTypes ==
  ASSUME TypeInv, NEW r \in Req, pc[r] = "lock", session[at[r]] # NoRow,
         NEW label \in {"record", "sweep"}, label = "record" => call[r].op = "byok",
         mem' = [mem EXCEPT ![r] = session[at[r]]],
         hold' = [hold EXCEPT ![r] = {at[r]}],
         del' \in [Req -> SUBSET Sid],
         Goto(r, label),
         UNCHANGED <<db, call, resp, at, seq>>
  PROVE  TypeInv'
  <1>1. RequestTypes /\ call[r] \in Call /\ at[r] \in Sid
    BY DEF TypeInv, TypeOK, RequestTypes, ReqInv, Placed
  <1>2. session[at[r]] \in Row
    BY <1>1 DEF TypeInv, TypeOK
  <1>3. label = "record" => call[r] \in AnswerCall
    BY <1>1, CallFields
  <1>4. RequestTypes' /\ pc'[r] = label /\ call'[r] = call[r] /\ mem'[r] \in Row /\ at'[r] = at[r]
    BY <1>1, <1>2 DEF RequestTypes, Goto, Labels
  <1>5. \A q \in Req \ {r} : Same(q)
    BY <1>1 DEF RequestTypes, Same, Goto
  <1>6. ReqInv(r)'
    BY <1>1, <1>3, <1>4 DEF ReqInv, Answering, Placed
  <1> QED
    BY <1>4, <1>5, <1>6, DbSame, TypesTogether DEF TypeInv

LEMMA ByokLockTypes ==
  ASSUME TypeInv, NEW r \in Req, ByokLock(r)
  PROVE  TypeInv'
  <1>1. pc[r] = "lock" /\ call[r].op = "byok" /\ call[r] \in Call
    BY DEF ByokLock, LockById, TypeInv, ReqInv
  <1>2. CASE Fail(r, "404")
    BY <1>1, <1>2, FailTypes DEF Statuses
  <1>3. CASE ~ Fail(r, "404")
    BY <1>1, <1>3, LockByIdTypes DEF ByokLock, TypeInv, TypeOK
  <1> QED
    BY <1>2, <1>3

LEMMA ResetLockTypes ==
  ASSUME TypeInv, NEW r \in Req, ResetLock(r)
  PROVE  TypeInv'
  <1>1. pc[r] = "lock" /\ call[r] \in Call
    BY DEF ResetLock, LockById, TypeInv, ReqInv
  <1>2. CASE Fail(r, "404")
    BY <1>1, <1>2, FailTypes DEF Statuses
  <1>3. CASE ~ Fail(r, "404")
    <2>1. /\ session[at[r]] # NoRow
          /\ mem' = [mem EXCEPT ![r] = session[at[r]]]
          /\ hold' = [hold EXCEPT ![r] = {at[r]}]
          /\ del' = [del EXCEPT ![r] = SidsOf(session[at[r]].problem)]
          /\ Goto(r, "sweep")
          /\ UNCHANGED <<db, call, resp, at, seq>>
      BY <1>3 DEF ResetLock
    <2>2. SidsOf(session[at[r]].problem) \in SUBSET Sid
      BY DEF SidsOf
    <2>3. del' \in [Req -> SUBSET Sid]
      BY <2>1, <2>2 DEF TypeInv, TypeOK
    <2> QED
      BY <1>1, <2>1, <2>3, LockByIdTypes
  <1> QED
    BY <1>2, <1>3

\* The row that a client-judged turn has locked is there (LockInv below).
LEMMA ByokRecordTypes ==
  ASSUME TypeInv, NEW r \in Req, ByokRecord(r), session[at[r]] # NoRow
  PROVE  TypeInv'
  <1>1. /\ pc[r] = "record" /\ mem[r] \in Row /\ mem[r].step \in Step
        /\ call[r] \in AnswerCall /\ call[r] \in Call /\ at[r] \in Sid
        /\ call[r].turn \in Turn \cup {NoTurn}
    BY RowFields DEF ByokRecord, TypeInv, ReqInv, Answering, Placed, AnswerCall
  <1>2. CASE \E status \in {"403", "429", "409"} : Fail(r, status)
    BY <1>1, <1>2, FailTypes DEF Statuses
  <1>3. CASE Finish(r, "replay", LastCoachReply(at[r], mem[r].step)) /\ UNCHANGED <<db, call>>
    BY <1>1, <1>3, LastReplyType, FinishTypes, DbSame, TypesTogether DEF Statuses, TypeInv
  <1>4. ASSUME NEW verdict \in Verdicts,
               RecordJudgement(r, verdict, "byok", session[at[r]], <<ReplyMessage(r)>>),
               Finish(r, "200", call[r].turn), UNCHANGED call
        PROVE  TypeInv'
    <2>1. session[at[r]] \in Row
      BY <1>1, <1>4 DEF TypeInv, TypeOK
    <2>2. <<ReplyMessage(r)>> \in Seq(Message)
      BY <1>1 DEF ReplyMessage, Message, AnswerCall
    <2>3. DbTypes'
      BY <1>1, <1>4, <2>1, <2>2, RecordTypes
    <2> QED
      BY <1>1, <1>4, <2>3, FinishTypes, TypesTogether DEF TypeInv, Statuses
  <1> QED
    BY <1>2, <1>3, <1>4 DEF ByokRecord

LEMMA ModelSwitchTypes ==
  ASSUME TypeInv, NEW r \in Req, ModelSwitch(r)
  PROVE  TypeInv'
  <1>1. pc[r] = "lock" /\ call[r].op = "model" /\ call[r] \in Call /\ at[r] \in Sid /\ call[r].byok \in BOOLEAN
    BY CallFields DEF ModelSwitch, LockById, TypeInv, ReqInv, Placed
  <1>2. CASE \E status \in {"404", "409"} : Fail(r, status)
    BY <1>1, <1>2, FailTypes DEF Statuses
  <1>3. CASE /\ session[at[r]] # NoRow
             /\ session' = [session EXCEPT ![at[r]] = Switched(@, call[r].byok)]
             /\ lapsed' = lapsed \ {at[r]}
             /\ Goto(r, "echo")
             /\ UNCHANGED <<message, gate, gateCall, minted, call, resp, txn>>
    <2>1. session[at[r]] \in Row
      BY <1>1, <1>3 DEF TypeInv, TypeOK
    <2>2. Switched(session[at[r]], call[r].byok) \in Row
      BY <1>1, <2>1, OtherColumns, RowFields
    <2>3. DbTypes'
      BY <1>1, <1>3, <2>2 DEF TypeInv, TypeOK, DbTypes
    <2>4. RequestTypes
      BY DEF TypeInv, TypeOK, RequestTypes
    <2>5. RequestTypes' /\ pc'[r] = "echo" /\ call'[r] = call[r] /\ at'[r] = at[r]
      BY <1>3, <2>4 DEF RequestTypes, Goto, Labels, txn
    <2>6. \A q \in Req \ {r} : Same(q)
      BY <1>3, <2>4 DEF RequestTypes, Same, Goto, txn
    <2>7. ReqInv(r)'
      BY <1>1, <2>5 DEF ReqInv, Answering
    <2> QED
      BY <2>3, <2>5, <2>6, <2>7, TypesTogether DEF TypeInv
  <1> QED
    BY <1>2, <1>3 DEF ModelSwitch

LEMMA ModelEchoTypes ==
  ASSUME TypeInv, NEW r \in Req, ModelEcho(r)
  PROVE  TypeInv'
  <1>1. call[r] \in Call
    BY DEF ModelEcho, TypeInv, ReqInv
  <1>2. PICK status \in {"500", "200"} : Fail(r, status)
    BY DEF ModelEcho
  <1> QED
    BY <1>1, <1>2, FailTypes DEF Statuses

LEMMA DeleteScanTypes ==
  ASSUME TypeInv, NEW r \in Req, DeleteScan(r)
  PROVE  TypeInv'
  <1>1. PICK c \in Offered[r] :
          /\ c.op \in {"clear", "purge"} /\ Arrive(r, c) /\ c \in Call
          /\ del' = [del EXCEPT ![r] = IF c.op = "clear" THEN Stored ELSE lapsed]
          /\ Goto(r, "sweep")
          /\ UNCHANGED <<db, resp, at, mem, hold, seq>>
    BY OfferedCalls DEF DeleteScan
  <1>2. RequestTypes /\ Stored \in SUBSET Sid /\ lapsed \in SUBSET Sid
    BY DEF TypeInv, TypeOK, RequestTypes, Stored
  <1>3. RequestTypes' /\ pc'[r] = "sweep" /\ call'[r] = c
    BY <1>1, <1>2 DEF RequestTypes, Arrive, Goto, Labels
  <1>4. \A q \in Req \ {r} : Same(q)
    BY <1>1, <1>2 DEF RequestTypes, Same, Arrive, Goto
  <1>5. ReqInv(r)'
    BY <1>1, <1>3 DEF ReqInv, Answering, Placed
  <1> QED
    BY <1>1, <1>3, <1>4, <1>5, DbSame, TypesTogether DEF TypeInv

LEMMA SweepTypes ==
  ASSUME TypeInv, NEW r \in Req, Sweep(r)
  PROVE  TypeInv'
  <1>1. PICK s \in del[r] :
          /\ del' = [del EXCEPT ![r] = @ \ {s}]
          /\ hold' = [hold EXCEPT ![r] = @ \cup {s}] \/ hold' = hold
          /\ UNCHANGED <<db, pc, call, resp, at, mem, seq>>
    BY DEF Sweep
  <1>2. RequestTypes /\ s \in Sid
    BY <1>1 DEF TypeInv, TypeOK, RequestTypes
  <1>3. RequestTypes'
    BY <1>1, <1>2 DEF RequestTypes
  <1>4. \A q \in Req : Same(q)
    BY <1>1 DEF Same
  <1>5. ReqInv(r)'
    BY <1>1 DEF ReqInv, TypeInv
  <1> QED
    BY <1>1, <1>3, <1>4, <1>5, DbSame, TypesTogether DEF TypeInv

\* What the commit of a DELETE leaves.
LEMMA CommitDeleteTypes ==
  ASSUME TypeInv, NEW gone, NEW fresh, \A s \in DOMAIN fresh : fresh[s] \in Row,
         CommitDelete(gone, fresh), minted' \in 0 .. MaxSid
  PROVE  DbTypes'
  <1>1. NoGates \in [Step -> GateRow \cup {NoGate}]
    BY DEF NoGates
  <1>2. session' \in [Sid -> Row \cup {NoRow}]
    BY DEF CommitDelete, TypeInv, TypeOK
  <1>3. message' \in [Sid -> Seq(Message)]
    BY DEF CommitDelete, TypeInv, TypeOK
  <1>4. gate' \in [Sid -> [Step -> GateRow \cup {NoGate}]]
    BY <1>1 DEF CommitDelete, TypeInv, TypeOK
  <1>5. gateCall' \in [Sid -> SUBSET GateCall]
    BY DEF CommitDelete, TypeInv, TypeOK
  <1>6. lapsed' \subseteq Sid
    BY DEF CommitDelete, TypeInv, TypeOK
  <1> QED
    BY <1>2, <1>3, <1>4, <1>5, <1>6 DEF DbTypes

LEMMA DeleteCommitTypes ==
  ASSUME TypeInv, NEW r \in Req, DeleteCommit(r)
  PROVE  TypeInv'
  <1>1. call[r] \in Call /\ minted \in 0 .. MaxSid
    BY DEF DeleteCommit, TypeInv, TypeOK, ReqInv
  <1>2. \A s \in DOMAIN <<>> : <<>>[s] \in Row
    OBVIOUS
  <1>3. DbTypes'
    BY <1>1, <1>2, CommitDeleteTypes DEF DeleteCommit
  <1> QED
    BY <1>1, <1>3, FinishTypes, TypesTogether DEF DeleteCommit, TypeInv, Statuses

LEMMA ResetCommitTypes ==
  ASSUME TypeInv, NEW r \in Req, ResetCommit(r)
  PROVE  TypeInv'
  <1>1. call[r] \in Call /\ mem[r] \in Row
    BY DEF ResetCommit, TypeInv, ReqInv
  <1>2. CASE Fail(r, "500")
    BY <1>1, <1>2, FailTypes DEF Statuses
  <1>3. CASE ~ Fail(r, "500")
    <2> DEFINE new   == FreshRow(mem[r].problem, mem[r].track, mem[r].byok)
               fresh == [s \in {minted + 1} |-> new]
    <2>1. /\ minted < MaxSid /\ minted' = minted + 1
          /\ CommitDelete(hold[r], fresh)
          /\ Finish(r, "200", NoTurn)
          /\ UNCHANGED call
      BY <1>3 DEF ResetCommit
    <2>2. new \in Row
      BY <1>1, FreshRowType, RowFields
    <2> HIDE DEF new
    <2>3. \A s \in DOMAIN fresh : fresh[s] \in Row
      BY <2>2
    <2> HIDE DEF fresh
    <2>4. DbTypes'
      BY <2>1, <2>3, FreshSid, CommitDeleteTypes
    <2> QED
      BY <1>1, <2>1, <2>4, FinishTypes, TypesTogether DEF TypeInv, Statuses
  <1> QED
    BY <1>2, <1>3

\* A request that waits for others has arrived.
LEMMA WaitersAreInFlight ==
  ASSUME NEW r \in Req, Deadlocked(r)
  PROVE  pc[r] \notin {"idle", "done"}
  <1>1. SUFFICES ASSUME pc[r] \in {"idle", "done"} PROVE WaitsFor(r) = {}
    BY <1>1 DEF Deadlocked
  <1> QED
    BY <1>1 DEF WaitsFor, Appends

LEMMA DeadlockAbortTypes ==
  ASSUME TypeInv, NEW r \in Req, DeadlockAbort(r)
  PROVE  TypeInv'
  <1>1. call[r] \in Call
    BY WaitersAreInFlight DEF DeadlockAbort, TypeInv, ReqInv
  <1>2. PICK status \in {"500", "200"} : Fail(r, status)
    BY DEF DeadlockAbort
  <1> QED
    BY <1>1, <1>2, FailTypes DEF Statuses

LEMMA LapseTypes ==
  ASSUME TypeInv, NEW s \in Sid, Lapse(s)
  PROVE  TypeInv'
  <1>1. TypeOK'
    BY DEF Lapse, TypeInv, TypeOK, txn
  <1>2. ASSUME NEW q \in Req PROVE ReqInv(q)'
    BY DEF Lapse, TypeInv, ReqInv, txn
  <1> QED
    BY <1>1, <1>2 DEF TypeInv

LEMMA CrashTypes ==
  ASSUME TypeInv, Crash
  PROVE  TypeInv'
  <1>1. RequestTypes
    BY DEF TypeInv, TypeOK, RequestTypes
  <1>2. /\ pc' = [r \in Req |-> IF r \in InFlight THEN "done" ELSE pc[r]]
        /\ call' = call
        /\ resp' = [r \in Req |-> IF r \in InFlight THEN [status |-> "lost", reply |-> NoTurn]
                                                    ELSE resp[r]]
        /\ at' = [r \in Req |-> 0] /\ mem' = [r \in Req |-> NoRow]
        /\ hold' = [r \in Req |-> {}] /\ del' = [r \in Req |-> {}] /\ seq' = [r \in Req |-> 0]
    BY DEF Crash
  <1>3. pc' \in [Req -> Labels] /\ \A q \in Req : pc'[q] \in {"idle", "done"}
    BY <1>1, <1>2 DEF RequestTypes, Labels, InFlight
  <1>4. resp' \in [Req -> [status : Statuses, reply : Turn \cup {NoTurn}]]
    BY <1>1, <1>2 DEF RequestTypes, Statuses
  <1>5. RequestTypes'
    BY <1>1, <1>2, <1>3, <1>4 DEF RequestTypes
  <1>6. ASSUME NEW q \in Req PROVE ReqInv(q)'
    <2>1. pc'[q] # "idle" => pc[q] # "idle"
      BY <1>2 DEF InFlight
    <2> QED
      BY <1>2, <1>3, <2>1 DEF ReqInv, TypeInv, Answering, Placed
  <1>7. TypeOK'
    BY <1>5, DbSame DEF Crash, DbTypes, RequestTypes, TypeOK
  <1> QED
    BY <1>6, <1>7 DEF TypeInv

-------------------------------------------------------------------------------
(***************************************************************************)
(* Row locks and the one active session.  OneActive is inductive only with *)
(* what the locks protect: a session that a turn is creating lazily (its   *)
(* row is inserted and not committed, so it is pending) excludes an active *)
(* row, or another pending one, of its problem; and a row that a request   *)
(* has locked is changed by nobody else.                                   *)
(***************************************************************************)
Locking == {"begin", "gate", "record"}

Pending(r) == pc[r] \in {"begin", "gate"} /\ session[at[r]] = NoRow

\* What r's place in its handler says of its locks.
Locked(r) ==
  /\ pc[r] \in Locking => hold[r] = {at[r]}
  /\ pc[r] \notin Locking \cup {"sweep"} => hold[r] = {}
  /\ pc[r] = "sweep" => hold[r] \subseteq Stored
  /\ pc[r] = "record" => session[at[r]] = mem[r]
  /\ Pending(r) => ActiveSids(mem[r].problem) = {}

LockInv ==
  /\ LocksExclusive
  /\ OneActive
  /\ \A r \in Req : Locked(r)
  /\ \A r, q \in Req : r # q /\ Pending(r) /\ Pending(q) => mem[r].problem # mem[q].problem

\* What LockInv reads of a request is as it was.
SameLocks(q) ==
  pc'[q] = pc[q] /\ at'[q] = at[q] /\ mem'[q] = mem[q] /\ hold'[q] = hold[q]

\* A step of r keeps LockInv when it leaves the others' rows alone, and what it
\* makes active is of no pending session's problem.
LEMMA LocksKept ==
  ASSUME TypeInv, LockInv, NEW r \in Req, \A q \in Req \ {r} : SameLocks(q),
         minted' \in Nat, minted <= minted',
         \A q \in Req \ {r} : \A s \in hold[q] : session'[s] = session[s] /\ s \notin hold'[r],
         \A q \in Req \ {r} : Pending(q) => ActiveSids(mem[q].problem)' = {},
         hold'[r] \subseteq 1 .. minted', Stored' \subseteq 1 .. minted', OneActive',
         Locked(r)',
         \A q \in Req \ {r} : Pending(r)' /\ Pending(q) => mem'[r].problem # mem[q].problem
  PROVE  LockInv'
  <1>1. \A q \in Req : Locked(q) /\ hold[q] \subseteq 1 .. minted
    BY DEF LockInv, LocksExclusive
  <1>2. ASSUME NEW q \in Req \ {r} PROVE Pending(q)' <=> Pending(q)
    BY <1>1 DEF Pending, SameLocks, Locked, Locking
  <1>3. ASSUME NEW q \in Req \ {r} PROVE Locked(q)'
    <2>1. pc[q] = "sweep" => hold[q] \subseteq Stored'
      BY <1>1 DEF Locked, Stored, TypeInv, TypeOK
    <2>2. pc[q] = "record" => session'[at[q]] = mem[q]
      BY <1>1 DEF Locked, Locking
    <2>3. /\ pc'[q] = pc[q] /\ at'[q] = at[q] /\ mem'[q] = mem[q] /\ hold'[q] = hold[q]
          /\ Pending(q)' => ActiveSids(mem[q].problem)' = {}
      BY <1>2 DEF SameLocks
    <2> QED
      BY <1>1, <2>1, <2>2, <2>3 DEF Locked
  <1>4. ASSUME NEW q \in Req, NEW p \in Req, q # p PROVE hold'[q] \cap hold'[p] = {}
    <2>1. \A o \in Req \ {r} : hold'[o] = hold[o] /\ hold'[r] \cap hold[o] = {}
      BY DEF SameLocks
    <2>2. hold[q] \cap hold[p] = {}
      BY <1>4 DEF LockInv, LocksExclusive
    <2> QED
      BY <1>4, <2>1, <2>2
  <1>5. minted \in Nat
    BY ServiceAssumption DEF TypeInv, TypeOK
  <1>6. ASSUME NEW q \in Req PROVE hold'[q] \subseteq 1 .. minted'
    BY <1>1, <1>5 DEF SameLocks
  <1>7. ASSUME NEW q \in Req, NEW p \in Req, q # p, Pending(q)', Pending(p)'
        PROVE  mem'[q].problem # mem'[p].problem
    BY <1>2, <1>7 DEF LockInv, SameLocks
  <1> QED
    BY <1>3, <1>4, <1>6, <1>7 DEF LockInv, LocksExclusive

\* A step of r that writes no session row.
LEMMA LocksWithoutWrites ==
  ASSUME TypeInv, LockInv, NEW r \in Req, \A q \in Req \ {r} : SameLocks(q),
         UNCHANGED <<session, minted>>,
         \A q \in Req \ {r} : hold'[r] \cap hold[q] = {},
         hold'[r] \subseteq 1 .. minted,
         Locked(r)', Pending(r)' => Pending(r) /\ mem'[r] = mem[r]
  PROVE  LockInv'
  <1>1. minted \in Nat
    BY ServiceAssumption DEF TypeInv, TypeOK
  <1>2. OneActive' /\ Stored' = Stored /\ Stored \subseteq 1 .. minted
    <2>1. session' = session
      OBVIOUS
    <2>2. Stored' = Stored
      BY <2>1 DEF Stored
    <2> QED
      BY <2>1, <2>2 DEF LockInv, LocksExclusive, OneActive
  <1>3. ASSUME NEW q \in Req \ {r}, Pending(q) PROVE ActiveSids(mem[q].problem)' = {}
    BY <1>3 DEF LockInv, Locked, SameLocks, ActiveSids
  <1>4. \A q \in Req \ {r} : Pending(r)' /\ Pending(q) => mem'[r].problem # mem[q].problem
    BY DEF LockInv
  <1> QED
    BY <1>1, <1>2, <1>3, <1>4, LocksKept

\* A step after which r holds nothing.
LEMMA LocksReleased ==
  ASSUME TypeInv, LockInv, NEW r \in Req, \A q \in Req \ {r} : SameLocks(q),
         UNCHANGED <<session, minted>>,
         hold'[r] = {}, pc'[r] \notin Locking
  PROVE  LockInv'
  <1>1. Locked(r)' /\ ~ Pending(r)'
    BY DEF Locked, Pending, Locking
  <1> QED
    BY <1>1, LocksWithoutWrites

\* A step with which r locks one row.
LEMMA LockTaken ==
  ASSUME TypeInv, LockInv, NEW r \in Req, \A q \in Req \ {r} : SameLocks(q),
         UNCHANGED <<session, minted>>,
         NEW s \in Stored, Holders(r, s) = {}, hold'[r] = {s}, at'[r] = s,
         pc'[r] \in {"begin", "record", "sweep"}, pc'[r] = "record" => mem'[r] = session[s]
  PROVE  LockInv'
  <1>1. \A q \in Req \ {r} : hold'[r] \cap hold[q] = {}
    BY DEF Holders
  <1>2. hold'[r] \subseteq 1 .. minted
    BY DEF LockInv, LocksExclusive
  <1>3. ~ Pending(r)'
    BY DEF Pending, Stored
  <1>4. Locked(r)'
    BY <1>3 DEF Locked, Locking, Stored
  <1> QED
    BY <1>1, <1>2, <1>3, <1>4, LocksWithoutWrites

\* A request that ends, or goes on, without locks.
LEMMA FinishLocks ==
  ASSUME TypeInv, LockInv, NEW r \in Req, NEW status, NEW reply,
         Finish(r, status, reply)
  PROVE  /\ \A q \in Req \ {r} : SameLocks(q)
         /\ hold'[r] = {} /\ pc'[r] = "done"
         /\ UNCHANGED <<session, minted>> => LockInv'
  <1>1. /\ pc' = [pc EXCEPT ![r] = "done"] /\ at' = [at EXCEPT ![r] = 0]
        /\ mem' = [mem EXCEPT ![r] = NoRow] /\ hold' = [hold EXCEPT ![r] = {}]
    BY DEF Finish, Respond, Release, Goto
  <1>2. /\ \A q \in Req \ {r} : SameLocks(q)
        /\ hold'[r] = {} /\ pc'[r] = "done"
    BY <1>1 DEF SameLocks, TypeInv, TypeOK
  <1> QED
    BY <1>2, LocksReleased DEF Locking

LEMMA FailLocks ==
  ASSUME TypeInv, LockInv, NEW r \in Req, NEW status, Fail(r, status)
  PROVE  LockInv'
  BY FinishLocks DEF Fail, db

LEMMA RefuseLocks ==
  ASSUME TypeInv, LockInv, NEW r \in Req, pc[r] = "idle", NEW status, Refuse(r, status)
  PROVE  LockInv'
  <1>1. hold[r] = {}
    BY DEF LockInv, Locked, Locking
  <1>2. pc' = [pc EXCEPT ![r] = "done"] /\ UNCHANGED <<session, minted, at, mem, hold>>
    BY DEF Refuse, Respond, Goto, db, txn
  <1>3. (\A q \in Req \ {r} : SameLocks(q)) /\ pc'[r] = "done" /\ hold'[r] = {}
    BY <1>1, <1>2 DEF SameLocks, TypeInv, TypeOK
  <1> QED
    BY <1>2, <1>3, LocksReleased DEF Locking

LEMMA CreateLocks ==
  ASSUME TypeInv, LockInv, NEW r \in Req, Create(r)
  PROVE  LockInv'
  <1>1. pc[r] = "idle" /\ hold[r] = {}
    BY DEF Create, Arrive, LockInv, Locked, Locking
  <1>2. CASE \E status : Refuse(r, status)
    BY <1>1, <1>2, RefuseLocks
  <1>3. CASE ~ \E status : Refuse(r, status)
    <2>1. PICK row : mem' = [mem EXCEPT ![r] = row] /\ Goto(r, "insert")
                     /\ UNCHANGED <<db, resp, at, hold, del, seq>>
      BY <1>3 DEF Create
    <2>2. (\A q \in Req \ {r} : SameLocks(q)) /\ pc'[r] = "insert" /\ hold'[r] = {}
      BY <1>1, <2>1 DEF SameLocks, Goto, TypeInv, TypeOK
    <2> QED
      BY <2>1, <2>2, LocksReleased DEF Locking, db
  <1> QED
    BY <1>2, <1>3

LEMMA TurnReadLocks ==
  ASSUME TypeInv, LockInv, NEW r \in Req, TurnRead(r)
  PROVE  LockInv'
  <1>1. pc[r] = "idle" /\ hold[r] = {}
    BY DEF TurnRead, Arrive, LockInv, Locked, Locking
  <1>2. CASE \E status : Refuse(r, status)
    BY <1>1, <1>2, RefuseLocks
  <1>3. CASE ~ \E status : Refuse(r, status)
    <2>1. PICK c \in Offered[r] :
             /\ at' = [at EXCEPT ![r] = c.sid] /\ mem' = [mem EXCEPT ![r] = session[c.sid]]
             /\ Goto(r, "scan") /\ UNCHANGED <<db, resp, hold, del, seq>>
      BY <1>3 DEF TurnRead
    <2>2. (\A q \in Req \ {r} : SameLocks(q)) /\ pc'[r] = "scan" /\ hold'[r] = {}
      BY <1>1, <2>1 DEF SameLocks, Goto, TypeInv, TypeOK
    <2> QED
      BY <2>1, <2>2, LocksReleased DEF Locking, db
  <1> QED
    BY <1>2, <1>3

LEMMA AddressLocks ==
  ASSUME TypeInv, LockInv, NEW r \in Req, Address(r)
  PROVE  LockInv'
  <1>1. pc[r] = "idle" /\ hold[r] = {}
    BY DEF Address, Arrive, LockInv, Locked, Locking
  <1>2. CASE \E status : Refuse(r, status)
    BY <1>1, <1>2, RefuseLocks
  <1>3. CASE ~ \E status : Refuse(r, status)
    <2>1. PICK c \in Offered[r] :
             /\ at' = [at EXCEPT ![r] = c.sid]
             /\ Goto(r, "lock") /\ UNCHANGED <<db, resp, mem, hold, del, seq>>
      BY <1>3 DEF Address
    <2>2. (\A q \in Req \ {r} : SameLocks(q)) /\ pc'[r] = "lock" /\ hold'[r] = {}
      BY <1>1, <2>1 DEF SameLocks, Goto, TypeInv, TypeOK
    <2> QED
      BY <2>1, <2>2, LocksReleased DEF Locking, db
  <1> QED
    BY <1>2, <1>3

LEMMA DeleteScanLocks ==
  ASSUME TypeInv, LockInv, NEW r \in Req, DeleteScan(r)
  PROVE  LockInv'
  <1>1. /\ pc[r] = "idle" /\ Goto(r, "sweep") /\ UNCHANGED <<db, at, mem, hold>>
    BY DEF DeleteScan, Arrive
  <1>2. hold[r] = {}
    BY <1>1 DEF LockInv, Locked, Locking
  <1>3. (\A q \in Req \ {r} : SameLocks(q)) /\ pc'[r] = "sweep" /\ hold'[r] = {}
    BY <1>1, <1>2 DEF SameLocks, Goto, TypeInv, TypeOK
  <1> QED
    BY <1>1, <1>3, LocksReleased DEF Locking, db

LEMMA TurnScanLocks ==
  ASSUME TypeInv, LockInv, NEW r \in Req, TurnScan(r)
  PROVE  LockInv'
  <1>1. /\ pc[r] = "scan" /\ UNCHANGED <<db, mem, hold>>
        /\ Goto(r, "lazy") \/ Goto(r, "lock")
        /\ at' = at \/ \E s : at' = [at EXCEPT ![r] = s]
    BY DEF TurnScan
  <1>2. hold[r] = {}
    BY <1>1 DEF LockInv, Locked, Locking
  <1>3. \A q \in Req \ {r} : SameLocks(q)
    BY <1>1 DEF SameLocks, Goto, TypeInv, TypeOK
  <1>4. pc'[r] \in {"lazy", "lock"} /\ hold'[r] = {}
    BY <1>1, <1>2 DEF Goto, TypeInv, TypeOK
  <1> QED
    BY <1>1, <1>3, <1>4, LocksReleased DEF Locking, db

LEMMA TurnLockLocks ==
  ASSUME TypeInv, LockInv, NEW r \in Req, TurnLock(r)
  PROVE  LockInv'
  <1>1. /\ pc[r] = "lock" /\ at[r] \in Sid /\ hold[r] = {}
    BY DEF TurnLock, TypeInv, ReqInv, Placed, LockInv, Locked, Locking
  <1>2. CASE at[r] \in ActiveSids(mem[r].problem)
    <2>1. /\ hold' = [hold EXCEPT ![r] = {at[r]}] /\ Goto(r, "begin") /\ UNCHANGED <<db, at>>
          /\ mem' = mem \/ mem' = [mem EXCEPT ![r] = session[at[r]]]
          /\ Holders(r, at[r]) = {}
      BY <1>2 DEF TurnLock
    <2>2. at[r] \in Stored
      BY <1>1, <1>2 DEF ActiveSids, Stored
    <2>3. \A q \in Req \ {r} : SameLocks(q)
      BY <2>1 DEF SameLocks, Goto, TypeInv, TypeOK
    <2>4. pc'[r] = "begin" /\ hold'[r] = {at[r]} /\ at'[r] = at[r]
      BY <2>1 DEF Goto, TypeInv, TypeOK
    <2> QED
      BY <2>1, <2>2, <2>3, <2>4, LockTaken DEF db
  <1>3. CASE at[r] \notin ActiveSids(mem[r].problem)
    <2>1. Goto(r, "lazy") /\ UNCHANGED <<db, at, mem, hold>>
      BY <1>3 DEF TurnLock
    <2>2. (\A q \in Req \ {r} : SameLocks(q)) /\ pc'[r] = "lazy" /\ hold'[r] = {}
      BY <1>1, <2>1 DEF SameLocks, Goto, TypeInv, TypeOK
    <2> QED
      BY <2>1, <2>2, LocksReleased DEF Locking, db
  <1> QED
    BY <1>2, <1>3

LEMMA TurnBeginLocks ==
  ASSUME TypeInv, LockInv, NEW r \in Req, TurnBegin(r)
  PROVE  LockInv'
  <1>1. CASE \E status : Fail(r, status)
    BY <1>1, FailLocks
  <1>2. CASE \E reply : Finish(r, "replay", reply) /\ UNCHANGED <<db, call>>
    BY <1>2, FinishLocks DEF db
  <1>3. CASE pc[r] = "begin" /\ Goto(r, "gate") /\ UNCHANGED <<db, call, resp, at, mem, hold, del>>
    <2>1. /\ \A q \in Req \ {r} : SameLocks(q)
          /\ pc'[r] = "gate" /\ UNCHANGED <<session, minted, at, mem, hold>>
      <3>1. pc' = [pc EXCEPT ![r] = "gate"] /\ UNCHANGED <<session, minted, at, mem, hold>>
        BY <1>3 DEF Goto, db
      <3> QED
        BY <3>1 DEF SameLocks, TypeInv, TypeOK
    <2>2. /\ hold[r] = {at[r]}
          /\ Pending(r) => ActiveSids(mem[r].problem) = {}
          /\ hold[r] \subseteq 1 .. minted /\ \A q \in Req \ {r} : hold[r] \cap hold[q] = {}
      BY <1>3 DEF LockInv, LocksExclusive, Locked, Locking
    <2>3. Pending(r)' <=> Pending(r)
      BY <1>3, <2>1 DEF Pending
    <2>4. ActiveSids(mem[r].problem)' = ActiveSids(mem[r].problem)
      BY <2>1 DEF ActiveSids
    <2>5. Locked(r)'
      BY <2>1, <2>2, <2>3, <2>4 DEF Locked, Locking
    <2> QED
      BY <2>1, <2>2, <2>3, <2>5, LocksWithoutWrites
  <1> QED
    BY <1>1, <1>2, <1>3 DEF TurnBegin, Replay

LEMMA CoachStreamLocks ==
  ASSUME TypeInv, LockInv, NEW r \in Req, CoachStream(r)
  PROVE  LockInv'
  <1>1. CASE Fail(r, "lost")
    BY <1>1, FailLocks
  <1>2. CASE ~ Fail(r, "lost")
    <2>1. pc[r] = "stream" /\ pc' = [pc EXCEPT ![r] = "write"] /\ UNCHANGED <<session, minted, at, mem, hold>>
      BY <1>2 DEF CoachStream, Goto, db
    <2>2. hold[r] = {}
      BY <2>1 DEF LockInv, Locked, Locking
    <2>3. (\A q \in Req \ {r} : SameLocks(q)) /\ pc'[r] = "write" /\ hold'[r] = {}
      BY <2>1, <2>2 DEF SameLocks, TypeInv, TypeOK
    <2> QED
      BY <2>1, <2>3, LocksReleased DEF Locking
  <1> QED
    BY <1>1, <1>2

LEMMA CoachWriteLocks ==
  ASSUME TypeInv, LockInv, NEW r \in Req, CoachWrite(r)
  PROVE  LockInv'
  <1>1. CASE Fail(r, "200")
    BY <1>1, FailLocks
  <1>2. CASE ~ Fail(r, "200")
    <2>1. pc[r] = "write" /\ pc' = [pc EXCEPT ![r] = "fk"] /\ UNCHANGED <<session, minted, at, mem, hold>>
      BY <1>2 DEF CoachWrite, Goto, db, txn
    <2>2. hold[r] = {}
      BY <2>1 DEF LockInv, Locked, Locking
    <2>3. (\A q \in Req \ {r} : SameLocks(q)) /\ pc'[r] = "fk" /\ hold'[r] = {}
      BY <2>1, <2>2 DEF SameLocks, TypeInv, TypeOK
    <2> QED
      BY <2>1, <2>3, LocksReleased DEF Locking
  <1> QED
    BY <1>1, <1>2

LEMMA CoachCommitLocks ==
  ASSUME TypeInv, LockInv, NEW r \in Req, CoachCommit(r)
  PROVE  LockInv'
  BY FinishLocks DEF CoachCommit

\* The lock by id taken, with the row in memory.
LEMMA LockByIdLocks ==
  ASSUME TypeInv, LockInv, NEW r \in Req, NEW op, LockById(r, op), session[at[r]] # NoRow,
         NEW label \in {"record", "sweep"}, Goto(r, label),
         mem' = [mem EXCEPT ![r] = session[at[r]]], hold' = [hold EXCEPT ![r] = {at[r]}],
         UNCHANGED <<db, at>>
  PROVE  LockInv'
  <1>1. at[r] \in Stored /\ Holders(r, at[r]) = {}
    BY DEF LockById, TypeInv, ReqInv, Placed, Stored
  <1>2. \A q \in Req \ {r} : SameLocks(q)
    BY DEF SameLocks, Goto, TypeInv, TypeOK
  <1>3. pc'[r] = label /\ hold'[r] = {at[r]} /\ at'[r] = at[r] /\ mem'[r] = session[at[r]]
    BY DEF Goto, TypeInv, TypeOK
  <1> QED
    BY <1>1, <1>2, <1>3, LockTaken DEF db

LEMMA ByokLockLocks ==
  ASSUME TypeInv, LockInv, NEW r \in Req, ByokLock(r)
  PROVE  LockInv'
  BY FailLocks, LockByIdLocks DEF ByokLock

LEMMA ResetLockLocks ==
  ASSUME TypeInv, LockInv, NEW r \in Req, ResetLock(r)
  PROVE  LockInv'
  BY FailLocks, LockByIdLocks DEF ResetLock

LEMMA ModelEchoLocks ==
  ASSUME TypeInv, LockInv, NEW r \in Req, ModelEcho(r)
  PROVE  LockInv'
  BY FailLocks DEF ModelEcho

LEMMA DeadlockAbortLocks ==
  ASSUME TypeInv, LockInv, NEW r \in Req, DeadlockAbort(r)
  PROVE  LockInv'
  BY FailLocks DEF DeadlockAbort

LEMMA SweepLocks ==
  ASSUME TypeInv, LockInv, NEW r \in Req, Sweep(r)
  PROVE  LockInv'
  <1>1. PICK s \in del[r] :
          /\ pc[r] = "sweep" /\ Holders(r, s) = {}
          /\ \/ hold' = hold
             \/ session[s] # NoRow /\ hold' = [hold EXCEPT ![r] = @ \cup {s}]
          /\ UNCHANGED <<session, minted, pc, at, mem>>
    BY DEF Sweep, StillDue, db
  <1>2. s \in Sid
    BY <1>1 DEF TypeInv, TypeOK
  <1>3. \A q \in Req \ {r} : SameLocks(q)
    BY <1>1 DEF SameLocks, TypeInv, TypeOK
  <1>4. hold'[r] = hold[r] \/ (s \in Stored /\ hold'[r] = hold[r] \cup {s})
    BY <1>1, <1>2 DEF TypeInv, TypeOK, Stored
  <1>5. \A q \in Req \ {r} : s \notin hold[q] /\ hold[r] \cap hold[q] = {}
    BY <1>1 DEF Holders, LockInv, LocksExclusive
  <1>6. \A q \in Req \ {r} : hold'[r] \cap hold[q] = {}
    BY <1>4, <1>5
  <1>7. hold'[r] \subseteq Stored /\ Stored \subseteq 1 .. minted
    BY <1>1, <1>4 DEF LockInv, LocksExclusive, Locked
  <1>8. Stored' = Stored
    BY <1>1 DEF Stored
  <1>9. ~ Pending(r)' /\ Locked(r)'
    BY <1>1, <1>7, <1>8 DEF Pending, Locked, Locking
  <1> QED
    BY <1>1, <1>3, <1>6, <1>7, <1>9, LocksWithoutWrites

LEMMA LapseLocks ==
  ASSUME TypeInv, LockInv, NEW s \in Sid, Lapse(s)
  PROVE  LockInv'
  <1>1. UNCHANGED <<session, minted, pc, at, mem, hold>>
    BY DEF Lapse, txn
  <1>2. /\ Stored' = Stored
        /\ \A r \in Req : (Pending(r)' <=> Pending(r)) /\ ActiveSids(mem[r].problem)' = ActiveSids(mem[r].problem)
    BY <1>1 DEF Stored, Pending, ActiveSids
  <1>3. LocksExclusive' /\ OneActive'
    BY <1>1, <1>2 DEF LockInv, LocksExclusive, OneActive
  <1>4. ASSUME NEW r \in Req PROVE Locked(r)'
    BY <1>1, <1>2 DEF LockInv, Locked
  <1> QED
    BY <1>1, <1>2, <1>3, <1>4 DEF LockInv

LEMMA CrashLocks ==
  ASSUME TypeInv, LockInv, Crash
  PROVE  LockInv'
  <1>1. /\ UNCHANGED <<session, minted>>
        /\ hold' = [r \in Req |-> {}]
        /\ \A r \in Req : pc'[r] \in {"idle", "done"}
    BY DEF Crash, db, InFlight
  <1>2. Stored' = Stored
    BY <1>1 DEF Stored
  <1>3. LocksExclusive' /\ OneActive'
    BY <1>1, <1>2 DEF LockInv, LocksExclusive, OneActive
  <1>4. ASSUME NEW r \in Req PROVE Locked(r)' /\ ~ Pending(r)'
    BY <1>1 DEF Locked, Pending, Locking
  <1> QED
    BY <1>3, <1>4 DEF LockInv

\* A pending session stays the only one of its problem when what a step makes active
\* is active already, or of another problem.
LEMMA PendingKept ==
  ASSUME LockInv, NEW q \in Req, Pending(q), mem'[q] = mem[q],
         \A s \in Stored' : session'[s].status = "active" /\ session'[s].problem = mem[q].problem
                              => s \in ActiveSids(mem[q].problem)
  PROVE  ActiveSids(mem[q].problem)' = {}
  <1>1. ActiveSids(mem[q].problem) = {}
    BY DEF LockInv, Locked
  <1> QED
    BY <1>1 DEF ActiveSids, Stored

\* A stored row is rewritten under its lock, and stays what it was to the index.
LEMMA RewriteLocks ==
  ASSUME TypeInv, LockInv, NEW r \in Req, \A q \in Req \ {r} : SameLocks(q),
         NEW s \in Stored, NEW row \in Row,
         session' = [session EXCEPT ![s] = row], minted' = minted,
         row.problem = session[s].problem,
         row.status = "active" => session[s].status = "active",
         \A q \in Req \ {r} : s \notin hold[q],
         hold'[r] = {}, pc'[r] \notin Locking
  PROVE  LockInv'
  <1>1. /\ session' \in [Sid -> Row \cup {NoRow}] /\ session \in [Sid -> Row \cup {NoRow}]
        /\ s \in Sid /\ session'[s] = row /\ row # NoRow
        /\ \A o \in Sid \ {s} : session'[o] = session[o]
    BY RowFields DEF TypeInv, TypeOK, Stored
  <1>2. Stored' = Stored
    BY <1>1 DEF Stored
  <1>3. /\ \A o \in Stored : session'[o].problem = session[o].problem
        /\ \A o \in Stored : session'[o].status = "active" => session[o].status = "active"
    BY <1>1 DEF Stored
  <1>4. OneActive'
    BY <1>2, <1>3 DEF LockInv, OneActive
  <1>5. ASSUME NEW q \in Req \ {r}, Pending(q) PROVE ActiveSids(mem[q].problem)' = {}
    <2>1. \A o \in Stored' : session'[o].status = "active" /\ session'[o].problem = mem[q].problem
                               => o \in ActiveSids(mem[q].problem)
      BY <1>2, <1>3 DEF ActiveSids, Stored
    <2> QED
      BY <1>5, <2>1, PendingKept DEF SameLocks
  <1>6. \A q \in Req \ {r} : \A o \in hold[q] : session'[o] = session[o] /\ o \notin hold'[r]
    <2>1. \A q \in Req : hold[q] \subseteq Sid
      BY DEF TypeInv, TypeOK
    <2> QED
      BY <1>1, <2>1
  <1>7. Locked(r)' /\ ~ Pending(r)'
    BY DEF Locked, Pending, Locking
  <1>8. minted \in Nat /\ Stored \subseteq 1 .. minted
    BY ServiceAssumption DEF TypeInv, TypeOK, LockInv, LocksExclusive
  <1> QED
    BY <1>2, <1>4, <1>5, <1>6, <1>7, <1>8, LocksKept

\* A row is stored that the index lets in: no active row and no pending one has its
\* problem.
LEMMA StoreLocks ==
  ASSUME TypeInv, LockInv, NEW r \in Req, \A q \in Req \ {r} : SameLocks(q),
         NEW s \in Sid, NEW row \in Row,
         session' = [session EXCEPT ![s] = row], minted' \in Nat, minted <= minted',
         s \in 1 .. minted',
         ActiveSids(row.problem) \subseteq {s},
         \A q \in Req \ {r} : Pending(q) => mem[q].problem # row.problem,
         \A q \in Req \ {r} : s \notin hold[q],
         hold'[r] = {}, pc'[r] \notin Locking
  PROVE  LockInv'
  <1>1. /\ session' \in [Sid -> Row \cup {NoRow}] /\ session \in [Sid -> Row \cup {NoRow}]
        /\ session'[s] = row /\ row # NoRow
        /\ \A o \in Sid \ {s} : session'[o] = session[o]
    BY RowFields DEF TypeInv, TypeOK
  <1>2. Stored' = Stored \cup {s}
    BY <1>1 DEF Stored
  <1>3. minted \in Nat /\ Stored \subseteq 1 .. minted
    BY ServiceAssumption DEF TypeInv, TypeOK, LockInv, LocksExclusive
  <1>4. Stored' \subseteq 1 .. minted'
    <2>1. 1 .. minted \subseteq 1 .. minted'
      BY <1>3
    <2> QED
      BY <1>2, <1>3, <2>1
  <1>5. \A o \in Stored' \ {s} : o \in Stored /\ session'[o] = session[o] /\ o \notin ActiveSids(row.problem)
    BY <1>1, <1>2 DEF Stored
  <1>6. OneActive'
    <2>1. SUFFICES ASSUME NEW a \in Stored', NEW b \in Stored', a # b,
                          session'[a].status = "active", session'[b].status = "active",
                          session'[a].problem = session'[b].problem
                   PROVE  FALSE
      BY DEF OneActive
    <2>2. CASE a # s /\ b # s
      BY <1>5, <2>1, <2>2 DEF LockInv, OneActive
    <2>3. CASE a = s
      BY <1>1, <1>5, <2>1, <2>3 DEF ActiveSids, Stored
    <2>4. CASE b = s
      BY <1>1, <1>5, <2>1, <2>4 DEF ActiveSids, Stored
    <2> QED
      BY <2>2, <2>3, <2>4
  <1>7. ASSUME NEW q \in Req \ {r}, Pending(q) PROVE ActiveSids(mem[q].problem)' = {}
    <2>1. \A o \in Stored' : session'[o].status = "active" /\ session'[o].problem = mem[q].problem
                               => o \in ActiveSids(mem[q].problem)
      BY <1>1, <1>5, <1>7 DEF ActiveSids, Stored
    <2> QED
      BY <1>7, <2>1, PendingKept DEF SameLocks
  <1>8. \A q \in Req \ {r} : \A o \in hold[q] : session'[o] = session[o] /\ o \notin hold'[r]
    <2>1. \A q \in Req : hold[q] \subseteq Sid
      BY DEF TypeInv, TypeOK
    <2> QED
      BY <1>1, <2>1
  <1>9. Locked(r)' /\ ~ Pending(r)'
    BY DEF Locked, Pending, Locking
  <1> QED
    BY <1>4, <1>6, <1>7, <1>8, <1>9, LocksKept

\* An id never drawn is in no one's hands.
LEMMA FreshSidIsFree ==
  ASSUME TypeInv, LockInv, minted < MaxSid
  PROVE  /\ minted \in Nat /\ minted + 1 \in Sid
         /\ session[minted + 1] = NoRow
         /\ \A q \in Req : minted + 1 \notin hold[q]
  <1>1. minted \in Nat /\ minted + 1 \in Sid /\ minted + 1 \notin 1 .. minted
    BY FreshSid, ServiceAssumption DEF TypeInv, TypeOK
  <1> QED
    BY <1>1 DEF LockInv, LocksExclusive, Stored

\* What an INSERT that waited for its blockers and did not clash knows.
LEMMA InsertIsClear ==
  ASSUME TypeInv, LockInv, NEW r \in Req, NEW problem,
         InsertBlockers(r, problem) = {}, ~ InsertClashes(problem)
  PROVE  /\ ActiveSids(problem) \subseteq Gone(r)
         /\ \A q \in Req \ {r} : Pending(q) => mem[q].problem # problem
  <1>1. \A q \in Req \ {r} : Gone(q) \cap ActiveSids(problem) = {}
    BY DEF InsertBlockers
  <1>2. \A s \in ActiveSids(problem) : \E q \in Req : s \in Gone(q)
    BY DEF InsertClashes
  <1>3. ASSUME NEW q \in Req \ {r}, Pending(q) PROVE mem[q].problem # problem
    <2>1. at[q] \in hold[q] /\ session[at[q]] = NoRow
      BY <1>3 DEF Pending, LockInv, Locked, Locking
    <2> QED
      BY <2>1 DEF InsertBlockers
  <1> QED
    BY <1>1, <1>2, <1>3

LEMMA CreateInsertLocks ==
  ASSUME TypeInv, LockInv, NEW r \in Req, CreateInsert(r)
  PROVE  LockInv'
  <1>1. CASE Fail(r, "500")
    BY <1>1, FailLocks
  <1>2. CASE ~ Fail(r, "500")
    <2>1. /\ pc[r] = "insert" /\ minted < MaxSid /\ minted' = minted + 1
          /\ session' = [session EXCEPT ![minted + 1] = mem[r]]
          /\ Finish(r, "200", NoTurn)
          /\ InsertBlockers(r, mem[r].problem) = {} /\ ~ InsertClashes(mem[r].problem)
      BY <1>2 DEF CreateInsert
    <2>2. mem[r] \in Row
      BY <2>1 DEF TypeInv, ReqInv
    <2>3. Gone(r) = {}
      BY <2>1 DEF Gone
    <2>4. minted' \in Nat /\ minted <= minted' /\ minted + 1 \in 1 .. minted'
      BY <2>1, FreshSidIsFree
    <2>5. ActiveSids(mem[r].problem) \subseteq {minted + 1}
      BY <2>1, <2>3, InsertIsClear
    <2> QED
      BY <2>1, <2>2, <2>4, <2>5, FinishLocks, FreshSidIsFree, InsertIsClear, StoreLocks DEF Locking
  <1> QED
    BY <1>1, <1>2

LEMMA LazyCreateLocks ==
  ASSUME TypeInv, LockInv, NEW r \in Req, TurnLazyCreate(r)
  PROVE  LockInv'
  <1>1. CASE Fail(r, "500")
    BY <1>1, FailLocks
  <1>2. CASE ~ Fail(r, "500")
    <2> DEFINE problem == mem[r].problem
    <2>1. /\ pc[r] = "lazy" /\ minted < MaxSid /\ minted' = minted + 1
          /\ at' = [at EXCEPT ![r] = minted + 1]
          /\ hold' = [hold EXCEPT ![r] = {minted + 1}]
          /\ \E track : mem' = [mem EXCEPT ![r] = FreshRow(problem, track, FALSE)]
          /\ pc' = [pc EXCEPT ![r] = "begin"] /\ session' = session
          /\ InsertBlockers(r, problem) = {} /\ ~ InsertClashes(problem)
      BY <1>2 DEF TurnLazyCreate, Goto
    <2>2. /\ Gone(r) = {}
          /\ minted \in Nat /\ session[minted + 1] = NoRow
          /\ \A q \in Req : minted + 1 \notin hold[q]
      BY <2>1, FreshSidIsFree DEF Gone
    <2>3. ActiveSids(problem) = {} /\ \A q \in Req \ {r} : Pending(q) => mem[q].problem # problem
      BY <2>1, <2>2, InsertIsClear
    <2>4. \A q \in Req \ {r} : SameLocks(q)
      BY <2>1 DEF SameLocks, TypeInv, TypeOK
    <2>5. /\ pc'[r] = "begin" /\ at'[r] = minted + 1 /\ hold'[r] = {minted + 1}
          /\ mem'[r].problem = problem
      BY <2>1 DEF FreshRow, TypeInv, TypeOK
    <2> HIDE DEF problem
    <2>6. Stored' = Stored /\ OneActive' /\ Stored \subseteq 1 .. minted
      <3>1. Stored' = Stored
        BY <2>1 DEF Stored
      <3> QED
        BY <2>1, <3>1 DEF OneActive, LockInv, LocksExclusive
    <2>7. Locked(r)'
      BY <2>1, <2>3, <2>5 DEF Locked, Locking, ActiveSids
    <2>8. ASSUME NEW q \in Req \ {r}, Pending(q) PROVE ActiveSids(mem[q].problem)' = {}
      BY <2>1, <2>4, <2>8 DEF LockInv, Locked, SameLocks, ActiveSids
    <2>9. /\ minted' \in Nat /\ minted <= minted' /\ hold'[r] \subseteq 1 .. minted'
          /\ 1 .. minted \subseteq 1 .. minted'
      BY <2>1, <2>2, <2>5
    <2>10. \A q \in Req \ {r} : \A s \in hold[q] : session'[s] = session[s] /\ s \notin hold'[r]
      BY <2>1, <2>2, <2>5
    <2> QED
      BY <2>3, <2>4, <2>5, <2>6, <2>7, <2>8, <2>9, <2>10, LocksKept
  <1> QED
    BY <1>1, <1>2

\* The judgement of a turn: of the session it created, of the one it locked, or of one
\* that its write makes active again.
LEMMA TurnGateLocks ==
  ASSUME TypeInv, LockInv, NEW r \in Req, TurnGate(r)
  PROVE  LockInv'
  <1>1. /\ pc[r] = "gate" /\ mem[r] \in Row /\ mem[r].version \in Nat
        /\ call[r] \in AnswerCall /\ at[r] \in Sid
    BY RowFields DEF TurnGate, TypeInv, ReqInv, Answering, Placed
  <1>2. CASE \E status : Fail(r, status)
    BY <1>2, FailLocks
  <1>3. CASE ~ \E status : Fail(r, status)
    <2> DEFINE base == IF session[at[r]] = NoRow THEN mem[r] ELSE session[at[r]]
    <2>1. PICK verdict \in Verdicts :
            /\ Revives(r, verdict) => /\ InsertBlockers(r, session[at[r]].problem) = {}
                                      /\ ~ InsertClashes(session[at[r]].problem)
            /\ RecordJudgement(r, verdict, "llm", base, <<>>)
            /\ \E row : mem' = [mem EXCEPT ![r] = row]
            /\ hold' = [hold EXCEPT ![r] = {}]
            /\ pc' = [pc EXCEPT ![r] = "flush"]
            /\ UNCHANGED at
      BY <1>3 DEF TurnGate, Goto
    <2> DEFINE state == Transition(StateOf(mem[r]), verdict)
               row   == WithProgress(base, state, mem[r].version + 1)
    <2>2. base \in Row /\ <<>> \in Seq(Message)
      BY <1>1 DEF TypeInv, TypeOK
    <2>3. session' = [session EXCEPT ![at[r]] = row] /\ minted' = minted
      BY <2>1 DEF RecordJudgement
    <2> HIDE DEF base
    <2>4. row \in Row /\ state \in SessionState
      BY <1>1, <2>1, <2>2, RecordTypes
    <2>5. mem[r].version + 1 \in Nat
      BY <1>1
    <2> HIDE DEF state
    <2>6. row.problem = base.problem /\ row.status = state.status
      BY <2>2, <2>4, <2>5, WithProgressType
    <2> HIDE DEF row
    <2>7. \A q \in Req \ {r} : SameLocks(q)
      BY <2>1 DEF SameLocks, TypeInv, TypeOK
    <2>8. hold'[r] = {} /\ pc'[r] \notin Locking
      BY <2>1 DEF TypeInv, TypeOK, Locking
    <2>9. /\ hold[r] = {at[r]} /\ at[r] \in 1 .. minted
          /\ \A q \in Req \ {r} : at[r] \notin hold[q]
      BY <1>1 DEF LockInv, LocksExclusive, Locked, Locking
    <2>10. minted' \in Nat /\ minted <= minted' /\ at[r] \in 1 .. minted'
      <3>1. minted \in Nat
        BY ServiceAssumption DEF TypeInv, TypeOK
      <3> QED
        BY <2>3, <2>9, <3>1
    <2>11. CASE session[at[r]] = NoRow
      <3>1. Pending(r) /\ base = mem[r]
        BY <1>1, <2>11 DEF Pending, base
      <3>2. ActiveSids(row.problem) = {} /\ \A q \in Req \ {r} : Pending(q) => mem[q].problem # row.problem
        BY <2>6, <3>1 DEF LockInv, Locked
      <3>3. ActiveSids(row.problem) \subseteq {at[r]}
        BY <3>2
      <3> QED
        BY <1>1, <2>3, <2>4, <2>7, <2>8, <2>9, <2>10, <3>2, <3>3, StoreLocks
    <2>12. CASE session[at[r]] # NoRow /\ Revives(r, verdict)
      <3>1. base = session[at[r]] /\ Gone(r) = {}
        BY <1>1, <2>12 DEF base, Gone
      <3>2. ActiveSids(row.problem) = {} /\ \A q \in Req \ {r} : Pending(q) => mem[q].problem # row.problem
        BY <2>1, <2>6, <2>12, <3>1, InsertIsClear
      <3>3. ActiveSids(row.problem) \subseteq {at[r]}
        BY <3>2
      <3> QED
        BY <1>1, <2>3, <2>4, <2>7, <2>8, <2>9, <2>10, <3>2, <3>3, StoreLocks
    <2>13. CASE session[at[r]] # NoRow /\ ~ Revives(r, verdict)
      <3>1. base = session[at[r]] /\ at[r] \in Stored
        BY <1>1, <2>13 DEF base, Stored
      <3>2. row.status = "active" => session[at[r]].status = "active"
        BY <2>2, <2>6, <2>13, <3>1, RowFields DEF Revives, state, SessionStatus
      <3> QED
        BY <2>3, <2>4, <2>6, <2>7, <2>8, <2>9, <3>1, <3>2, RewriteLocks
    <2> QED
      BY <2>11, <2>12, <2>13
  <1> QED
    BY <1>2, <1>3

LEMMA TurnFlushLocks ==
  ASSUME TypeInv, LockInv, NEW r \in Req, TurnFlush(r)
  PROVE  LockInv'
  <1>1. /\ pc[r] = "flush" /\ mem[r].version \in Nat /\ at[r] \in Sid
        /\ hold[r] = {} /\ \A q \in Req \ {r} : at[r] \notin hold[q]
    BY RowFields DEF TurnFlush, Holders, TypeInv, ReqInv, Answering, Placed, LockInv, Locked, Locking
  <1>2. CASE Fail(r, "500")
    BY <1>2, FailLocks
  <1>3. CASE ~ Fail(r, "500")
    <2> DEFINE row == [session[at[r]] EXCEPT !.version = mem[r].version]
    <2>1. /\ session[at[r]] # NoRow /\ minted' = minted
          /\ session' = [session EXCEPT ![at[r]] = row] \/ session' = session
          /\ \/ Finish(r, "503", NoTurn)
             \/ pc' = [pc EXCEPT ![r] = "stream"] /\ UNCHANGED <<at, mem, hold>>
      BY <1>3 DEF TurnFlush, Goto, txn
    <2>2. at[r] \in Stored /\ session[at[r]] \in Row
      BY <1>1, <2>1 DEF Stored, TypeInv, TypeOK
    <2>3. row \in Row /\ row.problem = session[at[r]].problem /\ row.status = session[at[r]].status
      BY <1>1, <2>2, OtherColumns, RowFields
    <2> HIDE DEF row
    <2>4. (\A q \in Req \ {r} : SameLocks(q)) /\ hold'[r] = {} /\ pc'[r] \in {"done", "stream"}
      <3>1. CASE Finish(r, "503", NoTurn)
        BY <3>1, FinishLocks
      <3>2. CASE pc' = [pc EXCEPT ![r] = "stream"] /\ UNCHANGED <<at, mem, hold>>
        BY <1>1, <3>2 DEF SameLocks, TypeInv, TypeOK
      <3> QED
        BY <2>1, <3>1, <3>2
    <2>5. CASE session' = [session EXCEPT ![at[r]] = row]
      BY <1>1, <2>1, <2>2, <2>3, <2>4, <2>5, RewriteLocks DEF Locking
    <2>6. CASE session' = session
      BY <2>1, <2>4, <2>6, LocksReleased DEF Locking
    <2> QED
      BY <2>1, <2>5, <2>6
  <1> QED
    BY <1>2, <1>3

LEMMA ModelSwitchLocks ==
  ASSUME TypeInv, LockInv, NEW r \in Req, ModelSwitch(r)
  PROVE  LockInv'
  <1>1. /\ pc[r] = "lock" /\ at[r] \in Sid /\ call[r].byok \in BOOLEAN
        /\ hold[r] = {} /\ \A q \in Req \ {r} : at[r] \notin hold[q]
    BY CallFields
       DEF ModelSwitch, LockById, Holders, TypeInv, ReqInv, Placed, LockInv, Locked, Locking
  <1>2. CASE \E status : Fail(r, status)
    BY <1>2, FailLocks
  <1>3. CASE ~ \E status : Fail(r, status)
    <2> DEFINE row == Switched(session[at[r]], call[r].byok)
    <2>1. /\ session[at[r]] # NoRow /\ minted' = minted
          /\ session' = [session EXCEPT ![at[r]] = row]
          /\ pc' = [pc EXCEPT ![r] = "echo"] /\ UNCHANGED <<at, mem, hold>>
      BY <1>3 DEF ModelSwitch, Goto, txn
    <2>2. at[r] \in Stored /\ session[at[r]] \in Row
      BY <1>1, <2>1 DEF Stored, TypeInv, TypeOK
    <2>3. row \in Row /\ row.problem = session[at[r]].problem /\ row.status = session[at[r]].status
      BY <1>1, <2>2, OtherColumns, RowFields
    <2> HIDE DEF row
    <2>4. (\A q \in Req \ {r} : SameLocks(q)) /\ hold'[r] = {} /\ pc'[r] = "echo"
      BY <1>1, <2>1 DEF SameLocks, TypeInv, TypeOK
    <2> QED
      BY <1>1, <2>1, <2>2, <2>3, <2>4, RewriteLocks DEF Locking
  <1> QED
    BY <1>2, <1>3

LEMMA ByokRecordLocks ==
  ASSUME TypeInv, LockInv, NEW r \in Req, ByokRecord(r)
  PROVE  LockInv'
  <1>1. /\ pc[r] = "record" /\ mem[r] \in Row /\ mem[r].version \in Nat
        /\ call[r] \in AnswerCall /\ at[r] \in Sid
    BY RowFields DEF ByokRecord, TypeInv, ReqInv, Answering, Placed
  <1>2. /\ session[at[r]] = mem[r] /\ hold[r] = {at[r]}
        /\ \A q \in Req \ {r} : at[r] \notin hold[q]
    BY <1>1 DEF LockInv, LocksExclusive, Locked, Locking
  <1>3. CASE \E status : Fail(r, status)
    BY <1>3, FailLocks
  <1>4. CASE \E reply : Finish(r, "replay", reply) /\ UNCHANGED <<db, call>>
    BY <1>4, FinishLocks DEF db
  <1>5. ASSUME NEW verdict \in Verdicts, Accepts(r),
               RecordJudgement(r, verdict, "byok", session[at[r]], <<ReplyMessage(r)>>),
               Finish(r, "200", call[r].turn)
        PROVE  LockInv'
    <2> DEFINE state == Transition(StateOf(mem[r]), verdict)
               row   == WithProgress(mem[r], state, mem[r].version + 1)
    <2>1. session' = [session EXCEPT ![at[r]] = row] /\ minted' = minted
      BY <1>2, <1>5 DEF RecordJudgement
    <2>2. <<ReplyMessage(r)>> \in Seq(Message)
      BY <1>1 DEF ReplyMessage, Message, AnswerCall
    <2>3. row \in Row /\ state \in SessionState
      BY <1>1, <1>2, <1>5, <2>2, RecordTypes
    <2>4. mem[r].version + 1 \in Nat /\ mem[r].status = "active" /\ at[r] \in Stored
      BY <1>1, <1>2, <1>5, RowFields DEF Accepts, SessionStatus, Stored
    <2> HIDE DEF state
    <2>5. row.problem = mem[r].problem
      BY <1>1, <2>3, <2>4, WithProgressType
    <2> HIDE DEF row
    <2>6. row.problem = session[at[r]].problem /\ session[at[r]].status = "active"
      BY <1>2, <2>4, <2>5
    <2>7. (\A q \in Req \ {r} : SameLocks(q)) /\ hold'[r] = {} /\ pc'[r] \notin Locking
      BY <1>5, FinishLocks DEF Locking
    <2> QED
      BY <1>2, <2>1, <2>3, <2>4, <2>6, <2>7, RewriteLocks
  <1> QED
    BY <1>3, <1>4, <1>5 DEF ByokRecord

\* The rows of a DELETE go, and nothing becomes active.
LEMMA DeleteCommitLocks ==
  ASSUME TypeInv, LockInv, NEW r \in Req, DeleteCommit(r)
  PROVE  LockInv'
  <1>1. /\ session' = [s \in Sid |-> IF s \in hold[r] THEN NoRow ELSE session[s]]
        /\ minted' = minted /\ Finish(r, "200", NoTurn)
    BY DEF DeleteCommit, CommitDelete
  <1>2. \A s \in Sid : session'[s] # NoRow => session'[s] = session[s] /\ session[s] # NoRow
    BY <1>1
  <1>3. /\ minted \in Nat /\ Stored \subseteq 1 .. minted
        /\ \A q \in Req \ {r} : hold[q] \cap hold[r] = {}
        /\ \A q \in Req : hold[q] \subseteq Sid
    BY ServiceAssumption DEF TypeInv, TypeOK, LockInv, LocksExclusive
  <1>4. (\A q \in Req \ {r} : SameLocks(q)) /\ hold'[r] = {} /\ pc'[r] = "done"
    BY <1>1, FinishLocks
  <1>5. Stored' \subseteq Stored /\ \A s \in Stored' : session'[s] = session[s]
    BY <1>2 DEF Stored
  <1>6. OneActive'
    BY <1>5 DEF OneActive, LockInv
  <1>7. ASSUME NEW q \in Req \ {r}, Pending(q) PROVE ActiveSids(mem[q].problem)' = {}
    <2>1. \A s \in Stored' : session'[s].status = "active" /\ session'[s].problem = mem[q].problem
                               => s \in ActiveSids(mem[q].problem)
      BY <1>5 DEF ActiveSids, Stored
    <2> QED
      BY <1>4, <1>7, <2>1, PendingKept DEF SameLocks
  <1>8. \A q \in Req \ {r} : \A s \in hold[q] : session'[s] = session[s] /\ s \notin hold'[r]
    BY <1>1, <1>3, <1>4
  <1>9. Locked(r)' /\ ~ Pending(r)'
    BY <1>4 DEF Locked, Pending, Locking
  <1> QED
    BY <1>1, <1>3, <1>4, <1>5, <1>6, <1>7, <1>8, <1>9, LocksKept

\* The rows of a problem go, and its fresh session comes.
LEMMA ResetCommitLocks ==
  ASSUME TypeInv, LockInv, NEW r \in Req, ResetCommit(r)
  PROVE  LockInv'
  <1>1. CASE Fail(r, "500")
    BY <1>1, FailLocks
  <1>2. CASE ~ Fail(r, "500")
    <2> DEFINE new == FreshRow(mem[r].problem, mem[r].track, mem[r].byok)
    <2>1. /\ pc[r] = "sweep" /\ minted < MaxSid /\ minted' = minted + 1
          /\ CommitDelete(hold[r], [s \in {minted + 1} |-> new])
          /\ Finish(r, "200", NoTurn)
          /\ InsertBlockers(r, mem[r].problem) = {} /\ ~ InsertClashes(mem[r].problem)
          /\ mem[r] \in Row
      BY <1>2 DEF ResetCommit, TypeInv, ReqInv
    <2>2. /\ minted \in Nat /\ minted + 1 \in Sid
          /\ session[minted + 1] = NoRow
          /\ \A q \in Req : minted + 1 \notin hold[q]
      BY <2>1, FreshSidIsFree
    <2>3. new.problem = mem[r].problem /\ new.status = "active" /\ new # NoRow
      BY <2>1, FreshRowType, RowFields
    <2> HIDE DEF new
    <2>4. session' = [s \in Sid |-> IF s \in hold[r] THEN NoRow
                                    ELSE IF s = minted + 1 THEN new ELSE session[s]]
      BY <2>1 DEF CommitDelete
    <2>5. (\A q \in Req \ {r} : SameLocks(q)) /\ hold'[r] = {} /\ pc'[r] = "done"
      BY <2>1, FinishLocks
    <2>6. /\ session'[minted + 1] = new /\ Stored' \subseteq Stored \cup {minted + 1}
          /\ \A s \in Stored' \ {minted + 1} :
               s \in Stored /\ session'[s] = session[s] /\ s \notin hold[r]
      BY <2>2, <2>4 DEF Stored
    <2>7. /\ ActiveSids(mem[r].problem) \subseteq hold[r]
          /\ \A q \in Req \ {r} : Pending(q) => mem[q].problem # mem[r].problem
      BY <2>1, InsertIsClear DEF Gone
    <2>8. OneActive'
      <3>1. \A s \in Stored' \ {minted + 1} :
              session'[s].status = "active" => session'[s].problem # new.problem
        BY <2>3, <2>6, <2>7 DEF ActiveSids, Stored
      <3>2. \A s, q \in Stored' \ {minted + 1} :
              session'[s].status = "active" /\ session'[q].status = "active"
                /\ session'[s].problem = session'[q].problem => s = q
        BY <2>6 DEF LockInv, OneActive
      <3> QED
        BY <2>6, <3>1, <3>2 DEF OneActive
    <2>9. ASSUME NEW q \in Req \ {r}, Pending(q) PROVE ActiveSids(mem[q].problem)' = {}
      <3>1. \A s \in Stored' : session'[s].status = "active" /\ session'[s].problem = mem[q].problem
                                 => s \in ActiveSids(mem[q].problem)
        BY <2>3, <2>6, <2>7, <2>9 DEF ActiveSids, Stored
      <3> QED
        BY <2>5, <2>9, <3>1, PendingKept DEF SameLocks
    <2>10. \A q \in Req \ {r} : hold[q] \cap hold[r] = {} /\ hold[q] \subseteq Sid
      BY DEF LockInv, LocksExclusive, TypeInv, TypeOK
    <2>11. \A q \in Req \ {r} : \A s \in hold[q] : session'[s] = session[s] /\ s \notin hold'[r]
      BY <2>2, <2>4, <2>5, <2>10
    <2>12. minted' \in Nat /\ minted <= minted' /\ 1 .. minted \subseteq 1 .. minted' /\ minted + 1 \in 1 .. minted'
      BY <2>1, <2>2
    <2>13. Stored' \subseteq 1 .. minted'
      BY <2>6, <2>12 DEF LockInv, LocksExclusive
    <2>14. Locked(r)' /\ ~ Pending(r)'
      BY <2>5 DEF Locked, Pending, Locking
    <2> QED
      BY <2>5, <2>8, <2>9, <2>11, <2>12, <2>13, <2>14, LocksKept
  <1> QED
    BY <1>1, <1>2

-------------------------------------------------------------------------------
(***************************************************************************)
(* The service.                                                            *)
(***************************************************************************)
IInv == TypeInv /\ LockInv

LEMMA InitRows ==
  ASSUME Init
  PROVE  /\ session \in [Sid -> Row \cup {NoRow}] /\ minted \in 0 .. MaxSid
         /\ Stored \subseteq 1 .. minted
         /\ OneActive
  <1>1. PICK seed \in Seeds :
          /\ session = [s \in Sid |-> IF s \in DOMAIN seed
                                      THEN FreshRow(seed[s].problem, seed[s].track, seed[s].byok)
                                      ELSE NoRow]
          /\ minted = Len(seed)
    BY DEF Init
  <1>2. /\ seed \in Seq([problem : Problem, track : Track, byok : BOOLEAN])
        /\ Len(seed) <= MaxSid /\ MaxSid \in Nat
        /\ \A s, q \in DOMAIN seed : seed[q].problem = seed[s].problem => q = s
    BY ServiceAssumption
  <1>3. DOMAIN seed = 1 .. minted /\ minted \in Nat
    BY <1>1, <1>2
  <1>4. ASSUME NEW s \in DOMAIN seed
        PROVE  seed[s].problem \in Problem /\ seed[s].track \in Track /\ seed[s].byok \in BOOLEAN
    <2> DEFINE Begun == [problem : Problem, track : Track, byok : BOOLEAN]
    <2>1. seed \in Seq(Begun)
      BY <1>2
    <2> HIDE DEF Begun
    <2>2. seed[s] \in Begun
      BY <2>1
    <2> QED
      BY <2>2 DEF Begun
  <1>5. \A s \in DOMAIN seed :
          LET row == FreshRow(seed[s].problem, seed[s].track, seed[s].byok)
          IN  row \in Row /\ row.problem = seed[s].problem
    BY <1>4, FreshRowType
  <1>6. Stored \subseteq DOMAIN seed
    BY <1>1 DEF Stored
  <1>7. \A s \in Stored : session[s].problem = seed[s].problem
    BY <1>1, <1>5, <1>6 DEF Stored
  <1>8. OneActive
    BY <1>2, <1>6, <1>7 DEF OneActive
  <1>9. session \in [Sid -> Row \cup {NoRow}]
    BY <1>1, <1>5
  <1> QED
    BY <1>1, <1>2, <1>3, <1>6, <1>8, <1>9

LEMMA InitInv ==
  ASSUME Init
  PROVE  IInv
  <1>1. TypeOK
    <2>1. message \in [Sid -> Seq(Message)] /\ gateCall \in [Sid -> SUBSET GateCall] /\ lapsed \subseteq Sid
      BY DEF Init
    <2>2. gate \in [Sid -> [Step -> GateRow \cup {NoGate}]]
      BY DEF Init, NoGates
    <2>3. pc \in [Req -> Labels] /\ call \in [Req -> Call \cup {NoCall}]
      BY DEF Init, Labels
    <2>4. resp \in [Req -> [status : Statuses, reply : Turn \cup {NoTurn}]]
      BY DEF Init, Statuses
    <2>5. at \in [Req -> Sid \cup {0}] /\ mem \in [Req -> Row \cup {NoRow}]
      BY DEF Init
    <2>6. hold \in [Req -> SUBSET Sid] /\ del \in [Req -> SUBSET Sid] /\ seq \in [Req -> Nat]
      BY DEF Init
    <2> QED
      BY <2>1, <2>2, <2>3, <2>4, <2>5, <2>6, InitRows DEF TypeOK
  <1>2. ASSUME NEW r \in Req
        PROVE  ReqInv(r) /\ Locked(r) /\ ~ Pending(r) /\ hold[r] = {}
    BY DEF Init, ReqInv, Locked, Pending, Answering, Placed, Locking
  <1> QED
    BY <1>1, <1>2, InitRows DEF IInv, TypeInv, LockInv, LocksExclusive

\* Every step keeps the invariant: one lemma for the types and one for the locks per
\* action.
LEMMA NextInv ==
  ASSUME IInv, [Next]_vars
  PROVE  IInv'
  <1> USE DEF IInv
  <1>1. ASSUME NEW r \in Req, Request(r)
        PROVE  IInv'
    <2>1. CASE Create(r)
      BY <2>1, CreateTypes, CreateLocks
    <2>2. CASE TurnRead(r)
      BY <2>2, TurnReadTypes, TurnReadLocks
    <2>3. CASE Address(r)
      BY <2>3, AddressTypes, AddressLocks
    <2>4. CASE DeleteScan(r)
      BY <2>4, DeleteScanTypes, DeleteScanLocks
    <2> QED
      BY <1>1, <2>1, <2>2, <2>3, <2>4 DEF Request
  <1>2. ASSUME NEW r \in Req, Handle(r)
        PROVE  IInv'
    <2>1. CASE CreateInsert(r)
      BY <2>1, CreateInsertTypes, CreateInsertLocks
    <2>2. CASE TurnScan(r)
      BY <2>2, TurnScanTypes, TurnScanLocks
    <2>3. CASE TurnLock(r)
      BY <2>3, TurnLockTypes, TurnLockLocks
    <2>4. CASE TurnLazyCreate(r)
      BY <2>4, LazyCreateTypes, LazyCreateLocks
    <2>5. CASE TurnBegin(r)
      BY <2>5, TurnBeginTypes, TurnBeginLocks
    <2>6. CASE TurnGate(r)
      BY <2>6, TurnGateTypes, TurnGateLocks
    <2>7. CASE TurnFlush(r)
      BY <2>7, TurnFlushTypes, TurnFlushLocks
    <2>8. CASE CoachStream(r)
      BY <2>8, CoachStreamTypes, CoachStreamLocks
    <2>9. CASE CoachWrite(r)
      BY <2>9, CoachWriteTypes, CoachWriteLocks
    <2>10. CASE CoachCommit(r)
      BY <2>10, CoachCommitTypes, CoachCommitLocks
    <2>11. CASE ByokLock(r)
      BY <2>11, ByokLockTypes, ByokLockLocks
    <2>12. CASE ByokRecord(r)
      <3>1. session[at[r]] # NoRow
        BY <2>12, RowFields DEF ByokRecord, LockInv, Locked, TypeInv, ReqInv, Answering
      <3> QED
        BY <2>12, <3>1, ByokRecordTypes, ByokRecordLocks
    <2>13. CASE ModelSwitch(r)
      BY <2>13, ModelSwitchTypes, ModelSwitchLocks
    <2>14. CASE ModelEcho(r)
      BY <2>14, ModelEchoTypes, ModelEchoLocks
    <2>15. CASE ResetLock(r)
      BY <2>15, ResetLockTypes, ResetLockLocks
    <2>16. CASE Sweep(r)
      BY <2>16, SweepTypes, SweepLocks
    <2>17. CASE DeleteCommit(r)
      BY <2>17, DeleteCommitTypes, DeleteCommitLocks
    <2>18. CASE ResetCommit(r)
      BY <2>18, ResetCommitTypes, ResetCommitLocks
    <2>19. CASE DeadlockAbort(r)
      BY <2>19, DeadlockAbortTypes, DeadlockAbortLocks
    <2>20. CASE GateRaises(r)
      BY <2>20, GateRaisesTypes, FailLocks DEF GateRaises
    <2> QED
      BY <1>2, <2>1, <2>2, <2>3, <2>4, <2>5, <2>6, <2>7, <2>8, <2>9, <2>10, <2>11, <2>12, <2>13,
         <2>14, <2>15, <2>16, <2>17, <2>18, <2>19, <2>20 DEF Handle
  <1>3. CASE \E s \in Sid : Lapse(s)
    BY <1>3, LapseTypes, LapseLocks
  <1>4. CASE Crash
    BY <1>4, CrashTypes, CrashLocks
  <1>5. CASE UNCHANGED vars
    <2>1. UNCHANGED <<db, pc, call, resp, txn, session, message, gate, gateCall, lapsed, minted,
                      at, mem, hold, del, seq>>
      BY <1>5 DEF vars, db, txn
    <2>2. TypeInv'
      BY <2>1 DEF TypeInv, TypeOK, ReqInv
    <2>3. LockInv'
      BY <2>1 DEF LockInv, LocksExclusive, OneActive, Stored, Locked, Pending, ActiveSids
    <2> QED
      BY <2>2, <2>3
  <1> QED
    BY <1>1, <1>2, <1>3, <1>4, <1>5 DEF Next, Quiet

\* The inductive invariant: types, the locks, and the one active session of a problem.
THEOREM ServiceInvariant == Spec => []IInv
  BY InitInv, NextInv, PTL DEF Spec

\* Type correctness of the service.
THEOREM ServiceTypeCorrect == Spec => []TypeOK
  <1>1. IInv => TypeOK
    BY DEF IInv, TypeInv
  <1> QED
    BY <1>1, ServiceInvariant, PTL

\* Two requests never hold the same row (repo.py:35-65), and no id is in use before it is
\* drawn, whatever interleaves.
THEOREM RowLocksExclude == Spec => []LocksExclusive
  <1>1. IInv => LocksExclusive
    BY DEF IInv, LockInv
  <1> QED
    BY <1>1, ServiceInvariant, PTL

\* A learner has at most one active session per problem, however creates, lazy creates,
\* resets, model switches, purges and turns race, crash and deadlock.
THEOREM OneActivePerProblem == Spec => []OneActive
  <1>1. IInv => OneActive
    BY DEF IInv, LockInv
  <1> QED
    BY <1>1, ServiceInvariant, PTL

-------------------------------------------------------------------------------
(***************************************************************************)
(* The purge.  What its DELETE has locked was lapsed when it was locked,   *)
(* and stays lapsed: only a request that has the row locked itself, or     *)
(* that waited for the purge to let go of it, slides its TTL.              *)
(***************************************************************************)
Purging(r) == pc[r] = "sweep" /\ call[r].op = "purge"

PurgeInv == \A r \in Req : Purging(r) => hold[r] \subseteq lapsed

LEMMA PurgeKept ==
  ASSUME TypeInv, PurgeInv, NEW r \in Req,
         \A q \in Req \ {r} : pc'[q] = pc[q] /\ call'[q] = call[q] /\ hold'[q] = hold[q],
         \A q \in Req \ {r} : hold[q] \cap lapsed \subseteq lapsed',
         Purging(r)' => hold'[r] \subseteq lapsed'
  PROVE  PurgeInv'
  BY DEF PurgeInv, Purging

\* A request that ends, and whose transaction slid no TTL but of rows it had to itself.
LEMMA FinishPurge ==
  ASSUME TypeInv, PurgeInv, NEW r \in Req, NEW status, NEW reply, Finish(r, status, reply),
         UNCHANGED call,
         \A q \in Req \ {r} : hold[q] \cap lapsed \subseteq lapsed'
  PROVE  PurgeInv'
  <1>1. pc' = [pc EXCEPT ![r] = "done"] /\ hold' = [hold EXCEPT ![r] = {}]
    BY DEF Finish, Respond, Release, Goto
  <1>2. /\ \A q \in Req \ {r} : pc'[q] = pc[q] /\ call'[q] = call[q] /\ hold'[q] = hold[q]
        /\ pc'[r] = "done"
    BY <1>1 DEF TypeInv, TypeOK
  <1> QED
    BY <1>2, PurgeKept DEF Purging

LEMMA FailPurge ==
  ASSUME TypeInv, PurgeInv, NEW r \in Req, NEW status, Fail(r, status)
  PROVE  PurgeInv'
  BY FinishPurge DEF Fail, db

\* A statement that slides no TTL and is no DELETE's.
LEMMA MovePurge ==
  ASSUME TypeInv, PurgeInv, NEW r \in Req, NEW label, label # "sweep",
         pc' = [pc EXCEPT ![r] = label], UNCHANGED call,
         hold' = hold \/ \E h : hold' = [hold EXCEPT ![r] = h],
         \A q \in Req \ {r} : hold[q] \cap lapsed \subseteq lapsed'
  PROVE  PurgeInv'
  <1>1. /\ \A q \in Req \ {r} : pc'[q] = pc[q] /\ call'[q] = call[q] /\ hold'[q] = hold[q]
        /\ pc'[r] = label
    BY DEF TypeInv, TypeOK
  <1> QED
    BY <1>1, PurgeKept DEF Purging

\* A request that arrives holds nothing.
LEMMA RequestPurge ==
  ASSUME TypeInv, LockInv, PurgeInv, NEW r \in Req, Request(r)
  PROVE  PurgeInv'
  <1>1. /\ pc[r] = "idle" /\ UNCHANGED <<hold, lapsed>>
        /\ \E c : call' = [call EXCEPT ![r] = c]
        /\ \E label : pc' = [pc EXCEPT ![r] = label]
    BY DEF Request, Create, TurnRead, Address, DeleteScan, Arrive, Refuse, Respond, Goto, db, txn
  <1>2. hold[r] = {}
    BY <1>1 DEF LockInv, Locked, Locking
  <1>3. \A q \in Req \ {r} : pc'[q] = pc[q] /\ call'[q] = call[q] /\ hold'[q] = hold[q]
    BY <1>1 DEF TypeInv, TypeOK
  <1> QED
    BY <1>1, <1>2, <1>3, PurgeKept

LEMMA HandlePurge ==
  ASSUME TypeInv, LockInv, PurgeInv, NEW r \in Req, Handle(r)
  PROVE  PurgeInv'
  <1> DEFINE Spared == \A q \in Req \ {r} : hold[q] \cap lapsed \subseteq lapsed'
  <1>1. CASE \E status : Fail(r, status)
    BY <1>1, FailPurge
  <1>2. CASE \E status, reply : Finish(r, status, reply) /\ UNCHANGED <<lapsed, call>>
    BY <1>2, FinishPurge
  <1>3. CASE /\ \E label : label # "sweep" /\ pc' = [pc EXCEPT ![r] = label]
             /\ hold' = hold \/ \E h : hold' = [hold EXCEPT ![r] = h]
             /\ UNCHANGED <<lapsed, call>>
    BY <1>3, MovePurge
  <1>4. ASSUME NEW verdict, NEW judge, NEW base, NEW replies,
               RecordJudgement(r, verdict, judge, base, replies), pc[r] \in {"gate", "record"}
        PROVE  Spared
    <2>1. lapsed' = lapsed \ {at[r]}
      BY <1>4 DEF RecordJudgement
    <2>2. \A q \in Req \ {r} : at[r] \notin hold[q]
      BY <1>4 DEF LockInv, LocksExclusive, Locked, Locking
    <2> QED
      BY <2>1, <2>2
  <1>5. CASE TurnGate(r) /\ ~ \E status : Fail(r, status)
    <2>1. /\ pc' = [pc EXCEPT ![r] = "flush"] /\ call' = call
          /\ hold' = [hold EXCEPT ![r] = {}]
          /\ pc[r] = "gate"
          /\ \E verdict, base : RecordJudgement(r, verdict, "llm", base, <<>>)
      BY <1>5 DEF TurnGate, Goto
    <2> QED
      BY <1>4, <2>1, MovePurge
  <1>6. CASE ByokRecord(r)
    BY <1>1, <1>2, <1>4, <1>6, FinishPurge DEF ByokRecord, db
  <1>7. CASE ModelSwitch(r) /\ ~ \E status : Fail(r, status)
    <2>1. /\ pc' = [pc EXCEPT ![r] = "echo"] /\ call' = call /\ hold' = hold
          /\ lapsed' = lapsed \ {at[r]}
          /\ \A q \in Req \ {r} : at[r] \notin hold[q]
      BY <1>7 DEF ModelSwitch, LockById, Holders, Goto, txn
    <2>2. Spared
      BY <2>1
    <2> QED
      BY <2>1, <2>2, MovePurge
  <1>8. CASE ResetLock(r) /\ ~ \E status : Fail(r, status)
    <2>1. /\ pc' = [pc EXCEPT ![r] = "sweep"] /\ call' = call /\ call[r].op = "reset"
          /\ hold' = [hold EXCEPT ![r] = {at[r]}] /\ lapsed' = lapsed
      BY <1>8 DEF ResetLock, LockById, Goto, db
    <2>2. \A q \in Req \ {r} : pc'[q] = pc[q] /\ call'[q] = call[q] /\ hold'[q] = hold[q]
      BY <2>1 DEF TypeInv, TypeOK
    <2> QED
      BY <2>1, <2>2, PurgeKept DEF Purging
  <1>9. CASE Sweep(r)
    <2>1. PICK s \in del[r] :
            hold' = IF StillDue(r, s) THEN [hold EXCEPT ![r] = @ \cup {s}] ELSE hold
      BY <1>9 DEF Sweep
    <2>2. UNCHANGED <<pc, call, lapsed>>
      BY <1>9 DEF Sweep, db
    <2>3. \A q \in Req \ {r} : hold'[q] = hold[q]
      BY <2>1 DEF TypeInv, TypeOK
    <2>4. Purging(r)' => hold'[r] \subseteq lapsed'
      <3>1. SUFFICES ASSUME Purging(r) PROVE hold'[r] \subseteq lapsed
        BY <2>2 DEF Purging
      <3>2. hold[r] \subseteq lapsed /\ StillDue(r, s) => s \in lapsed
        BY <3>1 DEF PurgeInv, Purging, StillDue
      <3>3. hold[r] \subseteq lapsed
        BY <3>1 DEF PurgeInv
      <3> QED
        BY <2>1, <3>2, <3>3 DEF TypeInv, TypeOK
    <2> QED
      BY <2>2, <2>3, <2>4, PurgeKept
  <1>10. CASE (DeleteCommit(r) \/ ResetCommit(r)) /\ ~ \E status : Fail(r, status)
    <2>1. /\ lapsed' = lapsed \ hold[r]
          /\ \E status, reply : Finish(r, status, reply) /\ UNCHANGED call
      BY <1>10 DEF DeleteCommit, ResetCommit, CommitDelete
    <2>2. Spared
      BY <2>1 DEF LockInv, LocksExclusive
    <2> QED
      BY <2>1, <2>2, FinishPurge
  <1>11. CASE TurnScan(r) \/ TurnLock(r) \/ TurnBegin(r)
    BY <1>1, <1>2, <1>3, <1>11 DEF TurnScan, TurnLock, TurnBegin, Replay, Goto, db
  <1>12. CASE CreateInsert(r) \/ TurnLazyCreate(r) \/ TurnFlush(r)
    BY <1>1, <1>2, <1>3, <1>12 DEF CreateInsert, TurnLazyCreate, TurnFlush, Goto, txn
  <1>13. CASE CoachStream(r) \/ CoachWrite(r) \/ CoachCommit(r)
    BY <1>1, <1>2, <1>3, <1>13 DEF CoachStream, CoachWrite, CoachCommit, Goto, db, txn
  <1>14. CASE ByokLock(r) \/ ModelEcho(r) \/ DeadlockAbort(r) \/ GateRaises(r)
    BY <1>1, <1>3, <1>14 DEF ByokLock, ModelEcho, DeadlockAbort, GateRaises, Goto, db
  <1> QED
    BY <1>1, <1>5, <1>6, <1>7, <1>8, <1>9, <1>10, <1>11, <1>12, <1>13, <1>14 DEF Handle

LEMMA SurroundingsPurge ==
  ASSUME PurgeInv, Crash \/ (\E s \in Sid : Lapse(s)) \/ UNCHANGED vars
  PROVE  PurgeInv'
  <1>1. CASE Crash
    BY <1>1 DEF Crash, PurgeInv, Purging, InFlight
  <1>2. CASE \E s \in Sid : Lapse(s)
    BY <1>2 DEF Lapse, PurgeInv, Purging, txn
  <1>3. CASE UNCHANGED vars
    BY <1>3 DEF vars, db, txn, PurgeInv, Purging
  <1> QED
    BY <1>1, <1>2, <1>3

\* The purge commits the deletion of lapsed sessions only, whatever slid a TTL while its
\* DELETE was waiting (purge.py:18-21).
THEOREM PurgeSparesActiveSessions == Spec => PurgeSparesActivity
  <1>1. Init => PurgeInv
    BY DEF Init, PurgeInv, Purging
  <1>2. IInv /\ PurgeInv /\ [Next]_vars => PurgeInv'
    BY RequestPurge, HandlePurge, SurroundingsPurge DEF IInv, Next, Quiet
  <1>3. PurgeInv =>
          \A r \in Req : DeleteCommit(r) /\ call[r].op = "purge" =>
            \A s \in Stored : session'[s] = NoRow => s \in lapsed
    <2>1. SUFFICES ASSUME PurgeInv, NEW r \in Req, DeleteCommit(r), call[r].op = "purge",
                          NEW s \in Stored, session'[s] = NoRow
                   PROVE  s \in lapsed
      OBVIOUS
    <2>2. hold[r] \subseteq lapsed
      BY <2>1 DEF PurgeInv, Purging, DeleteCommit
    <2>3. s \in hold[r]
      BY <2>1 DEF DeleteCommit, CommitDelete, Stored
    <2> QED
      BY <2>2, <2>3
  <1> QED
    BY <1>1, <1>2, <1>3, ServiceInvariant, PTL DEF Spec, PurgeSparesActivity
===============================================================================
