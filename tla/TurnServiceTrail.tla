--------------------------- MODULE TurnServiceTrail ---------------------------
(***************************************************************************)
(* The transcript and the audit trail of TurnService, proved for every     *)
(* number of requests, sessions, problems and ladders: every answer has    *)
(* its one audit row, no turn is judged twice, and a reply stands behind   *)
(* the answer it replies to.                                               *)
(***************************************************************************)
EXTENDS TurnServiceProofs

-------------------------------------------------------------------------------
(***************************************************************************)
(* What a step does.  The actions differ in the path they stand for; to    *)
(* what is committed, and to what a request is about to do with it, they   *)
(* are of the few kinds below.                                             *)
(***************************************************************************)
Records == <<message, gate, gateCall>>

\* r is a server-judged turn that has read a session and not yet judged the answer.
Reading(r) ==
  pc[r] \in {"scan", "lazy", "begin", "gate"} \/ (pc[r] = "lock" /\ call[r].op = "turn")

\* The others stay where they are, and r is asked nothing new once it has arrived.
OthersWait(r) ==
  /\ \A q \in Req \ {r} : Same(q)
  /\ call'[r] = call[r] \/ pc[r] = "idle"

\* A request arrives: to insert a session, or with a session it has found.
Arrives(r) ==
  /\ pc[r] = "idle" /\ call'[r] \in Offered[r]
  /\ \/ pc'[r] = "insert" /\ \E c \in Offered[r] : c.op = "create" /\ mem'[r] = FreshRow(c.problem, c.track, c.byok)
     \/ /\ pc'[r] = "scan" /\ call'[r].sid \in Stored
        /\ ~ session[call'[r].sid].byok /\ mem'[r] = session[call'[r].sid]
     \/ pc'[r] = "lock" /\ call'[r].op # "turn" /\ at'[r] \in Stored
     \/ pc'[r] = "sweep" /\ call'[r].op # "reset"

\* A request that has a session in memory goes on to its next statement.
GoesOn(r) ==
  /\ call'[r] = call[r]
  /\ \/ pc[r] = "scan" /\ pc'[r] = "lock" /\ mem'[r] = mem[r] /\ at'[r] \in Stored
     \/ Reading(r) /\ pc'[r] = "lazy"
     \/ /\ pc[r] = "lock" /\ pc'[r] = "begin" /\ Reading(r) /\ at'[r] = at[r] /\ at[r] \in Stored
        /\ mem'[r] = IF at[r] = call[r].sid THEN mem[r] ELSE session[at[r]]
     \/ /\ pc[r] = "begin" /\ pc'[r] = "gate" /\ at'[r] = at[r] /\ mem'[r] = mem[r]
        /\ Accepts(r) /\ ~ Recorded(at[r], call[r].turn)
     \/ /\ pc[r] = "lock" /\ pc'[r] \in {"record", "sweep"} /\ at'[r] = at[r] /\ at[r] \in Stored
        /\ mem'[r] = session[at[r]]
     \/ pc[r] = "sweep" /\ pc'[r] = "sweep" /\ mem'[r] = mem[r]
     \/ pc[r] \in {"stream", "write"} /\ pc'[r] \in {"write", "fk"} /\ at'[r] = at[r]

\* Nothing is committed: r ends, arrives or goes on.
Moves(r) ==
  /\ UNCHANGED <<session, minted, Records>>
  /\ pc'[r] = "done" \/ Arrives(r) \/ GoesOn(r)

\* The write that a flush commits with the grounding audit row, or rolls back.
Flushes(r) ==
  /\ pc[r] = "flush" /\ session[at[r]] # NoRow
  /\ pc'[r] = "done" \/ (pc'[r] = "stream" /\ at'[r] = at[r] /\ call'[r] = call[r])
  /\ session' = session \/ (TRUE \in Citations
                            /\ session' = [session EXCEPT ![at[r]].version = mem[r].version])
  /\ UNCHANGED <<minted, Records>>

\* A session of a new id: pending, or committed.
Conjures(r) ==
  /\ pc[r] = "lazy" /\ pc'[r] = "begin"
  /\ minted < MaxSid /\ minted' = minted + 1 /\ at'[r] = minted + 1 /\ call'[r] = call[r]
  /\ mem'[r] = FreshRow(mem[r].problem, TrackOf(call[r].step), FALSE)
  /\ UNCHANGED <<session, Records>>

Inserts(r) ==
  /\ pc[r] = "insert" /\ pc'[r] = "done"
  /\ minted < MaxSid /\ minted' = minted + 1
  /\ session' = [session EXCEPT ![minted + 1] = mem[r]]
  /\ UNCHANGED Records

Switches(r) ==
  /\ pc[r] = "lock" /\ call[r].op = "model" /\ Holders(r, at[r]) = {}
  /\ pc'[r] = "echo" /\ at'[r] = at[r]
  /\ session[at[r]] # NoRow
  /\ session' = [session EXCEPT ![at[r]] = Switched(@, call[r].byok)]
  /\ UNCHANGED <<minted, Records>>

ServerJudges(r) ==
  /\ pc[r] = "gate" /\ pc'[r] = "flush" /\ at'[r] = at[r] /\ call'[r] = call[r]
  /\ VersionMatches(r)
  /\ \E verdict \in Verdicts :
       RecordJudgement(r, verdict, "llm", IF session[at[r]] = NoRow THEN mem[r] ELSE session[at[r]], <<>>)

ClientJudges(r) ==
  /\ pc[r] = "record" /\ pc'[r] = "done"
  /\ ~ OverCap(at[r]) /\ ~ Recorded(at[r], call[r].turn) /\ Accepts(r) /\ session[at[r]] = mem[r]
  /\ \E verdict \in Verdicts :
       RecordJudgement(r, verdict, "byok", session[at[r]], <<ReplyMessage(r)>>)

Replies(r) ==
  /\ pc[r] = "fk" /\ pc'[r] = "done"
  /\ Holders(r, at[r]) = {} /\ session[at[r]] # NoRow
  /\ message' = [message EXCEPT ![at[r]] = Append(@, ReplyMessage(r))]
  /\ UNCHANGED <<session, minted, gate, gateCall>>

Deletes(r) ==
  /\ pc[r] = "sweep" /\ pc'[r] = "done"
  /\ \/ CommitDelete(hold[r], <<>>) /\ minted' = minted
     \/ /\ minted < MaxSid /\ minted' = minted + 1 /\ call[r].op = "reset"
        /\ CommitDelete(hold[r], [s \in {minted + 1} |->
                                    FreshRow(mem[r].problem, mem[r].track, mem[r].byok)])

\* Time passes, or the process dies.
Weathers ==
  /\ UNCHANGED <<session, minted, Records, call>>
  /\ \A q \in Req : Same(q) \/ pc'[q] = "done" \/ (pc[q] = "idle" /\ pc'[q] = "idle")

StepOf(r) ==
  /\ OthersWait(r)
  /\ \/ Moves(r) \/ Flushes(r) \/ Conjures(r) \/ Inserts(r) \/ Switches(r)
     \/ ServerJudges(r) \/ ClientJudges(r) \/ Replies(r) \/ Deletes(r)

\* One place of the handlers changes.
LEMMA OnePlace ==
  ASSUME TypeInv, NEW r \in Req, NEW label, pc' = [pc EXCEPT ![r] = label]
  PROVE  pc'[r] = label /\ \A q \in Req \ {r} : pc'[q] = pc[q]
  BY DEF TypeInv, TypeOK

\* A request that ends.
LEMMA FinishKind ==
  ASSUME TypeInv, NEW r \in Req, NEW status, NEW reply, Finish(r, status, reply), UNCHANGED call
  PROVE  OthersWait(r) /\ pc'[r] = "done"
  BY OnePlace DEF Finish, Respond, Release, Goto, OthersWait, Same, TypeInv, TypeOK

LEMMA FailKind ==
  ASSUME TypeInv, NEW r \in Req, NEW status, Fail(r, status)
  PROVE  StepOf(r)
  <1>1. OthersWait(r) /\ pc'[r] = "done" /\ UNCHANGED <<session, minted, Records>>
    BY FinishKind DEF Fail, db, Records
  <1> QED
    BY <1>1 DEF StepOf, Moves

LEMMA RequestKind ==
  ASSUME TypeInv, NEW r \in Req, Request(r)
  PROVE  StepOf(r)
  <1>1. PICK c \in Offered[r] : Arrive(r, c) /\ UNCHANGED <<session, minted, Records>> /\ c \in Call
    BY OfferedCalls DEF Request, Create, TurnRead, Address, DeleteScan, Refuse, db, Records
  <1>2. pc[r] = "idle" /\ call'[r] = c /\ \A q \in Req \ {r} : call'[q] = call[q]
    BY <1>1 DEF Arrive, TypeInv, TypeOK
  <1>3. CASE \E status : Refuse(r, status)
    <2>1. OthersWait(r) /\ pc'[r] = "done"
      BY <1>2, <1>3, OnePlace DEF Refuse, Respond, Goto, txn, OthersWait, Same
    <2> QED
      BY <1>1, <2>1 DEF StepOf, Moves
  <1>4. CASE ~ \E status : Refuse(r, status)
    <2>1. CASE Create(r)
      <3>1. PICK d \in Offered[r] : 
              /\ d.op = "create" /\ Goto(r, "insert") /\ at' = at
              /\ mem' = [mem EXCEPT ![r] = FreshRow(d.problem, d.track, d.byok)]
        BY <1>4, <2>1 DEF Create
      <3>2. /\ mem'[r] = FreshRow(d.problem, d.track, d.byok) /\ pc'[r] = "insert"
            /\ \A q \in Req \ {r} : Same(q)
        BY <1>2, <3>1, OnePlace DEF Goto, Same, TypeInv, TypeOK
      <3> QED
        BY <1>1, <1>2, <3>1, <3>2 DEF StepOf, Moves, Arrives, OthersWait
    <2>2. CASE TurnRead(r)
      <3>1. PICK d \in Offered[r] :
              /\ d.op = "turn" /\ Arrive(r, d) /\ session[d.sid] # NoRow /\ ~ session[d.sid].byok
              /\ at' = [at EXCEPT ![r] = d.sid] /\ mem' = [mem EXCEPT ![r] = session[d.sid]]
              /\ Goto(r, "scan")
        BY <1>4, <2>2 DEF TurnRead
      <3>2. d \in Call /\ call'[r] = d
        BY <3>1, OfferedCalls DEF Arrive, TypeInv, TypeOK
      <3>3. d.sid \in Stored
        BY <3>1, <3>2, CallFields DEF AnswerCall, Stored
      <3>4. mem'[r] = session[d.sid] /\ pc'[r] = "scan" /\ \A q \in Req \ {r} : Same(q)
        BY <1>2, <3>1, OnePlace DEF Goto, Same, TypeInv, TypeOK
      <3> QED
        BY <1>1, <1>2, <3>1, <3>2, <3>3, <3>4 DEF StepOf, Moves, Arrives, OthersWait
    <2>3. CASE Address(r)
      <3>1. PICK d \in Offered[r] :
              /\ d.op \in {"byok", "model", "reset"} /\ Arrive(r, d) /\ session[d.sid] # NoRow
              /\ at' = [at EXCEPT ![r] = d.sid] /\ mem' = mem /\ Goto(r, "lock")
        BY <1>4, <2>3 DEF Address
      <3>2. d \in Call /\ call'[r] = d
        BY <3>1, OfferedCalls DEF Arrive, TypeInv, TypeOK
      <3>3. d.sid \in Stored
        BY <3>1, <3>2, CallFields DEF AnswerCall, Stored
      <3>4. at'[r] = d.sid /\ pc'[r] = "lock" /\ \A q \in Req \ {r} : Same(q)
        BY <1>2, <3>1, OnePlace DEF Goto, Same, TypeInv, TypeOK
      <3> QED
        BY <1>1, <1>2, <3>1, <3>2, <3>3, <3>4 DEF StepOf, Moves, Arrives, OthersWait
    <2>4. CASE DeleteScan(r)
      <3>1. PICK d \in Offered[r] :
              /\ d.op \in {"clear", "purge"} /\ Arrive(r, d) /\ UNCHANGED <<at, mem>> /\ Goto(r, "sweep")
        BY <2>4 DEF DeleteScan
      <3>2. call'[r] = d /\ pc'[r] = "sweep" /\ \A q \in Req \ {r} : Same(q)
        BY <1>2, <3>1, OnePlace DEF Arrive, Goto, Same, TypeInv, TypeOK
      <3> QED
        BY <1>1, <1>2, <3>1, <3>2 DEF StepOf, Moves, Arrives, OthersWait
    <2> QED
      BY <2>1, <2>2, <2>3, <2>4 DEF Request
  <1> QED
    BY <1>3, <1>4

\* The statements of a request that commit nothing.
LEMMA MoveKind ==
  ASSUME IInv, NEW r \in Req,
         TurnScan(r) \/ TurnLock(r) \/ TurnBegin(r) \/ CoachStream(r) \/ CoachWrite(r) \/ ByokLock(r)
           \/ ResetLock(r) \/ Sweep(r)
  PROVE  StepOf(r)
  <1> USE DEF IInv
  <1>1. CASE \E status : Fail(r, status)
    BY <1>1, FailKind
  <1>2. CASE \E reply : Finish(r, "replay", reply) /\ UNCHANGED <<db, call>>
    BY <1>2, FinishKind DEF StepOf, Moves, db, Records
  <1>3. CASE TurnScan(r)
    <2>1. /\ pc[r] = "scan" /\ UNCHANGED <<session, minted, Records, call, mem>>
          /\ \/ Goto(r, "lazy") /\ at' = at
             \/ Goto(r, "lock") /\ \E s \in ActiveSids(mem[r].problem) : at' = [at EXCEPT ![r] = s]
      BY <1>3 DEF TurnScan, db, Records
    <2>2. \A q \in Req \ {r} : Same(q)
      BY <2>1, OnePlace DEF Goto, Same, TypeInv, TypeOK
    <2>3. pc'[r] = "lazy" \/ (pc'[r] = "lock" /\ at'[r] \in Stored)
      BY <2>1, OnePlace DEF Goto, TypeInv, TypeOK, ActiveSids, Stored
    <2> QED
      BY <2>1, <2>2, <2>3 DEF StepOf, Moves, GoesOn, OthersWait, Reading
  <1>4. CASE TurnLock(r)
    <2>1. /\ pc[r] = "lock" /\ call[r].op = "turn" /\ UNCHANGED <<session, minted, Records, call, at>>
          /\ \/ /\ Goto(r, "begin") /\ at[r] \in Stored
                /\ mem' = IF at[r] = call[r].sid THEN mem ELSE [mem EXCEPT ![r] = session[at[r]]]
             \/ Goto(r, "lazy") /\ mem' = mem
      BY <1>4 DEF TurnLock, db, Records, ActiveSids, Stored
    <2>2. \A q \in Req \ {r} : Same(q)
      BY <2>1, OnePlace DEF Goto, Same, TypeInv, TypeOK
    <2>3. \/ pc'[r] = "lazy"
          \/ /\ pc'[r] = "begin" /\ at[r] \in Stored
             /\ mem'[r] = IF at[r] = call[r].sid THEN mem[r] ELSE session[at[r]]
      BY <2>1, OnePlace DEF Goto, TypeInv, TypeOK
    <2> QED
      BY <2>1, <2>2, <2>3 DEF StepOf, Moves, GoesOn, OthersWait, Reading
  <1>5. CASE TurnBegin(r) /\ Goto(r, "gate")
    <2>1. /\ pc[r] = "begin" /\ UNCHANGED <<session, minted, Records, call, at, mem>> /\ Goto(r, "gate")
          /\ Accepts(r) /\ ~ Recorded(at[r], call[r].turn)
      <3>1. pc'[r] = "gate"
        BY <1>5, OnePlace DEF Goto
      <3>2. \A status : ~ Fail(r, status)
        BY <3>1, OnePlace DEF Fail, Finish, Respond, Goto
      <3>3. \A status, reply : ~ Finish(r, status, reply)
        BY <3>1, OnePlace DEF Finish, Respond, Goto
      <3> QED
        BY <1>5, <3>2, <3>3 DEF TurnBegin, Replay, db, Records
    <2>2. (\A q \in Req \ {r} : Same(q)) /\ pc'[r] = "gate"
      BY <2>1, OnePlace DEF Goto, Same
    <2> QED
      BY <2>1, <2>2 DEF StepOf, Moves, GoesOn, OthersWait
  <1>6. CASE CoachStream(r) \/ CoachWrite(r)
    <2>1. CASE ~ \E status : Fail(r, status)
      <3>1. /\ pc[r] \in {"stream", "write"} /\ UNCHANGED <<session, minted, Records, call, at, mem>>
            /\ Goto(r, "write") \/ Goto(r, "fk")
        BY <1>6, <2>1 DEF CoachStream, CoachWrite, db, txn, Records
      <3>2. (\A q \in Req \ {r} : Same(q)) /\ pc'[r] \in {"write", "fk"}
        BY <3>1, OnePlace DEF Goto, Same
      <3> QED
        BY <3>1, <3>2 DEF StepOf, Moves, GoesOn, OthersWait
    <2> QED
      BY <1>1, <2>1
  <1>7. CASE ByokLock(r) \/ ResetLock(r)
    <2>1. CASE ~ \E status : Fail(r, status)
      <3>1. /\ pc[r] = "lock" /\ session[at[r]] # NoRow /\ UNCHANGED <<session, minted, Records, call, at>>
            /\ mem' = [mem EXCEPT ![r] = session[at[r]]]
            /\ Goto(r, "record") \/ Goto(r, "sweep")
        BY <1>7, <2>1 DEF ByokLock, ResetLock, LockById, db, Records
      <3>2. /\ \A q \in Req \ {r} : Same(q)
            /\ pc'[r] \in {"record", "sweep"} /\ mem'[r] = session[at[r]]
        BY <3>1, OnePlace DEF Goto, Same, TypeInv, TypeOK
      <3>3. at[r] \in Stored
        BY <3>1 DEF Stored, TypeInv, ReqInv, Placed
      <3> QED
        BY <3>1, <3>2, <3>3 DEF StepOf, Moves, GoesOn, OthersWait
    <2> QED
      BY <1>1, <2>1
  <1>8. CASE Sweep(r)
    BY <1>8 DEF Sweep, StepOf, Moves, GoesOn, OthersWait, Same, db, Records
  <1> QED
    BY <1>1, <1>2, <1>3, <1>4, <1>5, <1>6, <1>7, <1>8 DEF TurnBegin, Replay

\* The statements that commit.
LEMMA CommitKind ==
  ASSUME IInv, NEW r \in Req,
         CreateInsert(r) \/ TurnLazyCreate(r) \/ TurnGate(r) \/ TurnFlush(r) \/ CoachCommit(r)
           \/ ByokRecord(r) \/ ModelSwitch(r) \/ DeleteCommit(r) \/ ResetCommit(r)
  PROVE  StepOf(r)
  <1> USE DEF IInv
  <1>1. CASE \E status : Fail(r, status)
    BY <1>1, FailKind
  <1>2. CASE ~ \E status : Fail(r, status)
    <2>1. CASE CreateInsert(r)
      <3>1. pc[r] = "insert" /\ OthersWait(r) /\ pc'[r] = "done"
        BY <1>2, <2>1, FinishKind DEF CreateInsert
      <3> QED
        BY <1>2, <2>1, <3>1 DEF CreateInsert, StepOf, Inserts, Records
    <2>2. CASE TurnLazyCreate(r)
      <3>1. /\ pc[r] = "lazy" /\ Goto(r, "begin") /\ call' = call
            /\ at' = [at EXCEPT ![r] = minted + 1]
            /\ mem' = [mem EXCEPT ![r] = FreshRow(mem[r].problem, TrackOf(call[r].step), FALSE)]
            /\ minted < MaxSid /\ minted' = minted + 1 /\ UNCHANGED <<session, Records>>
        BY <1>2, <2>2 DEF TurnLazyCreate, Records
      <3>2. /\ \A q \in Req \ {r} : Same(q)
            /\ pc'[r] = "begin" /\ at'[r] = minted + 1
            /\ mem'[r] = FreshRow(mem[r].problem, TrackOf(call[r].step), FALSE)
        BY <3>1, OnePlace DEF Goto, Same, TypeInv, TypeOK
      <3> QED
        BY <3>1, <3>2 DEF StepOf, Conjures, OthersWait
    <2>3. CASE TurnGate(r)
      <3>1. /\ pc[r] = "gate" /\ Goto(r, "flush") /\ UNCHANGED <<call, at>> /\ VersionMatches(r)
            /\ \E row : mem' = [mem EXCEPT ![r] = row]
            /\ \E verdict \in Verdicts :
                 RecordJudgement(r, verdict, "llm",
                   IF session[at[r]] = NoRow THEN mem[r] ELSE session[at[r]], <<>>)
        BY <1>2, <2>3 DEF TurnGate
      <3>2. (\A q \in Req \ {r} : Same(q)) /\ pc'[r] = "flush"
        BY <3>1, OnePlace DEF Goto, Same, TypeInv, TypeOK
      <3> QED
        BY <3>1, <3>2 DEF StepOf, ServerJudges, OthersWait
    <2>4. CASE TurnFlush(r)
      <3>1. /\ pc[r] = "flush" /\ session[at[r]] # NoRow /\ call' = call
            /\ session' = session \/ (TRUE \in Citations
                                      /\ session' = [session EXCEPT ![at[r]].version = mem[r].version])
            /\ UNCHANGED <<minted, Records>>
            /\ Finish(r, "503", NoTurn) \/ (Goto(r, "stream") /\ UNCHANGED <<at, mem>>)
        BY <1>2, <2>4 DEF TurnFlush, Records, txn
      <3>2. \/ OthersWait(r) /\ pc'[r] = "done"
            \/ (\A q \in Req \ {r} : Same(q)) /\ pc'[r] = "stream" /\ at'[r] = at[r]
        BY <3>1, FinishKind, OnePlace DEF Goto, Same
      <3> QED
        BY <3>1, <3>2 DEF StepOf, Flushes, OthersWait
    <2>5. CASE CoachCommit(r)
      <3>1. /\ pc[r] = "fk" /\ OthersWait(r) /\ pc'[r] = "done" /\ Holders(r, at[r]) = {}
            /\ message' = IF session[at[r]] = NoRow THEN message
                          ELSE [message EXCEPT ![at[r]] = Append(@, ReplyMessage(r))]
            /\ UNCHANGED <<session, minted, gate, gateCall>>
        BY <2>5, FinishKind DEF CoachCommit
      <3> QED
        BY <3>1 DEF StepOf, Moves, Replies, Records
    <2>6. CASE ByokRecord(r)
      <3>1. CASE \E reply : Finish(r, "replay", reply) /\ UNCHANGED <<db, call>>
        BY <3>1, FinishKind DEF StepOf, Moves, db, Records
      <3>2. CASE ~ \E reply : Finish(r, "replay", reply) /\ UNCHANGED <<db, call>>
        <4>1. /\ pc[r] = "record" /\ ~ OverCap(at[r]) /\ ~ Recorded(at[r], call[r].turn) /\ Accepts(r)
              /\ \E verdict \in Verdicts :
                   RecordJudgement(r, verdict, "byok", session[at[r]], <<ReplyMessage(r)>>)
              /\ Finish(r, "200", call[r].turn) /\ call' = call
          BY <1>2, <2>6, <3>2 DEF ByokRecord
        <4>2. OthersWait(r) /\ pc'[r] = "done"
          BY <4>1, FinishKind
        <4>3. session[at[r]] = mem[r]
          BY <4>1 DEF LockInv, Locked
        <4> QED
          BY <4>1, <4>2, <4>3 DEF StepOf, ClientJudges
      <3> QED
        BY <3>1, <3>2
    <2>7. CASE ModelSwitch(r)
      <3>1. /\ pc[r] = "lock" /\ call[r].op = "model" /\ Holders(r, at[r]) = {} /\ Goto(r, "echo")
            /\ UNCHANGED <<call, at, mem, minted, Records>> /\ session[at[r]] # NoRow
            /\ session' = [session EXCEPT ![at[r]] = Switched(@, call[r].byok)]
        BY <1>2, <2>7 DEF ModelSwitch, LockById, txn, Records
      <3>2. (\A q \in Req \ {r} : Same(q)) /\ pc'[r] = "echo"
        BY <3>1, OnePlace DEF Goto, Same
      <3> QED
        BY <3>1, <3>2 DEF StepOf, Switches, OthersWait
    <2>8. CASE DeleteCommit(r) \/ ResetCommit(r)
      <3>1. pc[r] = "sweep" /\ OthersWait(r) /\ pc'[r] = "done"
        BY <1>2, <2>8, FinishKind DEF DeleteCommit, ResetCommit
      <3> QED
        BY <1>2, <2>8, <3>1 DEF DeleteCommit, ResetCommit, StepOf, Deletes
    <2> QED
      BY <2>1, <2>2, <2>3, <2>4, <2>5, <2>6, <2>7, <2>8
  <1> QED
    BY <1>1, <1>2

\* Every step is of one of the kinds.
LEMMA StepKinds ==
  ASSUME IInv, [Next]_vars
  PROVE  Weathers \/ \E r \in Req : StepOf(r)
  <1> USE DEF IInv
  <1>1. ASSUME NEW r \in Req, Request(r) \/ Handle(r) PROVE StepOf(r)
    <2>1. CASE \E status : Fail(r, status)
      BY <2>1, FailKind
    <2>2. ModelEcho(r) \/ DeadlockAbort(r) \/ GateRaises(r) => \E status : Fail(r, status)
      BY Zenon DEF ModelEcho, DeadlockAbort, GateRaises
    <2> QED
      BY <1>1, <2>1, <2>2, RequestKind, MoveKind, CommitKind DEF Handle
  <1>2. CASE Crash
    <2>1. ASSUME NEW q \in Req
          PROVE  pc'[q] = "done" \/ (pc[q] = "idle" /\ pc'[q] = "idle")
      BY <1>2 DEF Crash, InFlight
    <2> QED
      BY <1>2, <2>1 DEF Crash, Weathers, db, Records
  <1>3. CASE (\E s \in Sid : Lapse(s)) \/ UNCHANGED vars
    BY <1>3 DEF Lapse, Weathers, Same, Records, vars, db, txn
  <1> QED
    BY <1>1, <1>2, <1>3 DEF Next, Quiet

-------------------------------------------------------------------------------
(***************************************************************************)
(* Session ids.  They are drawn once, so a session that a turn is creating *)
(* lazily is nobody else's, and a session that is gone stays gone for the  *)
(* requests that still work on it.                                         *)
(***************************************************************************)
IsFresh(row) ==
  \E problem \in Problem, track \in Track, byok \in BOOLEAN : row = FreshRow(problem, track, byok)

Drawn(r) ==
  /\ pc[r] \notin {"idle", "done"} => call[r] \in Offered[r]
  /\ pc[r] \in Placed => at[r] <= minted
  /\ Reading(r) => call[r].sid <= minted
  /\ pc[r] = "insert" \/ Pending(r) => IsFresh(mem[r])

\* A pending session is at no other request, and no turn was addressed to it.
Alone(r, q) ==
  Pending(r) => /\ q # r /\ pc[q] \in Placed => at[q] # at[r]
                /\ Reading(q) => call[q].sid # at[r]

FreshInv ==
  /\ \A r \in Req : Drawn(r)
  /\ \A r, q \in Req : Alone(r, q)

\* The row that a judgement saves.
LEMMA JudgedRow ==
  ASSUME TypeInv, NEW row \in Row, NEW base \in Row, NEW verdict \in Verdicts
  PROVE  /\ Transition(StateOf(row), verdict) \in SessionState
         /\ WithProgress(base, Transition(StateOf(row), verdict), row.version + 1) \in Row
         /\ WithProgress(base, Transition(StateOf(row), verdict), row.version + 1) # NoRow
  <1> DEFINE state == Transition(StateOf(row), verdict)
  <1>1. verdict \in GateVerdict /\ row.version + 1 \in Nat
    BY ServiceAssumption, RowFields
  <1>2. state \in SessionState
    BY <1>1, StateOfType, TransitionType
  <1> HIDE DEF state
  <1>3. WithProgress(base, state, row.version + 1) \in Row
    BY <1>1, <1>2, WithProgressType
  <1> QED
    BY <1>2, <1>3, RowFields DEF state

\* The session rows of one request's step: which appear, and that none comes back.
LEMMA RowsOfStep ==
  ASSUME IInv, NEW r \in Req, StepOf(r)
  PROVE  /\ minted \in Nat /\ minted' \in {minted, minted + 1} /\ minted + 1 \notin Stored
         /\ \A s \in Stored : s <= minted
         /\ minted' # minted => minted' \in Sid
         /\ \A s \in Sid : session[s] = NoRow /\ session'[s] # NoRow =>
              (s = minted + 1 /\ minted' = minted + 1) \/ (ServerJudges(r) /\ s = at[r])
         /\ \A s \in Sid : session[s] # NoRow /\ session'[s] = NoRow => Deletes(r) /\ s \in hold[r]
  <1>1. minted \in Nat /\ (\A s \in Stored : s <= minted) /\ minted + 1 \notin Stored
    BY ServiceAssumption DEF IInv, TypeInv, TypeOK, LockInv, LocksExclusive
  <1>2. minted' \in {minted, minted + 1} /\ (minted' # minted => minted < MaxSid)
    BY DEF StepOf, Moves, Flushes, Conjures, Inserts, Switches, ServerJudges, ClientJudges, Replies,
           Deletes, RecordJudgement, CommitDelete
  <1>3. minted' # minted => minted' \in Sid
    BY <1>1, <1>2, ServiceAssumption DEF Sid
  <1>4. session \in [Sid -> Row \cup {NoRow}] /\ \A row \in Row : row # NoRow
    BY RowFields DEF IInv, TypeInv, TypeOK
  <1> DEFINE Appear == \A s \in Sid : session[s] = NoRow /\ session'[s] # NoRow =>
                         (s = minted + 1 /\ minted' = minted + 1) \/ (ServerJudges(r) /\ s = at[r])
             Stay   == \A s \in Sid : session[s] # NoRow /\ session'[s] = NoRow =>
                         Deletes(r) /\ s \in hold[r]
  <1>5. ASSUME NEW s \in Sid, NEW row \in Row, session' = [session EXCEPT ![s] = row],
               \/ session[s] # NoRow \/ (s = minted + 1 /\ minted' = minted + 1)
               \/ (ServerJudges(r) /\ s = at[r])
        PROVE  Appear /\ Stay
    <2>1. row # NoRow
      BY <1>4
    <2>2. \A z \in Sid : session'[z] = IF z = s THEN row ELSE session[z]
      BY <1>4, <1>5
    <2> QED
      BY <1>5, <2>1, <2>2
  <1> SUFFICES Appear /\ Stay
    BY <1>1, <1>2, <1>3
  <1> HIDE DEF Appear, Stay
  <1>6. CASE Moves(r) \/ Conjures(r) \/ Replies(r)
    BY <1>6 DEF Moves, Conjures, Replies, Appear, Stay
  <1>7. CASE Flushes(r)
    <2>1. at[r] \in Sid /\ session[at[r]] \in Row /\ mem[r].version \in Nat
      BY <1>4, <1>7, RowFields DEF Flushes, IInv, TypeInv, ReqInv, Placed, Answering
    <2>2. [session[at[r]] EXCEPT !.version = mem[r].version] \in Row
      BY <2>1, OtherColumns
    <2>3. CASE session' = session
      BY <2>3 DEF Appear, Stay
    <2> QED
      BY <1>5, <1>7, <2>1, <2>2, <2>3 DEF Flushes
  <1>8. CASE Inserts(r)
    <2>1. mem[r] \in Row
      BY <1>8 DEF Inserts, IInv, TypeInv, ReqInv
    <2>2. minted + 1 \in Sid /\ minted' = minted + 1 /\ session' = [session EXCEPT ![minted + 1] = mem[r]]
      BY <1>1, <1>3, <1>8 DEF Inserts
    <2> QED
      BY <1>5, <2>1, <2>2
  <1>9. CASE Switches(r)
    <2>1. at[r] \in Sid /\ session[at[r]] \in Row /\ call[r].byok \in BOOLEAN
      BY <1>4, <1>9, CallFields DEF Switches, IInv, TypeInv, ReqInv, Placed
    <2>2. Switched(session[at[r]], call[r].byok) \in Row
      BY <2>1, OtherColumns
    <2> QED
      BY <1>5, <1>9, <2>1, <2>2 DEF Switches
  <1>10. CASE ServerJudges(r) \/ ClientJudges(r)
    <2>1. at[r] \in Sid /\ mem[r] \in Row
      BY <1>10 DEF ServerJudges, ClientJudges, IInv, TypeInv, ReqInv, Placed, Answering
    <2>2. PICK verdict \in Verdicts, base \in Row :
            session' = [session EXCEPT ![at[r]] =
                          WithProgress(base, Transition(StateOf(mem[r]), verdict), mem[r].version + 1)]
      BY <1>4, <1>10, <2>1 DEF ServerJudges, ClientJudges, RecordJudgement
    <2>3. ServerJudges(r) \/ session[at[r]] # NoRow
      BY <1>4, <1>10, <2>1 DEF ClientJudges
    <2> QED
      BY <1>5, <2>1, <2>2, <2>3, JudgedRow DEF IInv
  <1>11. CASE Deletes(r)
    <2>1. CASE CommitDelete(hold[r], <<>>)
      BY <1>11, <2>1 DEF CommitDelete, Appear, Stay
    <2>2. CASE /\ minted < MaxSid /\ minted' = minted + 1 /\ call[r].op = "reset"
               /\ CommitDelete(hold[r], [s \in {minted + 1} |->
                                           FreshRow(mem[r].problem, mem[r].track, mem[r].byok)])
      <3>1. mem[r] \in Row
        BY <1>11, <2>2 DEF Deletes, IInv, TypeInv, ReqInv
      <3>2. FreshRow(mem[r].problem, mem[r].track, mem[r].byok) # NoRow
        BY <1>4, <3>1, RowFields, FreshRowType
      <3> QED
        BY <1>11, <2>2, <3>2 DEF CommitDelete, Appear, Stay
    <2> QED
      BY <1>11, <2>1, <2>2 DEF Deletes
  <1> QED
    BY <1>6, <1>7, <1>8, <1>9, <1>10, <1>11 DEF StepOf

\* The places of r's own step: where its session comes from.
LEMMA OwnPlace ==
  ASSUME IInv, FreshInv, NEW r \in Req, StepOf(r)
  PROVE  /\ pc'[r] # "idle"
         /\ pc'[r] \in Placed => \/ at'[r] \in Stored
                                 \/ pc[r] \in Placed /\ at'[r] = at[r]
                                 \/ at'[r] = minted + 1 /\ minted' = minted + 1
         /\ Reading(r)' => call'[r].sid \in Stored \/ (Reading(r) /\ call'[r] = call[r])
         /\ Pending(r)' => \/ Pending(r) /\ at'[r] = at[r] /\ mem'[r] = mem[r]
                           \/ Conjures(r)
         /\ pc'[r] = "insert" => IsFresh(mem'[r])
  <1>1. CASE pc'[r] \in {"done", "echo", "flush", "stream"}
    BY <1>1 DEF StepOf, Moves, Flushes, Conjures, Inserts, Switches, ServerJudges, ClientJudges,
                Replies, Deletes, Arrives, GoesOn, Reading, Pending, Placed
  <1>2. CASE pc'[r] \notin {"done", "echo", "flush", "stream"} /\ ~ Conjures(r)
    <2>1. Arrives(r) \/ GoesOn(r)
      BY <1>2 DEF StepOf, Moves, Flushes, Inserts, Switches, ServerJudges, ClientJudges, Replies, Deletes
    <2>2. session' = session
      BY <1>2 DEF StepOf, Moves, Flushes, Inserts, Switches, ServerJudges, ClientJudges, Replies, Deletes
    <2>3. CASE Arrives(r)
      <3>1. ASSUME NEW c \in Offered[r], c.op = "create"
            PROVE  IsFresh(FreshRow(c.problem, c.track, c.byok))
        BY <3>1, OfferedCalls, CallFields DEF IsFresh
      <3> QED
        BY <2>3, <3>1 DEF Arrives, Reading, Pending, Placed
    <2>4. CASE GoesOn(r)
      BY <2>2, <2>4 DEF GoesOn, Reading, Pending, Placed, Stored
    <2> QED
      BY <2>1, <2>3, <2>4
  <1>3. CASE Conjures(r)
    BY <1>3 DEF Conjures, Reading, Pending, Placed
  <1> QED
    BY <1>1, <1>2, <1>3

\* A fresh pending row.
LEMMA ConjuredRow ==
  ASSUME IInv, NEW r \in Req, Conjures(r)
  PROVE  IsFresh(mem'[r])
  <1>1. mem[r] \in Row /\ call[r] \in AnswerCall
    BY DEF Conjures, IInv, TypeInv, ReqInv, Answering
  <1>2. mem[r].problem \in Problem /\ TrackOf(call[r].step) \in Track
    BY <1>1, RowFields, TrackOfStep DEF AnswerCall
  <1> QED
    BY <1>2 DEF Conjures, IsFresh

LEMMA ReadingCall ==
  ASSUME IInv, NEW r \in Req, Reading(r)
  PROVE  call[r] \in AnswerCall /\ call[r].sid \in Sid
  <1>1. call[r] \in AnswerCall
    BY CallFields DEF IInv, TypeInv, ReqInv, Reading, Answering
  <1> QED
    BY <1>1 DEF AnswerCall

\* Nobody else's step ends or begins a pending session.
LEMMA PendingStays ==
  ASSUME IInv, NEW r \in Req, StepOf(r), NEW q \in Req \ {r}, Pending(q)'
  PROVE  Pending(q)
  <1>1. Same(q) /\ pc[q] \in {"begin", "gate"} /\ session'[at[q]] = NoRow /\ at[q] \in Sid
    BY DEF StepOf, OthersWait, Same, Pending, IInv, TypeInv, ReqInv, Placed
  <1>2. at[q] \notin hold[r]
    BY <1>1 DEF IInv, LockInv, LocksExclusive, Locked, Locking
  <1> QED
    BY <1>1, <1>2, RowsOfStep DEF Pending

LEMMA FreshStep ==
  ASSUME IInv, FreshInv, NEW r \in Req, StepOf(r)
  PROVE  FreshInv'
  <1>1. minted \in Nat /\ minted' \in {minted, minted + 1} /\ \A s \in Stored : s <= minted
    BY RowsOfStep
  <1>2. \A q \in Req : pc[q] \in Placed => at[q] \in Nat
    BY DEF IInv, TypeInv, ReqInv, Sid
  <1>3. \A q \in Req : Reading(q) => call[q].sid \in Nat
    BY ReadingCall DEF Sid
  <1>4. \A q \in Req \ {r} : Same(q)
    BY DEF StepOf, OthersWait
  <1>5. ASSUME NEW q \in Req \ {r} PROVE Drawn(q)'
    <2>1. Drawn(q) /\ Same(q)
      BY <1>4 DEF FreshInv
    <2>2. Reading(q)' <=> Reading(q)
      BY <2>1 DEF Reading, Same
    <2>3. pc[q] \in Placed => at[q] <= minted'
      BY <1>1, <1>2, <2>1 DEF Drawn
    <2>4. Reading(q) => call[q].sid <= minted'
      BY <1>1, <1>3, <2>1 DEF Drawn
    <2>5. Pending(q)' => Pending(q)
      BY PendingStays
    <2> QED
      BY <2>1, <2>2, <2>3, <2>4, <2>5 DEF Drawn, Same
  <1>6. Drawn(r)'
    <2>1. pc'[r] # "done" => call'[r] \in Offered[r]
      BY DEF StepOf, OthersWait, FreshInv, Drawn, Moves, Flushes, Conjures, Inserts, Switches,
             ServerJudges, ClientJudges, Replies, Deletes, Arrives, GoesOn, Reading
    <2>2. pc'[r] \in Placed => at'[r] <= minted'
      BY <1>1, <1>2, OwnPlace DEF FreshInv, Drawn, Stored, Sid
    <2>3. Reading(r)' => call'[r].sid <= minted'
      BY <1>1, <1>3, OwnPlace DEF FreshInv, Drawn, Stored, Sid
    <2>4. pc'[r] = "insert" \/ Pending(r)' => IsFresh(mem'[r])
      BY OwnPlace, ConjuredRow DEF FreshInv, Drawn
    <2> QED
      BY <2>1, <2>2, <2>3, <2>4 DEF Drawn
  <1>7. ASSUME NEW p \in Req \ {r}, NEW q \in Req \ {r} PROVE Alone(p, q)'
    <2>1. Alone(p, q) /\ Same(p) /\ Same(q)
      BY <1>4 DEF FreshInv
    <2>2. Reading(q)' <=> Reading(q)
      BY <2>1 DEF Reading, Same
    <2>3. Pending(p)' => Pending(p)
      BY PendingStays
    <2> QED
      BY <2>1, <2>2, <2>3 DEF Alone, Same
  <1>8. ASSUME NEW p \in Req \ {r} PROVE Alone(p, r)'
    <2>1. SUFFICES ASSUME Pending(p) PROVE Alone(p, r)'
      BY PendingStays DEF Alone
    <2>2. Alone(p, r) /\ Same(p) /\ at[p] \notin Stored /\ at[p] \in Nat /\ at[p] <= minted
      BY <1>2, <1>4, <2>1 DEF FreshInv, Drawn, Pending, Stored, Placed
    <2>3. pc'[r] \in Placed => at'[r] # at[p]
      BY <1>1, <2>1, <2>2, OwnPlace DEF Alone
    <2>4. Reading(r)' => call'[r].sid # at[p]
      BY <2>1, <2>2, OwnPlace DEF Alone
    <2> QED
      BY <2>2, <2>3, <2>4 DEF Alone, Same
  <1>9. ASSUME NEW q \in Req PROVE Alone(r, q)'
    <2>1. SUFFICES ASSUME Pending(r)' PROVE Alone(r, q)'
      BY DEF Alone
    <2>2. CASE Conjures(r)
      <3>1. at'[r] = minted + 1 /\ call'[r] = call[r] /\ Reading(r)
        BY <2>2 DEF Conjures, Reading
      <3>2. q # r => Same(q) /\ (Reading(q)' <=> Reading(q))
        BY <1>4 DEF Same, Reading
      <3>3. q # r /\ pc'[q] \in Placed => at'[q] # at'[r]
        BY <1>1, <1>2, <3>1, <3>2 DEF FreshInv, Drawn, Same
      <3>4. Reading(q)' => call'[q].sid # at'[r]
        BY <1>1, <1>3, <3>1, <3>2 DEF FreshInv, Drawn, Same
      <3> QED
        BY <3>3, <3>4 DEF Alone
    <2>3. CASE ~ Conjures(r)
      <3>1. Pending(r) /\ at'[r] = at[r] /\ Alone(r, q) /\ Alone(r, r)
        BY <2>1, <2>3, OwnPlace DEF FreshInv
      <3>2. at[r] \notin Stored
        BY <3>1 DEF Pending, Stored
      <3>3. q # r => Same(q) /\ (Reading(q)' <=> Reading(q))
        BY <1>4 DEF Same, Reading
      <3>4. Reading(r)' => call'[r].sid # at[r]
        BY <3>1, <3>2, OwnPlace DEF Alone
      <3> QED
        BY <3>1, <3>3, <3>4 DEF Alone, Same
    <2> QED
      BY <2>2, <2>3
  <1> QED
    BY <1>5, <1>6, <1>7, <1>8, <1>9 DEF FreshInv

LEMMA FreshWeather ==
  ASSUME IInv, FreshInv, Weathers
  PROVE  FreshInv'
  <1>1. \A q \in Req : Same(q) \/ pc'[q] = "done" \/ pc'[q] = "idle"
    BY DEF Weathers
  <1>2. UNCHANGED <<session, minted, call>>
    BY DEF Weathers
  <1>3. ASSUME NEW q \in Req
        PROVE  /\ pc'[q] \in Placed \cup {"insert"} \/ Reading(q)' \/ Pending(q)' => Same(q)
               /\ Pending(q)' => Pending(q)
               /\ Reading(q)' => Reading(q)
    BY <1>1, <1>2 DEF Placed, Reading, Pending, Same
  <1>4. ASSUME NEW q \in Req PROVE Drawn(q)'
    <2>1. pc'[q] \notin {"idle", "done"} => call'[q] \in Offered[q]
      BY DEF Weathers, Same, FreshInv, Drawn
    <2> QED
      BY <1>2, <1>3, <2>1 DEF FreshInv, Drawn, Same
  <1>5. ASSUME NEW p \in Req, NEW q \in Req PROVE Alone(p, q)'
    BY <1>2, <1>3 DEF FreshInv, Alone, Same
  <1> QED
    BY <1>4, <1>5 DEF FreshInv

LEMMA InitFresh ==
  ASSUME Init
  PROVE  FreshInv
  BY DEF Init, FreshInv, Drawn, Alone, Placed, Reading, Pending

LEMMA NextFresh ==
  ASSUME IInv, FreshInv, [Next]_vars
  PROVE  FreshInv'
  BY StepKinds, FreshStep, FreshWeather

-------------------------------------------------------------------------------
(***************************************************************************)
(* Transcripts and audit rows, apart from the requests that write them.    *)
(***************************************************************************)
Answer(turn, step) == [role |-> "user", step |-> step, turn |-> turn]

Reply(turn, step) == [role |-> "coach", step |-> step, turn |-> turn]

\* Every answer has its one audit row, and there are no others.
Audited(texts, calls) ==
  /\ \A g \in calls : g.answer_seq \in DOMAIN texts /\ texts[g.answer_seq] = Answer(g.turn, g.step)
  /\ \A i \in DOMAIN texts : texts[i].role = "user" => \E g \in calls : g.answer_seq = i
  /\ \A g, h \in calls : g.answer_seq = h.answer_seq => g = h

\* A turn id is answered at most once, and replied to at most once.
OnePerTurn(texts) ==
  \A i, j \in DOMAIN texts :
    texts[i].role = texts[j].role /\ texts[i].turn = texts[j].turn /\ texts[i].turn # NoTurn => i = j

RepliesAnswer(texts) ==
  \A i \in DOMAIN texts : texts[i].role = "coach" =>
    \E j \in 1 .. i - 1 : texts[j] = Answer(texts[i].turn, texts[i].step)

\* A client-judged answer is followed at once by its reply.
ByokReplied(texts, calls) ==
  \A g \in calls : g.provider = "byok" =>
    g.answer_seq + 1 \in DOMAIN texts /\ texts[g.answer_seq + 1] = Reply(g.turn, g.step)

LEMMA Appended ==
  ASSUME NEW texts \in Seq(Message), NEW m \in Message
  PROVE  /\ Append(texts, m) \in Seq(Message)
         /\ Len(texts) \in Nat /\ DOMAIN texts = 1 .. Len(texts)
         /\ Len(Append(texts, m)) = Len(texts) + 1
         /\ DOMAIN Append(texts, m) = 1 .. (Len(texts) + 1)
         /\ \A i \in DOMAIN texts : Append(texts, m)[i] = texts[i] /\ texts[i] \in Message
         /\ Append(texts, m)[Len(texts) + 1] = m
  OBVIOUS

LEMMA Messages ==
  ASSUME NEW turn \in Turn \cup {NoTurn}, NEW step \in Step
  PROVE  /\ Answer(turn, step) \in Message /\ Reply(turn, step) \in Message
         /\ Answer(turn, step).role = "user" /\ Answer(turn, step).turn = turn
         /\ Answer(turn, step).step = step
         /\ Reply(turn, step).role = "coach" /\ Reply(turn, step).turn = turn
         /\ Reply(turn, step).step = step
  BY DEF Answer, Reply, Message

\* An answer is appended together with its audit row.
LEMMA AuditedAnswer ==
  ASSUME NEW texts \in Seq(Message), NEW calls \in SUBSET GateCall, Audited(texts, calls),
         NEW g \in GateCall, g.answer_seq = Len(texts) + 1
  PROVE  Audited(Append(texts, Answer(g.turn, g.step)), calls \cup {g})
  <1> DEFINE new == Append(texts, Answer(g.turn, g.step))
  <1>1. g.turn \in Turn \cup {NoTurn} /\ g.step \in Step
    BY DEF GateCall
  <1>2. /\ Len(texts) \in Nat /\ DOMAIN texts = 1 .. Len(texts) /\ DOMAIN new = 1 .. (Len(texts) + 1)
        /\ \A i \in DOMAIN texts : new[i] = texts[i]
        /\ new[Len(texts) + 1] = Answer(g.turn, g.step)
    BY <1>1, Messages, Appended
  <1> HIDE DEF new
  <1>3. ASSUME NEW h \in calls \cup {g}
        PROVE  h.answer_seq \in DOMAIN new /\ new[h.answer_seq] = Answer(h.turn, h.step)
    BY <1>2 DEF Audited
  <1>4. ASSUME NEW i \in DOMAIN new, new[i].role = "user"
        PROVE  \E h \in calls \cup {g} : h.answer_seq = i
    BY <1>2, <1>4 DEF Audited
  <1>5. ASSUME NEW h \in calls \cup {g}, NEW k \in calls \cup {g}, h.answer_seq = k.answer_seq
        PROVE  h = k
    <2>1. \A c \in calls : c.answer_seq # Len(texts) + 1
      BY <1>2 DEF Audited
    <2> QED
      BY <1>5, <2>1 DEF Audited
  <1> QED
    BY <1>3, <1>4, <1>5 DEF Audited, new

LEMMA AuditedReply ==
  ASSUME NEW texts \in Seq(Message), NEW calls \in SUBSET GateCall, Audited(texts, calls),
         NEW turn \in Turn \cup {NoTurn}, NEW step \in Step
  PROVE  Audited(Append(texts, Reply(turn, step)), calls)
  <1> DEFINE new == Append(texts, Reply(turn, step))
  <1>1. /\ Len(texts) \in Nat /\ DOMAIN texts = 1 .. Len(texts) /\ DOMAIN new = 1 .. (Len(texts) + 1)
        /\ \A i \in DOMAIN texts : new[i] = texts[i]
        /\ new[Len(texts) + 1].role = "coach"
    BY Messages, Appended
  <1> HIDE DEF new
  <1>2. Audited(new, calls)
    BY <1>1 DEF Audited
  <1> QED
    BY <1>2 DEF new

\* A message of a turn that has none of its role yet.
LEMMA OnePerTurnKept ==
  ASSUME NEW texts \in Seq(Message), OnePerTurn(texts), NEW m \in Message,
         m.turn # NoTurn => \A i \in DOMAIN texts : texts[i].role = m.role => texts[i].turn # m.turn
  PROVE  OnePerTurn(Append(texts, m))
  <1> DEFINE new == Append(texts, m)
  <1>1. /\ Len(texts) \in Nat /\ DOMAIN texts = 1 .. Len(texts) /\ DOMAIN new = 1 .. (Len(texts) + 1)
        /\ \A i \in DOMAIN texts : new[i] = texts[i]
        /\ new[Len(texts) + 1] = m
    BY Appended
  <1> HIDE DEF new
  <1>2. ASSUME NEW i \in DOMAIN new, NEW j \in DOMAIN new, 
               new[i].role = new[j].role, new[i].turn = new[j].turn, new[i].turn # NoTurn
        PROVE  i = j
    <2>1. CASE i \in DOMAIN texts /\ j \in DOMAIN texts
      BY <1>1, <1>2, <2>1 DEF OnePerTurn
    <2>2. CASE i \notin DOMAIN texts \/ j \notin DOMAIN texts
      BY <1>1, <1>2, <2>2
    <2> QED
      BY <2>1, <2>2
  <1> QED
    BY <1>2 DEF OnePerTurn, new

LEMMA RepliesAnswerKept ==
  ASSUME NEW texts \in Seq(Message), RepliesAnswer(texts), NEW m \in Message,
         m.role = "coach" => \E j \in DOMAIN texts : texts[j] = Answer(m.turn, m.step)
  PROVE  RepliesAnswer(Append(texts, m))
  <1> DEFINE new == Append(texts, m)
  <1>1. /\ Len(texts) \in Nat /\ DOMAIN texts = 1 .. Len(texts) /\ DOMAIN new = 1 .. (Len(texts) + 1)
        /\ \A i \in DOMAIN texts : new[i] = texts[i]
        /\ new[Len(texts) + 1] = m
    BY Appended
  <1> HIDE DEF new
  <1>2. ASSUME NEW i \in DOMAIN new, new[i].role = "coach"
        PROVE  \E j \in 1 .. i - 1 : new[j] = Answer(new[i].turn, new[i].step)
    <2>1. CASE i \in DOMAIN texts
      <3>1. PICK j \in 1 .. i - 1 : texts[j] = Answer(texts[i].turn, texts[i].step)
        BY <1>1, <1>2, <2>1 DEF RepliesAnswer
      <3> QED
        BY <1>1, <2>1, <3>1
    <2>2. CASE i \notin DOMAIN texts
      <3>1. i = Len(texts) + 1 /\ new[i] = m
        BY <1>1, <1>2, <2>2
      <3>2. PICK j \in DOMAIN texts : texts[j] = Answer(m.turn, m.step)
        BY <1>2, <3>1
      <3> QED
        BY <1>1, <3>1, <3>2
    <2> QED
      BY <2>1, <2>2
  <1> QED
    BY <1>2 DEF RepliesAnswer, new

LEMMA ByokRepliedKept ==
  ASSUME NEW texts \in Seq(Message), NEW calls \in SUBSET GateCall, ByokReplied(texts, calls),
         Audited(texts, calls), NEW m \in Message
  PROVE  ByokReplied(Append(texts, m), calls)
  <1> DEFINE new == Append(texts, m)
  <1>1. /\ Len(texts) \in Nat /\ DOMAIN texts = 1 .. Len(texts) /\ DOMAIN new = 1 .. (Len(texts) + 1)
        /\ \A i \in DOMAIN texts : new[i] = texts[i]
    BY Appended
  <1> HIDE DEF new
  <1>2. ByokReplied(new, calls)
    BY <1>1 DEF ByokReplied
  <1> QED
    BY <1>2 DEF new

TrailOf(texts, calls) ==
  /\ Audited(texts, calls)
  /\ OnePerTurn(texts)
  /\ RepliesAnswer(texts)
  /\ ByokReplied(texts, calls)

LEMMA TrailAfterAnswer ==
  ASSUME NEW texts \in Seq(Message), NEW calls \in SUBSET GateCall, TrailOf(texts, calls),
         NEW g \in GateCall, g.answer_seq = Len(texts) + 1, g.provider = "llm",
         g.turn # NoTurn => \A i \in DOMAIN texts : texts[i].role = "user" => texts[i].turn # g.turn
  PROVE  TrailOf(texts \o <<Answer(g.turn, g.step)>> \o <<>>, calls \cup {g})
  <1> DEFINE m == Answer(g.turn, g.step)
  <1>1. m \in Message /\ m.role = "user" /\ m.turn = g.turn
    BY Messages DEF GateCall
  <1>2. texts \o <<m>> \o <<>> = Append(texts, m)
    BY <1>1
  <1>3. Audited(Append(texts, m), calls \cup {g})
    BY AuditedAnswer DEF TrailOf
  <1> HIDE DEF m
  <1>4. OnePerTurn(Append(texts, m)) /\ RepliesAnswer(Append(texts, m))
    BY <1>1, OnePerTurnKept, RepliesAnswerKept DEF TrailOf
  <1>5. ByokReplied(Append(texts, m), calls)
    BY <1>1, ByokRepliedKept DEF TrailOf
  <1>6. ByokReplied(Append(texts, m), calls \cup {g})
    BY <1>5 DEF ByokReplied
  <1> QED
    BY <1>2, <1>3, <1>4, <1>6 DEF TrailOf, m

LEMMA TrailAfterReply ==
  ASSUME NEW texts \in Seq(Message), NEW calls \in SUBSET GateCall, TrailOf(texts, calls),
         NEW turn \in Turn \cup {NoTurn}, NEW step \in Step,
         \E j \in DOMAIN texts : texts[j] = Answer(turn, step),
         turn # NoTurn => \A i \in DOMAIN texts : texts[i].role = "coach" => texts[i].turn # turn
  PROVE  TrailOf(Append(texts, Reply(turn, step)), calls)
  <1> DEFINE m == Reply(turn, step)
  <1>1. m \in Message /\ m.role = "coach" /\ m.turn = turn /\ m.step = step
    BY DEF Reply, Message
  <1>2. Audited(Append(texts, m), calls)
    BY AuditedReply DEF TrailOf
  <1> HIDE DEF m
  <1>3. OnePerTurn(Append(texts, m)) /\ RepliesAnswer(Append(texts, m))
    BY <1>1, OnePerTurnKept, RepliesAnswerKept DEF TrailOf
  <1>4. ByokReplied(Append(texts, m), calls)
    BY <1>1, ByokRepliedKept DEF TrailOf
  <1> QED
    BY <1>2, <1>3, <1>4 DEF TrailOf, m

LEMMA TrailAfterBoth ==
  ASSUME NEW texts \in Seq(Message), NEW calls \in SUBSET GateCall, TrailOf(texts, calls),
         NEW g \in GateCall, g.answer_seq = Len(texts) + 1,
         g.turn # NoTurn => \A i \in DOMAIN texts : texts[i].role = "user" => texts[i].turn # g.turn
  PROVE  TrailOf(texts \o <<Answer(g.turn, g.step)>> \o <<Reply(g.turn, g.step)>>, calls \cup {g})
  <1> DEFINE a    == Answer(g.turn, g.step)
             c    == Reply(g.turn, g.step)
             mid  == Append(texts, a)
             last == Append(mid, c)
  <1>1. g.turn \in Turn \cup {NoTurn} /\ g.step \in Step
    BY DEF GateCall
  <1>2. /\ a \in Message /\ a.role = "user" /\ a.turn = g.turn
        /\ c \in Message /\ c.role = "coach" /\ c.turn = g.turn /\ c.step = g.step
    BY <1>1 DEF Answer, Reply, Message
  <1>3. texts \o <<a>> \o <<c>> = last
    BY <1>2
  <1>4. Audited(mid, calls \cup {g})
    BY AuditedAnswer DEF TrailOf
  <1>5. /\ mid \in Seq(Message) /\ Len(texts) \in Nat /\ Len(mid) = Len(texts) + 1
        /\ DOMAIN texts = 1 .. Len(texts) /\ DOMAIN mid = 1 .. (Len(texts) + 1)
        /\ (\A i \in DOMAIN texts : mid[i] = texts[i] /\ texts[i] \in Message) /\ mid[Len(texts) + 1] = a
    BY <1>2, Appended
  <1>6. Audited(last, calls \cup {g})
    BY <1>1, <1>4, <1>5, AuditedReply
  <1> HIDE DEF a, c, last
  <1>7. OnePerTurn(mid) /\ RepliesAnswer(mid) /\ ByokReplied(mid, calls)
    BY <1>2, OnePerTurnKept, RepliesAnswerKept, ByokRepliedKept DEF TrailOf
  <1> HIDE DEF mid
  <1>8. ASSUME g.turn # NoTurn, NEW i \in DOMAIN mid, mid[i].role = "coach"
        PROVE  mid[i].turn # g.turn
    <2>1. i \in DOMAIN texts /\ texts[i].role = "coach" /\ mid[i] = texts[i]
      BY <1>2, <1>5, <1>8
    <2>2. texts[i].turn \in Turn \cup {NoTurn} /\ texts[i].step \in Step
      BY <1>5, <2>1 DEF Message
    <2>3. \E j \in 1 .. i - 1 : texts[j] = Answer(texts[i].turn, texts[i].step)
      BY <2>1 DEF TrailOf, RepliesAnswer
    <2>4. \E j \in DOMAIN texts : texts[j] = Answer(texts[i].turn, texts[i].step)
      BY <1>5, <2>1, <2>3
    <2>5. \E j \in DOMAIN texts : texts[j].role = "user" /\ texts[j].turn = texts[i].turn
      BY <2>2, <2>4, Messages
    <2> QED
      BY <1>8, <2>1, <2>5
  <1>9. last = Append(mid, c)
    BY DEF last
  <1>10. OnePerTurn(last) /\ RepliesAnswer(last)
    <2>1. mid[Len(texts) + 1] = Answer(c.turn, c.step) /\ Len(texts) + 1 \in DOMAIN mid
      BY <1>2, <1>5 DEF a
    <2> QED
      BY <1>2, <1>5, <1>7, <1>8, <1>9, <2>1, OnePerTurnKept, RepliesAnswerKept
  <1>11. ASSUME NEW i \in DOMAIN texts PROVE i \in DOMAIN last /\ last[i] = texts[i]
    BY <1>2, <1>5, <1>9, Appended
  <1>12. Len(texts) + 2 \in DOMAIN last /\ last[Len(texts) + 2] = c
    BY <1>2, <1>5, <1>9, Appended
  <1>13. ASSUME NEW h \in calls \cup {g}, h.provider = "byok"
         PROVE  h.answer_seq + 1 \in DOMAIN last /\ last[h.answer_seq + 1] = Reply(h.turn, h.step)
    <2>1. CASE h = g
      BY <1>5, <1>12, <2>1 DEF c
    <2>2. CASE h # g
      BY <1>11, <1>13, <2>2 DEF TrailOf, ByokReplied
    <2> QED
      BY <2>1, <2>2
  <1> QED
    BY <1>3, <1>6, <1>10, <1>13 DEF TrailOf, ByokReplied, a, c

-------------------------------------------------------------------------------
(***************************************************************************)
(* The transcripts of the sessions.  What keeps them in order is what the  *)
(* requests that write them know: an answer at its gate is for the current *)
(* step and not recorded before; a coach's answer is in the transcript and *)
(* has no reply yet; and no two coaches reply to the same turn.            *)
(***************************************************************************)
Replying(r) == pc[r] \in {"flush", "stream", "write", "fk"} /\ session[at[r]] # NoRow

GoneIsEmpty ==
  \A s \in Sid : session[s] = NoRow => message[s] = <<>> /\ gate[s] = NoGates /\ gateCall[s] = {}

Trails == \A s \in Sid : TrailOf(message[s], gateCall[s])

AtGate(r) == pc[r] = "gate" => Accepts(r) /\ ~ Recorded(at[r], call[r].turn)

InTurn(r) ==
  Replying(r) => /\ \E j \in DOMAIN message[at[r]] : message[at[r]][j] = Answer(call[r].turn, call[r].step)
                 /\ ~ RecordedOnReply(at[r], call[r].turn)

Apart(r, q) ==
  Replying(r) /\ Replying(q) /\ r # q /\ at[r] = at[q] =>
    call[r].turn # call[q].turn \/ call[r].turn = NoTurn

TrailInv ==
  /\ GoneIsEmpty
  /\ Trails
  /\ \A r \in Req : AtGate(r) /\ InTurn(r)
  /\ \A r, q \in Req : Apart(r, q)

LEMMA EmptyTrail == TrailOf(<<>>, {})
  BY DEF TrailOf, Audited, OnePerTurn, RepliesAnswer, ByokReplied

\* The types that a transcript's writers rely on.
LEMMA TrailTypes ==
  ASSUME IInv
  PROVE  /\ \A s \in Sid : message[s] \in Seq(Message) /\ gateCall[s] \in SUBSET GateCall
         /\ \A r \in Req : pc[r] \in Placed => at[r] \in Sid
         /\ \A r \in Req : pc[r] \in Answering =>
              mem[r] \in Row /\ call[r].turn \in Turn \cup {NoTurn} /\ call[r].step \in Step
  BY DEF IInv, TypeInv, TypeOK, ReqInv, AnswerCall

\* Who is replying after a step was replying before it, but for the judge.
LEMMA StillReplying ==
  ASSUME IInv, FreshInv, NEW r \in Req, StepOf(r), NEW q \in Req, Replying(q)',
         q = r => ~ ServerJudges(r)
  PROVE  Replying(q) /\ at'[q] = at[q] /\ call'[q] = call[q]
  <1>1. /\ pc'[q] \in {"flush", "stream", "write", "fk"} /\ session'[at'[q]] # NoRow
    BY DEF Replying
  <1>2. CASE q = r
    <2>1. Flushes(r) \/ (GoesOn(r) /\ Moves(r))
      BY <1>1, <1>2 DEF StepOf, Moves, Flushes, Conjures, Inserts, Switches, ClientJudges, Replies,
                        Deletes, Arrives
    <2> QED
      BY <1>1, <1>2, <2>1 DEF Flushes, GoesOn, Moves, Replying
  <1>3. CASE q # r
    <2>1. Same(q) /\ at[q] \in Sid /\ at[q] <= minted /\ Alone(r, q) /\ pc[q] \in Placed
      BY <1>1, <1>3, TrailTypes DEF StepOf, OthersWait, Same, FreshInv, Drawn, Placed
    <2>2. session[at[q]] # NoRow
      <3>1. SUFFICES ASSUME session[at[q]] = NoRow PROVE FALSE
        OBVIOUS
      <3>2. minted \in Nat
        BY RowsOfStep
      <3>3. ServerJudges(r) /\ at[q] = at[r]
        BY <1>1, <2>1, <3>1, <3>2, RowsOfStep DEF Same
      <3>4. Pending(r)
        BY <3>1, <3>3 DEF ServerJudges, Pending
      <3> QED
        BY <1>3, <2>1, <3>3, <3>4 DEF Alone
    <2> QED
      BY <1>1, <2>1, <2>2 DEF Same, Replying
  <1> QED
    BY <1>2, <1>3

\* An answer at its gate stays there unless it is r that goes on.
LEMMA StillAtGate ==
  ASSUME IInv, NEW r \in Req, StepOf(r), NEW q \in Req, pc'[q] = "gate"
  PROVE  \/ q # r /\ Same(q) /\ at[q] \notin hold[r] /\ hold[q] = {at[q]}
         \/ q = r /\ Moves(r) /\ at'[r] = at[r] /\ mem'[r] = mem[r] /\ call'[r] = call[r]
            /\ Accepts(r) /\ ~ Recorded(at[r], call[r].turn)
  <1>1. CASE q = r
    BY <1>1 DEF StepOf, Moves, Flushes, Conjures, Inserts, Switches, ServerJudges, ClientJudges,
                Replies, Deletes, Arrives, GoesOn
  <1>2. CASE q # r
    <2>1. Same(q) /\ pc[q] = "gate"
      BY <1>2 DEF StepOf, OthersWait, Same
    <2>2. hold[q] = {at[q]} /\ hold[q] \cap hold[r] = {}
      BY <1>2, <2>1 DEF IInv, LockInv, LocksExclusive, Locked, Locking
    <2> QED
      BY <1>2, <2>1, <2>2
  <1> QED
    BY <1>1, <1>2

\* A step that leaves the transcripts and the audit trail alone.
LEMMA QuietTrail ==
  ASSUME IInv, FreshInv, TrailInv, NEW r \in Req, StepOf(r), UNCHANGED Records,
         ~ ServerJudges(r), ~ Deletes(r)
  PROVE  TrailInv'
  <1>1. message' = message /\ gate' = gate /\ gateCall' = gateCall
    BY DEF Records
  <1>2. GoneIsEmpty' /\ Trails'
    BY <1>1, RowsOfStep DEF TrailInv, GoneIsEmpty, Trails
  <1>3. ASSUME NEW q \in Req PROVE AtGate(q)'
    <2>1. SUFFICES ASSUME pc'[q] = "gate" PROVE Accepts(q)' /\ ~ Recorded(at[q], call[q].turn)'
      BY DEF AtGate
    <2>2. q # r => Accepts(q) /\ ~ Recorded(at[q], call[q].turn)
      BY <2>1, StillAtGate DEF TrailInv, AtGate, Same
    <2> QED
      BY <1>1, <2>1, <2>2, StillAtGate DEF Accepts, Recorded, Same
  <1>4. ASSUME NEW q \in Req PROVE InTurn(q)'
    BY <1>1, StillReplying DEF TrailInv, InTurn, RecordedOnReply
  <1>5. ASSUME NEW p \in Req, NEW q \in Req PROVE Apart(p, q)'
    BY StillReplying DEF TrailInv, Apart
  <1> QED
    BY <1>2, <1>3, <1>4, <1>5 DEF TrailInv

LEMMA DeletesTrail ==
  ASSUME IInv, FreshInv, TrailInv, NEW r \in Req, StepOf(r), Deletes(r)
  PROVE  TrailInv'
  <1>1. /\ message' = [s \in Sid |-> IF s \in hold[r] THEN <<>> ELSE message[s]]
        /\ gate' = [s \in Sid |-> IF s \in hold[r] THEN NoGates ELSE gate[s]]
        /\ gateCall' = [s \in Sid |-> IF s \in hold[r] THEN {} ELSE gateCall[s]]
        /\ \A s \in hold[r] : s \in Sid /\ session'[s] = NoRow
    BY DEF Deletes, CommitDelete, IInv, TypeInv, TypeOK
  <1>2. ~ ServerJudges(r)
    BY DEF Deletes, ServerJudges
  <1>3. GoneIsEmpty'
    BY <1>1, RowsOfStep DEF TrailInv, GoneIsEmpty
  <1>4. Trails'
    BY <1>1, EmptyTrail DEF TrailInv, Trails
  <1>5. ASSUME NEW q \in Req PROVE AtGate(q)'
    <2>1. SUFFICES ASSUME pc'[q] = "gate" PROVE Accepts(q)' /\ ~ Recorded(at[q], call[q].turn)'
      BY DEF AtGate
    <2>2. q # r /\ Same(q) /\ at[q] \notin hold[r] /\ pc[q] = "gate"
      BY <2>1, StillAtGate DEF Deletes, Same
    <2>3. at[q] \in Sid /\ Accepts(q) /\ ~ Recorded(at[q], call[q].turn)
      BY <2>2, TrailTypes DEF TrailInv, AtGate, Placed
    <2>4. message'[at[q]] = message[at[q]]
      BY <1>1, <2>2, <2>3
    <2> QED
      BY <2>2, <2>3, <2>4 DEF Accepts, Recorded, Same
  <1>6. ASSUME NEW q \in Req PROVE InTurn(q)'
    <2>1. SUFFICES ASSUME Replying(q)' PROVE InTurn(q)'
      BY DEF InTurn
    <2>2. Replying(q) /\ at'[q] = at[q] /\ call'[q] = call[q]
      BY <1>2, <2>1, StillReplying
    <2>3. at[q] \in Sid /\ at[q] \notin hold[r]
      BY <1>1, <2>1, <2>2, TrailTypes DEF Replying, Placed
    <2>4. message'[at[q]] = message[at[q]]
      BY <1>1, <2>3
    <2> QED
      BY <2>2, <2>4 DEF TrailInv, InTurn, RecordedOnReply
  <1>7. ASSUME NEW p \in Req, NEW q \in Req PROVE Apart(p, q)'
    BY <1>2, StillReplying DEF TrailInv, Apart
  <1> QED
    BY <1>3, <1>4, <1>5, <1>6, <1>7 DEF TrailInv

LEMMA RepliesTrail ==
  ASSUME IInv, FreshInv, TrailInv, NEW r \in Req, StepOf(r), Replies(r)
  PROVE  TrailInv'
  <1> DEFINE turn == call[r].turn
             step == call[r].step
             here == at[r]
  <1>1. /\ here \in Sid /\ turn \in Turn \cup {NoTurn} /\ step \in Step
        /\ message[here] \in Seq(Message) /\ gateCall[here] \in SUBSET GateCall
    BY TrailTypes DEF Replies, Placed, Answering
  <1>2. /\ session' = session /\ gate' = gate /\ gateCall' = gateCall /\ ~ ServerJudges(r)
        /\ pc'[r] = "done" /\ Replying(r)
    BY DEF Replies, ServerJudges, Replying
  <1>3. /\ message'[here] = Append(message[here], Reply(turn, step))
        /\ \A s \in Sid \ {here} : message'[s] = message[s]
    BY <1>1 DEF Replies, ReplyMessage, Reply, IInv, TypeInv, TypeOK
  <1>4. InTurn(r) /\ TrailOf(message[here], gateCall[here])
    BY <1>1 DEF TrailInv, Trails
  <1> HIDE DEF turn, step, here
  <1>5. GoneIsEmpty'
    <2>1. session[here] # NoRow
      BY DEF Replies, here
    <2> QED
      BY <1>2, <1>3, <2>1 DEF TrailInv, GoneIsEmpty
  <1>6. Trails'
    <2>1. /\ \E j \in DOMAIN message[here] : message[here][j] = Answer(turn, step)
          /\ turn # NoTurn => \A i \in DOMAIN message[here] :
               message[here][i].role = "coach" => message[here][i].turn # turn
      BY <1>2, <1>4 DEF InTurn, RecordedOnReply, turn, step, here
    <2>2. TrailOf(message'[here], gateCall[here])
      BY <1>1, <1>3, <1>4, <2>1, TrailAfterReply
    <2> QED
      BY <1>2, <1>3, <2>2 DEF TrailInv, Trails
  <1>7. ASSUME NEW q \in Req PROVE AtGate(q)'
    <2>1. SUFFICES ASSUME pc'[q] = "gate" PROVE Accepts(q)' /\ ~ Recorded(at[q], call[q].turn)'
      BY DEF AtGate
    <2>2. q # r /\ Same(q) /\ hold[q] = {at[q]} /\ pc[q] = "gate"
      BY <1>2, <2>1, StillAtGate DEF Same
    <2>3. at[q] \in Sid \ {here} /\ Accepts(q) /\ ~ Recorded(at[q], call[q].turn)
      BY <2>2, TrailTypes DEF TrailInv, AtGate, Placed, Replies, Holders, here
    <2>4. message'[at[q]] = message[at[q]]
      BY <1>3, <2>3
    <2> QED
      BY <2>2, <2>3, <2>4 DEF Accepts, Recorded, Same
  <1>8. ASSUME NEW q \in Req PROVE InTurn(q)'
    <2>1. SUFFICES ASSUME Replying(q)' PROVE InTurn(q)'
      BY DEF InTurn
    <2>2. Replying(q) /\ at'[q] = at[q] /\ call'[q] = call[q] /\ q # r
      BY <1>2, <2>1, StillReplying DEF Replying
    <2>3. at[q] \in Sid /\ InTurn(q) /\ Apart(r, q)
      BY <2>2, TrailTypes DEF Replying, Placed, TrailInv
    <2>4. CASE at[q] # here
      BY <1>3, <2>2, <2>3, <2>4 DEF InTurn, RecordedOnReply
    <2>5. CASE at[q] = here
      <3>1. turn # call[q].turn \/ turn = NoTurn
        BY <1>2, <2>2, <2>3, <2>5 DEF Apart, turn, here
      <3>2. /\ \A i \in DOMAIN message[here] : i \in DOMAIN message'[here] /\ message'[here][i] = message[here][i]
            /\ \A i \in DOMAIN message'[here] : i \in DOMAIN message[here] \/ message'[here][i] = Reply(turn, step)
        <4> DEFINE texts == message[here]
                   m     == Reply(turn, step)
        <4>1. m \in Message /\ texts \in Seq(Message) /\ message'[here] = Append(texts, m)
          BY <1>1, <1>3 DEF Reply, Message
        <4> HIDE DEF texts, m
        <4>2. /\ \A i \in DOMAIN texts : i \in DOMAIN Append(texts, m) /\ Append(texts, m)[i] = texts[i]
              /\ \A i \in DOMAIN Append(texts, m) : i \in DOMAIN texts \/ Append(texts, m)[i] = m
          BY <4>1, Appended
        <4> QED
          BY <4>1, <4>2 DEF texts, m
      <3>3. Reply(turn, step).turn = turn
        BY <1>1, Messages
      <3>4. call[q].turn # NoTurn => \A i \in DOMAIN message'[here] :
              message'[here][i].role = "coach" => message'[here][i].turn # call[q].turn
        BY <2>2, <2>3, <2>5, <3>1, <3>2, <3>3 DEF InTurn, RecordedOnReply
      <3>5. \E j \in DOMAIN message'[here] : message'[here][j] = Answer(call[q].turn, call[q].step)
        BY <2>2, <2>3, <2>5, <3>2 DEF InTurn
      <3> QED
        BY <2>2, <2>5, <3>4, <3>5 DEF InTurn, RecordedOnReply
    <2> QED
      BY <2>4, <2>5
  <1>9. ASSUME NEW p \in Req, NEW q \in Req PROVE Apart(p, q)'
    BY <1>2, StillReplying DEF TrailInv, Apart
  <1> QED
    BY <1>5, <1>6, <1>7, <1>8, <1>9 DEF TrailInv

\* What a judgement appends: the answer with its audit row, and a client's with its reply.
LEMMA Judgement ==
  ASSUME IInv, TrailInv, NEW r \in Req, ServerJudges(r) \/ ClientJudges(r)
  PROVE  /\ at[r] \in Sid /\ hold[r] = {at[r]} /\ Accepts(r) /\ ~ Recorded(at[r], call[r].turn)
         /\ session'[at[r]] # NoRow
         /\ \A s \in Sid \ {at[r]} : /\ session'[s] = session[s] /\ message'[s] = message[s]
                                     /\ gate'[s] = gate[s] /\ gateCall'[s] = gateCall[s]
         /\ \E g \in GateCall :
              /\ g.turn = call[r].turn /\ g.step = call[r].step
              /\ g.answer_seq = Len(message[at[r]]) + 1
              /\ gateCall'[at[r]] = gateCall[at[r]] \cup {g}
              /\ \/ /\ ServerJudges(r) /\ g.provider = "llm"
                    /\ message'[at[r]] = message[at[r]] \o <<Answer(g.turn, g.step)>> \o <<>>
                 \/ /\ ClientJudges(r) /\ g.provider = "byok"
                    /\ message'[at[r]] = message[at[r]] \o <<Answer(g.turn, g.step)>>
                                                        \o <<Reply(g.turn, g.step)>>
  <1>1. /\ at[r] \in Sid /\ mem[r] \in Row
        /\ call[r].turn \in Turn \cup {NoTurn} /\ call[r].step \in Step
        /\ message[at[r]] \in Seq(Message)
    BY TrailTypes DEF ServerJudges, ClientJudges, Placed, Answering
  <1>2. hold[r] = {at[r]}
    BY DEF ServerJudges, ClientJudges, IInv, LockInv, Locked, Locking
  <1>3. Accepts(r) /\ ~ Recorded(at[r], call[r].turn)
    BY DEF ServerJudges, ClientJudges, TrailInv, AtGate
  <1>4. mem[r].step = call[r].step
    BY <1>3 DEF Accepts
  <1>5. PICK verdict \in Verdicts, base \in Row, judge \in {"llm", "byok"},
              replies \in {<<>>, <<ReplyMessage(r)>>} :
          /\ RecordJudgement(r, verdict, judge, base, replies)
          /\ \/ ServerJudges(r) /\ judge = "llm" /\ replies = <<>>
             \/ ClientJudges(r) /\ judge = "byok" /\ replies = <<ReplyMessage(r)>>
    <2>1. CASE ServerJudges(r)
      <3> DEFINE found == IF session[at[r]] = NoRow THEN mem[r] ELSE session[at[r]]
      <3>1. found \in Row
        BY <1>1 DEF IInv, TypeInv, TypeOK
      <3>2. \E verdict \in Verdicts : RecordJudgement(r, verdict, "llm", found, <<>>)
        BY <2>1 DEF ServerJudges
      <3> HIDE DEF found
      <3> QED
        BY <2>1, <3>1, <3>2
    <2>2. CASE ClientJudges(r)
      <3>1. session[at[r]] \in Row
        BY <1>1, <2>2 DEF ClientJudges
      <3> QED
        BY <2>2, <3>1 DEF ClientJudges
    <2> QED
      BY <2>1, <2>2
  <1>7. /\ session' = [session EXCEPT ![at[r]] =
                         WithProgress(base, Transition(StateOf(mem[r]), verdict), mem[r].version + 1)]
        /\ message' = [message EXCEPT ![at[r]] = @ \o <<AnswerMessage(r)>> \o replies]
        /\ \E row : gate' = [gate EXCEPT ![at[r]][mem[r].step] = row]
        /\ gateCall' = [gateCall EXCEPT ![at[r]] = @ \cup
              {[turn |-> call[r].turn, step |-> mem[r].step, answer_seq |-> NextSeq(at[r]),
                verdict |-> verdict.verdict, provider |-> judge]}]
    BY <1>5 DEF RecordJudgement
  <1>8. session'[at[r]] # NoRow
    BY <1>1, <1>5, <1>7, JudgedRow DEF IInv, TypeInv, TypeOK
  <1>9. \A s \in Sid \ {at[r]} : /\ session'[s] = session[s] /\ message'[s] = message[s]
                                 /\ gate'[s] = gate[s] /\ gateCall'[s] = gateCall[s]
    BY <1>1, <1>7 DEF IInv, TypeInv, TypeOK
  <1>10. AnswerMessage(r) = Answer(call[r].turn, call[r].step) /\ ReplyMessage(r) = Reply(call[r].turn, call[r].step)
    BY <1>4 DEF AnswerMessage, ReplyMessage, Answer, Reply
  <1> DEFINE g == [turn |-> call[r].turn, step |-> mem[r].step, answer_seq |-> NextSeq(at[r]),
                   verdict |-> verdict.verdict, provider |-> judge]
  <1>11. g \in GateCall
    <2>1. verdict.verdict \in Verdict
      BY ServiceAssumption DEF GateVerdict
    <2>2. NextSeq(at[r]) \in Nat
      BY <1>1 DEF NextSeq
    <2> QED
      BY <1>1, <1>4, <2>1, <2>2 DEF GateCall
  <1>12. /\ g.turn = call[r].turn /\ g.step = call[r].step
         /\ g.answer_seq = Len(message[at[r]]) + 1 /\ g.provider = judge
    BY <1>4 DEF NextSeq
  <1>13. /\ gateCall'[at[r]] = gateCall[at[r]] \cup {g}
         /\ message'[at[r]] = message[at[r]] \o <<Answer(call[r].turn, call[r].step)>> \o replies
    BY <1>1, <1>7, <1>10 DEF IInv, TypeInv, TypeOK
  <1> HIDE DEF g
  <1>14. \/ /\ ServerJudges(r) /\ g.provider = "llm"
            /\ message'[at[r]] = message[at[r]] \o <<Answer(g.turn, g.step)>> \o <<>>
         \/ /\ ClientJudges(r) /\ g.provider = "byok"
            /\ message'[at[r]] = message[at[r]] \o <<Answer(g.turn, g.step)>> \o <<Reply(g.turn, g.step)>>
    BY <1>5, <1>10, <1>12, <1>13, Zenon
  <1> QED
    BY <1>1, <1>2, <1>3, <1>8, <1>9, <1>11, <1>12, <1>13, <1>14

LEMMA JudgesTrail ==
  ASSUME IInv, FreshInv, TrailInv, NEW r \in Req, StepOf(r), ServerJudges(r) \/ ClientJudges(r)
  PROVE  TrailInv'
  <1> DEFINE turn  == call[r].turn
             step  == call[r].step
             here  == at[r]
             texts == message[here]
             calls == gateCall[here]
  <1>1. PICK g \in GateCall :
          /\ g.turn = turn /\ g.step = step /\ g.answer_seq = Len(texts) + 1
          /\ gateCall'[here] = calls \cup {g}
          /\ \/ /\ ServerJudges(r) /\ g.provider = "llm"
                /\ message'[here] = texts \o <<Answer(g.turn, g.step)>> \o <<>>
             \/ /\ ClientJudges(r) /\ g.provider = "byok"
                /\ message'[here] = texts \o <<Answer(g.turn, g.step)>> \o <<Reply(g.turn, g.step)>>
    BY Judgement
  <1>2. /\ here \in Sid /\ hold[r] = {here} /\ session'[here] # NoRow
        /\ \A s \in Sid \ {here} : /\ session'[s] = session[s] /\ message'[s] = message[s]
                                   /\ gate'[s] = gate[s] /\ gateCall'[s] = gateCall[s]
    BY Judgement
  <1>3. turn # NoTurn => \A i \in DOMAIN texts : texts[i].role = "user" => texts[i].turn # turn
    BY Judgement DEF Recorded
  <1>4. /\ turn \in Turn \cup {NoTurn} /\ step \in Step
        /\ texts \in Seq(Message) /\ calls \in SUBSET GateCall /\ TrailOf(texts, calls)
    BY <1>2, TrailTypes DEF ServerJudges, ClientJudges, Answering, TrailInv, Trails
  <1>5. GoneIsEmpty'
    BY <1>2 DEF TrailInv, GoneIsEmpty
  <1> HIDE DEF texts, calls
  <1>6. TrailOf(message'[here], gateCall'[here])
    <2>1. CASE g.provider = "llm"
      <3>1. message'[here] = texts \o <<Answer(g.turn, g.step)>> \o <<>>
        BY <1>1, <2>1
      <3>2. TrailOf(texts \o <<Answer(g.turn, g.step)>> \o <<>>, calls \cup {g})
        <4> HIDE DEF turn, step, here
        <4> QED
          BY <1>1, <1>3, <1>4, <2>1, TrailAfterAnswer
      <3> QED
        BY <1>1, <3>1, <3>2
    <2>2. CASE g.provider = "byok"
      <3>1. message'[here] = texts \o <<Answer(g.turn, g.step)>> \o <<Reply(g.turn, g.step)>>
        BY <1>1, <2>2
      <3>2. TrailOf(texts \o <<Answer(g.turn, g.step)>> \o <<Reply(g.turn, g.step)>>, calls \cup {g})
        <4> HIDE DEF turn, step, here
        <4> QED
          BY <1>1, <1>3, <1>4, TrailAfterBoth
      <3> QED
        BY <1>1, <3>1, <3>2
    <2> QED
      BY <1>1, <2>1, <2>2
  <1>7. Trails'
    BY <1>2, <1>6 DEF TrailInv, Trails
  <1>8. /\ \A i \in DOMAIN texts : i \in DOMAIN message'[here] /\ message'[here][i] = texts[i]
        /\ \A i \in DOMAIN message'[here] :
             \/ i \in DOMAIN texts
             \/ message'[here][i] = Answer(turn, step)
             \/ ClientJudges(r) /\ message'[here][i] = Reply(turn, step)
        /\ \E i \in DOMAIN message'[here] : message'[here][i] = Answer(turn, step)
    <2>1. Answer(turn, step) \in Message /\ Reply(turn, step) \in Message
      BY <1>4, Messages
    <2> DEFINE a   == Answer(turn, step)
               c   == Reply(turn, step)
               new == message'[here]
    <2> HIDE DEF turn, step, here
    <2>2. a \in Message /\ c \in Message /\ texts \in Seq(Message)
      BY <1>4, <2>1
    <2>3. new = texts \o <<a>> \o <<>> \/ (ClientJudges(r) /\ new = texts \o <<a>> \o <<c>>)
      BY <1>1
    <2> HIDE DEF a, c, new
    <2>4. texts \o <<a>> \o <<>> = Append(texts, a) /\ texts \o <<a>> \o <<c>> = Append(Append(texts, a), c)
      BY <2>2
    <2>5. CASE new = Append(texts, a)
      BY <2>2, <2>5, Appended DEF a, new
    <2>6. CASE ClientJudges(r) /\ new = Append(Append(texts, a), c)
      <3> DEFINE mid == Append(texts, a)
      <3>1. /\ mid \in Seq(Message) /\ Len(texts) \in Nat /\ Len(mid) = Len(texts) + 1
            /\ DOMAIN texts = 1 .. Len(texts) /\ DOMAIN mid = 1 .. (Len(texts) + 1)
            /\ (\A i \in DOMAIN texts : mid[i] = texts[i]) /\ mid[Len(texts) + 1] = a
        BY <2>2, Appended
      <3> HIDE DEF mid
      <3>2. /\ DOMAIN Append(mid, c) = 1 .. (Len(texts) + 2)
            /\ (\A i \in DOMAIN mid : Append(mid, c)[i] = mid[i]) /\ Append(mid, c)[Len(texts) + 2] = c
        BY <2>2, <3>1, Appended
      <3>3. /\ \A i \in DOMAIN texts : i \in DOMAIN new /\ new[i] = texts[i]
            /\ \A i \in DOMAIN new : i \in DOMAIN texts \/ new[i] = a \/ new[i] = c
            /\ Len(texts) + 1 \in DOMAIN new /\ new[Len(texts) + 1] = a
        BY <2>6, <3>1, <3>2 DEF mid
      <3> QED
        BY <2>6, <3>3 DEF a, c, new
    <2> QED
      BY <2>3, <2>4, <2>5, <2>6
  <1>9. /\ Answer(turn, step).role = "user" /\ Answer(turn, step).turn = turn
        /\ Reply(turn, step).role = "coach" /\ Reply(turn, step).turn = turn
    BY <1>4, Messages
  <1>10. turn # NoTurn => \A i \in DOMAIN texts : texts[i].role = "coach" => texts[i].turn # turn
    <2>1. SUFFICES ASSUME turn # NoTurn, NEW i \in DOMAIN texts, texts[i].role = "coach", texts[i].turn = turn
                   PROVE  FALSE
      OBVIOUS
    <2>2. PICK j \in 1 .. i - 1 : texts[j] = Answer(turn, texts[i].step)
      <3>1. RepliesAnswer(texts)
        BY <1>4 DEF TrailOf
      <3> HIDE DEF turn
      <3> QED
        BY <2>1, <3>1 DEF RepliesAnswer
    <2>3. texts[i].step \in Step /\ j \in DOMAIN texts
      <3>1. texts \in Seq(Message)
        BY <1>4
      <3>2. texts[i] \in Message /\ DOMAIN texts = 1 .. Len(texts) /\ Len(texts) \in Nat
        BY <3>1
      <3> QED
        BY <3>2, <2>2 DEF Message
    <2>4. texts[j].role = "user" /\ texts[j].turn = turn
      BY <1>4, <2>2, <2>3, Messages
    <2> QED
      BY <1>3, <2>1, <2>3, <2>4
  <1> HIDE DEF turn, step, here
  <1>11. ASSUME NEW q \in Req PROVE AtGate(q)'
    <2>1. SUFFICES ASSUME pc'[q] = "gate" PROVE Accepts(q)' /\ ~ Recorded(at[q], call[q].turn)'
      BY DEF AtGate
    <2>2. q # r /\ Same(q) /\ at[q] \notin hold[r] /\ pc[q] = "gate"
      BY <2>1, StillAtGate DEF ServerJudges, ClientJudges, Moves, Same
    <2>3. at[q] \in Sid /\ Accepts(q) /\ ~ Recorded(at[q], call[q].turn)
      BY <2>2, TrailTypes DEF TrailInv, AtGate, Placed
    <2>4. message'[at[q]] = message[at[q]]
      BY <1>2, <2>2, <2>3
    <2> QED
      BY <2>2, <2>3, <2>4 DEF Accepts, Recorded, Same
  \* An answer in the transcript is of another turn than r's.
  <1>12. ASSUME NEW q \in Req, Replying(q), at[q] = here
         PROVE  turn # call[q].turn \/ turn = NoTurn
    <2>1. PICK j \in DOMAIN texts : texts[j] = Answer(call[q].turn, call[q].step)
      BY <1>12 DEF TrailInv, InTurn, texts
    <2>2. texts[j].role = "user" /\ texts[j].turn = call[q].turn
      BY <1>12, <2>1, TrailTypes, Messages DEF Replying, Answering
    <2> QED
      BY <1>3, <2>1, <2>2
  <1>13. ASSUME NEW q \in Req, q # r, Replying(q)'
         PROVE  Replying(q) /\ at'[q] = at[q] /\ call'[q] = call[q] /\ at[q] \in Sid
    BY <1>13, StillReplying, TrailTypes DEF Replying, Placed
  <1>14. Replying(r)' => ServerJudges(r) /\ at'[r] = here /\ call'[r].turn = turn /\ call'[r].step = step
    BY DEF Replying, ServerJudges, ClientJudges, here, turn, step
  <1>15. ASSUME NEW q \in Req PROVE InTurn(q)'
    <2>1. SUFFICES ASSUME Replying(q)' PROVE InTurn(q)'
      BY DEF InTurn
    <2>2. CASE q = r
      <3>1. ~ ClientJudges(r)
        BY <1>14, <2>1, <2>2 DEF ServerJudges, ClientJudges
      <3>2. turn # NoTurn => \A i \in DOMAIN message'[here] :
              message'[here][i].role = "coach" => message'[here][i].turn # turn
        BY <1>8, <1>9, <1>10, <3>1
      <3> QED
        BY <1>8, <1>14, <2>1, <2>2, <3>2 DEF InTurn, RecordedOnReply
    <2>3. CASE q # r /\ at[q] # here
      BY <1>2, <1>13, <2>1, <2>3 DEF TrailInv, InTurn, RecordedOnReply
    <2>4. CASE q # r /\ at[q] = here
      <3>1. Replying(q) /\ at'[q] = here /\ call'[q] = call[q] /\ InTurn(q)
        BY <1>13, <2>1, <2>4 DEF TrailInv
      <3>2. turn # call[q].turn \/ turn = NoTurn
        BY <1>12, <2>4, <3>1
      <3>3. call[q].turn # NoTurn => \A i \in DOMAIN texts :
              texts[i].role = "coach" => texts[i].turn # call[q].turn
        BY <2>4, <3>1 DEF InTurn, RecordedOnReply, texts
      <3>4. call[q].turn # NoTurn => \A i \in DOMAIN message'[here] :
              message'[here][i].role = "coach" => message'[here][i].turn # call[q].turn
        BY <1>8, <1>9, <3>2, <3>3
      <3>5. \E j \in DOMAIN message'[here] : message'[here][j] = Answer(call[q].turn, call[q].step)
        BY <1>8, <2>4, <3>1 DEF InTurn, texts
      <3> QED
        BY <3>1, <3>4, <3>5 DEF InTurn, RecordedOnReply
    <2> QED
      BY <2>2, <2>3, <2>4
  <1>16. ASSUME NEW p \in Req, NEW q \in Req PROVE Apart(p, q)'
    <2>1. CASE p # r /\ q # r
      BY <1>13, <2>1 DEF TrailInv, Apart
    <2>2. CASE p = r /\ q # r
      BY <1>12, <1>13, <1>14, <2>2 DEF Apart
    <2>3. CASE p # r /\ q = r
      BY <1>12, <1>13, <1>14, <2>3 DEF Apart
    <2>4. CASE p = q
      BY <2>4 DEF Apart
    <2> QED
      BY <2>1, <2>2, <2>3, <2>4
  <1> QED
    BY <1>5, <1>7, <1>11, <1>15, <1>16 DEF TrailInv

LEMMA WeatherTrail ==
  ASSUME IInv, TrailInv, Weathers
  PROVE  TrailInv'
  <1>1. UNCHANGED <<session, message, gate, gateCall, call>>
    BY DEF Weathers, Records
  <1>2. ASSUME NEW q \in Req, pc'[q] \in {"gate", "flush", "stream", "write", "fk"}
        PROVE  Same(q)
    BY <1>2 DEF Weathers
  <1>3. ASSUME NEW q \in Req PROVE AtGate(q)'
    BY <1>1, <1>2 DEF TrailInv, AtGate, Accepts, Recorded, Same
  <1>4. ASSUME NEW q \in Req PROVE InTurn(q)'
    BY <1>1, <1>2 DEF TrailInv, InTurn, Replying, RecordedOnReply, Same
  <1>5. ASSUME NEW p \in Req, NEW q \in Req PROVE Apart(p, q)'
    BY <1>1, <1>2 DEF TrailInv, Apart, Replying, Same
  <1>6. GoneIsEmpty' /\ Trails'
    BY <1>1 DEF TrailInv, GoneIsEmpty, Trails
  <1> QED
    BY <1>3, <1>4, <1>5, <1>6 DEF TrailInv

LEMMA InitTrail ==
  ASSUME Init
  PROVE  TrailInv
  BY EmptyTrail DEF Init, TrailInv, GoneIsEmpty, Trails, AtGate, InTurn, Apart, Replying

LEMMA NextTrail ==
  ASSUME IInv, FreshInv, TrailInv, [Next]_vars
  PROVE  TrailInv'
  <1>1. ASSUME NEW r \in Req, StepOf(r), ~ ServerJudges(r), ~ ClientJudges(r), ~ Replies(r), ~ Deletes(r)
        PROVE  UNCHANGED Records
    BY <1>1 DEF StepOf, Moves, Flushes, Conjures, Inserts, Switches
  <1> QED
    BY <1>1, StepKinds, WeatherTrail, QuietTrail, DeletesTrail, RepliesTrail, JudgesTrail

\* Fresh ids and orderly transcripts, with the locks they rest on.
THEOREM TrailInvariant == Spec => [](IInv /\ FreshInv /\ TrailInv)
  BY InitInv, NextInv, InitFresh, NextFresh, InitTrail, NextTrail, PTL DEF Spec

\* A reply is never recorded ahead of its answer, nor twice for a turn id, and a client's
\* verdict brings its reply with it, however turns, retries, resets and crashes interleave.
THEOREM RepliesBehindAnswers == Spec => []RepliesFollowAnswers
  <1>1. ASSUME IInv, TrailInv, NEW s \in Stored, NEW i \in DOMAIN message[s]
        PROVE  LET m == message[s][i]
               IN  /\ m.role = "coach" =>
                        /\ \E j \in 1 .. i - 1 : message[s][j] = [m EXCEPT !.role = "user"]
                        /\ m.turn # NoTurn => \A j \in 1 .. i - 1 : message[s][j] # m
                   /\ (\E g \in gateCall[s] : g.answer_seq = i /\ g.provider = "byok") =>
                        i + 1 \in DOMAIN message[s] /\ message[s][i + 1] = [m EXCEPT !.role = "coach"]
    <2> DEFINE texts == message[s]
               calls == gateCall[s]
               m     == texts[i]
    <2>1. texts \in Seq(Message) /\ calls \in SUBSET GateCall /\ TrailOf(texts, calls)
      BY <1>1, TrailTypes DEF Stored, TrailInv, Trails
    <2>2. m \in Message /\ Len(texts) \in Nat /\ DOMAIN texts = 1 .. Len(texts)
      BY <2>1
    <2> HIDE DEF texts, calls, m
    <2>3. [m EXCEPT !.role = "user"] = Answer(m.turn, m.step) /\ [m EXCEPT !.role = "coach"] = Reply(m.turn, m.step)
      BY <2>2 DEF Message, Answer, Reply
    <2>4. ASSUME m.role = "coach" PROVE \E j \in 1 .. i - 1 : texts[j] = [m EXCEPT !.role = "user"]
      BY <2>1, <2>3, <2>4 DEF TrailOf, RepliesAnswer, m, texts
    <2>5. ASSUME m.turn # NoTurn, NEW j \in 1 .. i - 1 PROVE texts[j] # m
      <3>1. j \in DOMAIN texts /\ i \in DOMAIN texts /\ j # i
        BY <2>2 DEF texts
      <3> QED
        BY <2>1, <2>5, <3>1 DEF TrailOf, OnePerTurn, m
    <2>6. ASSUME NEW g \in calls, g.answer_seq = i, g.provider = "byok"
          PROVE  i + 1 \in DOMAIN texts /\ texts[i + 1] = [m EXCEPT !.role = "coach"]
      <3>1. g.turn \in Turn \cup {NoTurn} /\ g.step \in Step
        BY <2>1 DEF GateCall
      <3>2. m = Answer(g.turn, g.step)
        BY <2>1, <2>6 DEF TrailOf, Audited, m
      <3>3. m.turn = g.turn /\ m.step = g.step
        BY <3>1, <3>2, Messages
      <3> QED
        BY <2>1, <2>3, <2>6, <3>3 DEF TrailOf, ByokReplied
    <2> QED
      BY <2>4, <2>5, <2>6 DEF m, texts, calls
  <1>2. IInv /\ FreshInv /\ TrailInv => RepliesFollowAnswers
    BY <1>1 DEF RepliesFollowAnswers
  <1> QED
    BY <1>2, TrailInvariant, PTL

\* Every answer has exactly one row in the audit trail, at its seq, and no turn id is judged
\* twice in a session, however often a turn is posted and whichever endpoint judges it.
THEOREM EveryAnswerAudited == Spec => []AnswersAudited
  <1>1. ASSUME IInv, TrailInv, NEW s \in Stored
        PROVE  LET answers == {i \in DOMAIN message[s] : message[s][i].role = "user"}
               IN  /\ \A g \in gateCall[s] : g.answer_seq \in answers
                   /\ \A i \in answers : \E g \in gateCall[s] :
                        /\ g.answer_seq = i /\ g.turn = message[s][i].turn /\ g.step = message[s][i].step
                        /\ \A h \in gateCall[s] : h.answer_seq = i => h = g
                   /\ \A i, j \in answers :
                        message[s][i].turn = message[s][j].turn /\ message[s][i].turn # NoTurn => i = j
    <2> DEFINE texts   == message[s]
               calls   == gateCall[s]
               answers == {i \in DOMAIN texts : texts[i].role = "user"}
    <2>1. calls \in SUBSET GateCall /\ TrailOf(texts, calls)
      BY <1>1, TrailTypes DEF Stored, TrailInv, Trails
    <2> HIDE DEF texts, calls
    <2>2. ASSUME NEW g \in calls
          PROVE  /\ g.answer_seq \in answers
                 /\ g.turn = texts[g.answer_seq].turn /\ g.step = texts[g.answer_seq].step
      <3>1. g.turn \in Turn \cup {NoTurn} /\ g.step \in Step
        BY <2>1 DEF GateCall
      <3>2. g.answer_seq \in DOMAIN texts /\ texts[g.answer_seq] = Answer(g.turn, g.step)
        BY <2>1 DEF TrailOf, Audited
      <3> QED
        BY <3>1, <3>2, Messages
    <2>3. ASSUME NEW i \in answers
          PROVE  \E g \in calls : /\ g.answer_seq = i /\ g.turn = texts[i].turn /\ g.step = texts[i].step
                                  /\ \A h \in calls : h.answer_seq = i => h = g
      <3>1. PICK g \in calls : g.answer_seq = i
        BY <2>1 DEF TrailOf, Audited
      <3>2. \A h \in calls : h.answer_seq = i => h = g
        BY <2>1, <3>1 DEF TrailOf, Audited
      <3> QED
        BY <2>2, <3>1, <3>2
    <2>4. \A i, j \in answers : texts[i].turn = texts[j].turn /\ texts[i].turn # NoTurn => i = j
      BY <2>1 DEF TrailOf, OnePerTurn
    <2> QED
      BY <2>2, <2>3, <2>4 DEF texts, calls
  <1>2. IInv /\ FreshInv /\ TrailInv => AnswersAudited
    BY <1>1 DEF AnswersAudited
  <1> QED
    BY <1>2, TrailInvariant, PTL


-------------------------------------------------------------------------------
(***************************************************************************)
(* The message quota.  It is read before the row is locked on the server's *)
(* path, and under the lock on the client's: it holds for a learner whose  *)
(* sessions are all on their own key, as the catalog makes them for the    *)
(* tier the quotas apply to (catalog.validate_choice, sessions.py:194,     *)
(* 216, 279 and 325; no local model is open to Tier.BYOK).                 *)
(***************************************************************************)
OwnKeyOnly ==
  /\ \A r \in Req : \A c \in Offered[r] : c.op \in {"create", "model"} => c.byok
  /\ \A seed \in Seeds : \A s \in DOMAIN seed : seed[s].byok

\* r is not judged on the server's key, and what it may insert is client-direct.
OnOwnKey(r) ==
  /\ pc[r] \in {"idle", "insert", "lock", "record", "echo", "sweep", "done"}
  /\ ~ Reading(r)
  /\ pc[r] = "insert" \/ (pc[r] = "sweep" /\ call[r].op = "reset") => mem[r].byok

\* Messages come in pairs, and a pair is begun below the quota.
Paired(texts) == Len(texts) % 2 = 0 /\ Len(texts) <= MaxMessages + (MaxMessages % 2)

CapInv ==
  /\ \A s \in Stored : session[s].byok
  /\ \A r \in Req : OnOwnKey(r)
  /\ \A s \in Sid : Paired(message[s])

LEMMA PairedAgain ==
  ASSUME Capped, NEW texts \in Seq(Message), Paired(texts), Len(texts) + 1 <= MaxMessages,
         NEW a \in Message, NEW c \in Message
  PROVE  Paired(texts \o <<a>> \o <<c>>)
  <1>1. Len(texts) \in Nat /\ MaxMessages \in Nat
    BY ServiceAssumption
  <1>2. Len(texts \o <<a>> \o <<c>>) = Len(texts) + 2
    OBVIOUS
  <1> DEFINE n == Len(texts)
  <1> HIDE DEF n
  <1>3. (n + 2) % 2 = 0 /\ n + 2 <= MaxMessages + (MaxMessages % 2)
    BY <1>1 DEF Paired, n
  <1> QED
    BY <1>2, <1>3 DEF Paired, n

\* No request gets past the refusal of client-direct sessions, or begins another kind.
LEMMA OwnKeyStays ==
  ASSUME OwnKeyOnly, IInv, FreshInv, CapInv, NEW r \in Req, StepOf(r)
  PROVE  /\ Moves(r) \/ Inserts(r) \/ Switches(r) \/ ClientJudges(r) \/ Deletes(r)
         /\ \A q \in Req : OnOwnKey(q)'
  <1>1. OnOwnKey(r)
    BY DEF CapInv
  <1>2. Moves(r) \/ Inserts(r) \/ Switches(r) \/ ClientJudges(r) \/ Deletes(r)
    BY <1>1 DEF StepOf, OnOwnKey, Flushes, Conjures, ServerJudges, Replies
  <1>3. OnOwnKey(r)'
    <2>1. CASE pc'[r] \in {"done", "echo"}
      BY <2>1 DEF OnOwnKey, Reading
    <2>2. CASE Arrives(r)
      <3>1. ~ (pc'[r] = "scan")
        BY <2>2 DEF Arrives, CapInv
      <3>2. CASE pc'[r] = "insert"
        <4>1. PICK c \in Offered[r] : c.op = "create" /\ mem'[r] = FreshRow(c.problem, c.track, c.byok)
          BY <2>2, <3>2 DEF Arrives
        <4>2. c.byok
          BY <4>1 DEF OwnKeyOnly
        <4>3. mem'[r].byok = c.byok
          BY <4>1 DEF FreshRow
        <4> QED
          BY <3>2, <4>2, <4>3 DEF OnOwnKey, Reading
      <3>3. CASE pc'[r] \in {"lock", "sweep"}
        BY <2>2, <3>3 DEF Arrives, OnOwnKey, Reading
      <3> QED
        BY <2>2, <3>1, <3>2, <3>3 DEF Arrives
    <2>3. CASE GoesOn(r)
      <3>1. pc'[r] \in {"record", "sweep"} /\ pc[r] \in {"lock", "sweep"} /\ call'[r] = call[r]
        BY <1>1, <2>3 DEF GoesOn, OnOwnKey, Reading
      <3>2. pc'[r] = "sweep" /\ call[r].op = "reset" => mem'[r].byok
        <4>1. CASE pc[r] = "lock"
          BY <2>3, <3>1, <4>1 DEF GoesOn, CapInv
        <4>2. CASE pc[r] = "sweep"
          BY <1>1, <2>3, <3>1, <4>2 DEF GoesOn, OnOwnKey
        <4> QED
          BY <3>1, <4>1, <4>2
      <3> QED
        BY <3>1, <3>2 DEF OnOwnKey, Reading
    <2> QED
      BY <1>2, <2>1, <2>2, <2>3 DEF Moves, Inserts, Switches, ClientJudges, Deletes
  <1>4. ASSUME NEW q \in Req \ {r} PROVE OnOwnKey(q)'
    BY DEF CapInv, OnOwnKey, Reading, StepOf, OthersWait, Same
  <1> QED
    BY <1>2, <1>3, <1>4

LEMMA CapStep ==
  ASSUME Capped, OwnKeyOnly, IInv, FreshInv, TrailInv, CapInv, NEW r \in Req, StepOf(r)
  PROVE  CapInv'
  <1>1. /\ Moves(r) \/ Inserts(r) \/ Switches(r) \/ ClientJudges(r) \/ Deletes(r)
        /\ \A q \in Req : OnOwnKey(q)'
    BY OwnKeyStays
  <1>2. /\ session \in [Sid -> Row \cup {NoRow}]
        /\ call[r] \in Offered[r] \/ pc[r] \in {"idle", "done"}
    BY DEF IInv, TypeInv, TypeOK, FreshInv, Drawn
  <1>3. OnOwnKey(r) /\ \A s \in Sid : session[s] # NoRow => session[s].byok
    BY DEF CapInv, Stored
  <1>4. ASSUME NEW s \in Sid, session'[s] # NoRow PROVE session'[s].byok
    <2>1. CASE Moves(r)
      BY <1>3, <1>4, <2>1 DEF Moves
    <2>2. CASE Inserts(r)
      <3>1. session' = [session EXCEPT ![minted + 1] = mem[r]] /\ mem[r].byok
        BY <1>3, <2>2 DEF Inserts, OnOwnKey
      <3> QED
        BY <1>3, <1>4, <3>1 DEF IInv, TypeInv, TypeOK
    <2>3. CASE Switches(r)
      <3>1. session' = [session EXCEPT ![at[r]] = Switched(@, call[r].byok)] /\ call[r].byok /\ session[at[r]] # NoRow
        BY <1>2, <2>3 DEF Switches, OwnKeyOnly
      <3>2. at[r] \in Sid /\ session[at[r]] \in Row
        BY <2>3, <3>1 DEF Switches, IInv, TypeInv, TypeOK, ReqInv, Placed
      <3>3. Switched(session[at[r]], call[r].byok).byok = call[r].byok
        BY <3>2 DEF Switched, Row
      <3> QED
        BY <1>3, <1>4, <3>1, <3>2, <3>3 DEF IInv, TypeInv, TypeOK
    <2>4. CASE ClientJudges(r)
      <3>1. session[at[r]] = mem[r] /\ mem[r] \in Row /\ at[r] \in Sid
        BY <2>4, TrailTypes DEF ClientJudges, Answering, Placed
      <3>2. PICK verdict \in Verdicts :
              session' = [session EXCEPT ![at[r]] =
                            WithProgress(session[at[r]], Transition(StateOf(mem[r]), verdict), mem[r].version + 1)]
        BY <2>4 DEF ClientJudges, RecordJudgement
      <3>3. session[at[r]].byok
        BY <1>3, <3>1, RowFields
      <3>4. \A state, version : WithProgress(mem[r], state, version).byok = mem[r].byok
        BY <3>1 DEF WithProgress, Row
      <3> QED
        BY <1>3, <1>4, <3>1, <3>2, <3>3, <3>4 DEF IInv, TypeInv, TypeOK
    <2>5. CASE Deletes(r)
      <3>1. CASE session'[s] = session[s]
        BY <1>3, <1>4, <3>1
      <3>2. CASE session'[s] # session[s]
        <4>1. call[r].op = "reset" /\ session'[s] = FreshRow(mem[r].problem, mem[r].track, mem[r].byok)
          BY <1>4, <2>5, <3>2 DEF Deletes, CommitDelete
        <4>2. mem[r].byok
          BY <1>3, <2>5, <4>1 DEF Deletes, OnOwnKey
        <4> QED
          BY <4>1, <4>2 DEF FreshRow
      <3> QED
        BY <3>1, <3>2
    <2> QED
      BY <1>1, <2>1, <2>2, <2>3, <2>4, <2>5
  <1>5. ASSUME NEW s \in Sid PROVE Paired(message'[s])
    <2>1. Paired(message[s])
      BY DEF CapInv
    <2>2. CASE message'[s] = message[s]
      BY <2>1, <2>2
    <2>3. CASE message'[s] = <<>>
      <3>1. MaxMessages \in Nat
        BY ServiceAssumption
      <3> QED
        BY <2>3, <3>1 DEF Paired
    <2>4. CASE ClientJudges(r) /\ s = at[r]
      <3> DEFINE texts == message[s]
                 a     == Answer(call[r].turn, call[r].step)
                 c     == Reply(call[r].turn, call[r].step)
      <3>1. /\ texts \in Seq(Message)
            /\ call[r].turn \in Turn \cup {NoTurn} /\ call[r].step \in Step
        BY <2>4, TrailTypes DEF ClientJudges, Answering
      <3>2. a \in Message /\ c \in Message
        BY <3>1, Messages
      <3>3. Len(texts) + 1 <= MaxMessages
        <4>1. Len(texts) \in Nat /\ MaxMessages \in Nat
          BY <3>1, ServiceAssumption
        <4> QED
          BY <2>4, <4>1 DEF ClientJudges, OverCap, NextSeq
      <3>4. message'[s] = texts \o <<a>> \o <<c>>
        <4>1. ~ ServerJudges(r)
          BY <2>4 DEF ClientJudges, ServerJudges
        <4> QED
          BY <2>4, <4>1, Judgement
      <3>5. Paired(texts)
        BY <2>1
      <3> HIDE DEF texts, a, c
      <3> QED
        BY <3>1, <3>2, <3>3, <3>4, <3>5, PairedAgain
    <2>5. message'[s] = message[s] \/ message'[s] = <<>> \/ (ClientJudges(r) /\ s = at[r])
      <3>1. ClientJudges(r) /\ s # at[r] => message'[s] = message[s]
        BY Judgement
      <3> QED
        BY <1>1, <3>1 DEF Moves, Inserts, Switches, Deletes, CommitDelete, Records
    <2> QED
      BY <2>2, <2>3, <2>4, <2>5
  <1> QED
    BY <1>1, <1>4, <1>5 DEF CapInv, Stored

LEMMA NextCap ==
  ASSUME Capped, OwnKeyOnly, IInv, FreshInv, TrailInv, CapInv, [Next]_vars
  PROVE  CapInv'
  <1>1. CASE Weathers
    <2>1. session' = session /\ message' = message /\ call' = call /\ Stored' = Stored
      BY <1>1 DEF Weathers, Records, Stored
    <2>2. ASSUME NEW q \in Req PROVE OnOwnKey(q)'
      BY <1>1, <2>1 DEF Weathers, CapInv, OnOwnKey, Reading, Same
    <2> QED
      BY <2>1, <2>2 DEF CapInv
  <1> QED
    BY <1>1, StepKinds, CapStep

LEMMA InitCap ==
  ASSUME OwnKeyOnly, Init
  PROVE  CapInv
  <1>1. PICK seed \in Seeds :
          session = [z \in Sid |-> IF z \in DOMAIN seed
                                   THEN FreshRow(seed[z].problem, seed[z].track, seed[z].byok)
                                   ELSE NoRow]
    BY DEF Init
  <1>2. \A s \in Stored : session[s].byok
    BY <1>1 DEF Stored, FreshRow, OwnKeyOnly
  <1>3. \A r \in Req : OnOwnKey(r)
    BY DEF Init, OnOwnKey, Reading
  <1>4. \A s \in Sid : Paired(message[s])
    <2>1. MaxMessages \in Nat
      BY ServiceAssumption
    <2> QED
      BY <2>1 DEF Init, Paired
  <1> QED
    BY <1>2, <1>3, <1>4 DEF CapInv

\* The conversation of a capped learner never outgrows the message quota by more than the reply
\* of its last answer, however many answers are recorded at once.
THEOREM QuotaHolds ==
  ASSUME Capped => OwnKeyOnly
  PROVE  Spec => []MessageCap
  <1>1. CASE ~ Capped
    <2>1. MessageCap
      BY <1>1 DEF MessageCap
    <2> QED
      BY <2>1, PTL
  <1>2. CASE Capped
    <2>1. OwnKeyOnly
      BY <1>2
    <2>2. Init => CapInv
      BY <2>1, InitCap
    <2>3. IInv /\ FreshInv /\ TrailInv /\ CapInv /\ [Next]_vars => CapInv'
      BY <1>2, <2>1, NextCap
    <2>4. CapInv => MessageCap
      BY DEF CapInv, Paired, MessageCap
    <2> QED
      BY <2>2, <2>3, <2>4, TrailInvariant, PTL DEF Spec
  <1> QED
    BY <1>1, <1>2
===============================================================================
