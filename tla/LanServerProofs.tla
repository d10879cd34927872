-------------------------- MODULE LanServerProofs --------------------------
(***************************************************************************)
(* The safety properties of LanServer, for any number of slots, workers,   *)
(* packets, pipes and connections, where sends fit the mode (SendsFitMode).*)
(* Of a server whose sends do not they are false: see MCLanLast.cfg.       *)
(* LanInv is the inductive invariant.                                      *)
(***************************************************************************)
EXTENDS LanServer, FiniteSetTheorems, FunctionTheorems, SequenceTheorems, TLAPS

-----------------------------------------------------------------------------
(* The record of a session: what its functions do to the count.            *)

\* the references an operation or a move of r holds
Ops(r) == (IF r.recv = "none" THEN 0 ELSE 1) + SendHolds(r) + (IF r.moving THEN 1 ELSE 0)

\* x is the same session in the same place
Same(x, r) ==
  /\ x.id = r.id /\ x.dead = r.dead
  /\ x.cur = r.cur /\ x.dest = r.dest /\ x.moving = r.moving

\* in a behaviour that uses pipes nothing is sent
Silent(r) == r.sendQ = <<>> /\ r.send = "none"

\* r has the references of its operations and n more
Holds(r, n) == GoodRecord(r) /\ n \in Nat /\ r.refs = Ops(r) + n

LEMMA DropFields ==
  ASSUME NEW r \in Sessions, NEW n \in Nat, r.refs - n \in Nat
  PROVE  /\ Drop(r, n) \in Sessions /\ Drop(r, n).refs = r.refs - n
         /\ Same(Drop(r, n), r) /\ Drop(r, n).jobQ = r.jobQ
         /\ Drop(r, n).canceled = r.canceled
         /\ Drop(r, n).recv = r.recv /\ Drop(r, n).send = r.send
         /\ Drop(r, n).sending = r.sending
         /\ Drop(r, n).sendQ = r.sendQ /\ Drop(r, n).sentQ = r.sentQ
BY DEF Drop, Sessions, Same

LEMMA DisconnectedFields ==
  ASSUME NEW r \in Sessions
  PROVE  /\ Disconnected(r) \in Sessions /\ Disconnected(r).refs = r.refs
         /\ Same(Disconnected(r), r) /\ Disconnected(r).jobQ = r.jobQ
         /\ Disconnected(r).canceled
         /\ Disconnected(r).recv = (IF r.recv = "posted" THEN "aborted" ELSE r.recv)
         /\ Disconnected(r).send = (IF r.send = "posted" THEN "aborted" ELSE r.send)
         /\ Disconnected(r).sending = r.sending
         /\ Disconnected(r).sendQ = r.sendQ /\ Disconnected(r).sentQ = r.sentQ
BY ZenonT(40), ZenonT(40) DEF Disconnected, Sessions, Same

LEMMA OpsRange ==
  ASSUME NEW r \in Sessions
  PROVE  Ops(r) \in Nat
BY DEF Ops, SendHolds, Sessions

LEMMA DropHolds ==
  ASSUME NEW r, NEW n, NEW m, Holds(r, n + m), n \in Nat, m \in Nat
  PROVE  /\ Holds(Drop(r, m), n) /\ Same(Drop(r, m), r)
         /\ Silent(r) => Silent(Drop(r, m))
         /\ Drop(r, m).sending = r.sending
         /\ Drop(r, m).recv = r.recv /\ Drop(r, m).send = r.send
         /\ Drop(r, m).sendQ = r.sendQ /\ Drop(r, m).sentQ = r.sentQ
         /\ Drop(r, m).canceled = r.canceled
<1> DEFINE x == Drop(r, m)
<1>1. r \in Sessions /\ Ops(r) \in Nat /\ r.refs - m \in Nat
  BY OpsRange DEF Holds, GoodRecord
<1>2. /\ x \in Sessions /\ x.refs = r.refs - m /\ Same(x, r) /\ x.jobQ = r.jobQ
      /\ x.canceled = r.canceled /\ x.recv = r.recv /\ x.send = r.send
      /\ x.sending = r.sending /\ x.sendQ = r.sendQ /\ x.sentQ = r.sentQ
  BY <1>1, DropFields
<1> HIDE DEF x
<1>3. Ops(x) = Ops(r)
  BY <1>2 DEF Ops, SendHolds, Same
<1>4. GoodRecord(x)
  BY <1>2 DEF Holds, GoodRecord, Same
<1>5. Holds(x, n)
  BY <1>1, <1>2, <1>3, <1>4 DEF Holds
<1>6. QED
  BY <1>2, <1>5 DEF x, Silent

LEMMA DropTwo ==
  ASSUME NEW r, NEW n, Holds(r, n + 2), n \in Nat
  PROVE  /\ Holds(Drop(r, 2), n) /\ Same(Drop(r, 2), r)
         /\ Drop(r, 2).sending = r.sending
         /\ Drop(r, 2).recv = r.recv /\ Drop(r, 2).send = r.send
         /\ Drop(r, 2).sendQ = r.sendQ /\ Drop(r, 2).sentQ = r.sentQ
         /\ Drop(r, 2).canceled = r.canceled
<1>1. PICK two \in Nat : two = 2
  OBVIOUS
<1>2. Holds(r, n + two)
  BY <1>1
<1>3. /\ Holds(Drop(r, two), n) /\ Same(Drop(r, two), r)
      /\ Drop(r, two).sending = r.sending
      /\ Drop(r, two).recv = r.recv /\ Drop(r, two).send = r.send
      /\ Drop(r, two).sendQ = r.sendQ /\ Drop(r, two).sentQ = r.sentQ
      /\ Drop(r, two).canceled = r.canceled
  BY <1>2, DropHolds, ZenonT(40), ZenonT(40)
<1>4. QED
  BY <1>1, <1>3

LEMMA DisconnectedHolds ==
  ASSUME NEW r, NEW n, Holds(r, n)
  PROVE  /\ Holds(Disconnected(r), n) /\ Same(Disconnected(r), r)
         /\ Silent(r) => Silent(Disconnected(r))
         /\ Disconnected(r).sending = r.sending /\ Disconnected(r).canceled
         /\ r.send = "none" => Disconnected(r).send = "none"
         /\ r.recv = "none" => Disconnected(r).recv = "none"
         /\ Disconnected(r).sendQ = r.sendQ /\ Disconnected(r).sentQ = r.sentQ
<1> DEFINE x == Disconnected(r)
<1>1. r \in Sessions
  BY DEF Holds, GoodRecord
<1>2. /\ x \in Sessions /\ x.refs = r.refs /\ Same(x, r) /\ x.jobQ = r.jobQ
      /\ x.canceled
      /\ x.recv = (IF r.recv = "posted" THEN "aborted" ELSE r.recv)
      /\ x.send = (IF r.send = "posted" THEN "aborted" ELSE r.send)
      /\ x.sending = r.sending /\ x.sendQ = r.sendQ /\ x.sentQ = r.sentQ
  BY <1>1, DisconnectedFields
<1> HIDE DEF x
<1>3. Ops(x) = Ops(r)
  BY <1>2 DEF Ops, SendHolds, Same
<1>4. GoodRecord(x)
  BY <1>2 DEF Holds, GoodRecord, Same
<1>5. Holds(x, n)
  BY <1>2, <1>3, <1>4 DEF Holds
<1>6. QED
  BY <1>2, <1>5 DEF x, Silent

LEMMA DisconnectedSessionHolds ==
  ASSUME NEW r, NEW n, Holds(r, n + 1), n \in Nat
  PROVE  /\ Holds(DisconnectedSession(r), n) /\ Same(DisconnectedSession(r), r)
         /\ Silent(r) => Silent(DisconnectedSession(r))
         /\ DisconnectedSession(r).sending = r.sending
         /\ r.send = "none" => DisconnectedSession(r).send = "none"
         /\ r.recv = "none" => DisconnectedSession(r).recv = "none"
         /\ DisconnectedSession(r).sendQ = r.sendQ /\ DisconnectedSession(r).sentQ = r.sentQ
<1> DEFINE d == Disconnected(r)
<1>1. /\ Holds(d, n + 1) /\ Same(d, r) /\ (Silent(r) => Silent(d)) /\ d.sending = r.sending
      /\ (r.send = "none" => d.send = "none") /\ (r.recv = "none" => d.recv = "none")
      /\ d.sendQ = r.sendQ /\ d.sentQ = r.sentQ
  BY DisconnectedHolds
<1>2. DisconnectedSession(r) = Drop(d, 1)
  BY DEF DisconnectedSession
<1> DEFINE x == Drop(d, 1)
<1> HIDE DEF d
<1>3. /\ Holds(x, n) /\ Same(x, d) /\ (Silent(d) => Silent(x)) /\ x.sending = d.sending
      /\ x.recv = d.recv /\ x.send = d.send /\ x.sendQ = d.sendQ /\ x.sentQ = d.sentQ
  BY <1>1, DropHolds
<1>4. Same(x, r)
  BY <1>1, <1>3 DEF Same
<1> HIDE DEF x
<1>5. Silent(r) => Silent(x)
  BY <1>1, <1>3
<1>6. QED
  BY <1>1, <1>2, <1>3, <1>4, <1>5 DEF x

\* RecvPost: r comes with the reference of its caller.
LEMMA RecvPostedHolds ==
  ASSUME NEW r, NEW n, Holds(r, n + 1), n \in Nat, r.recv = "none", NEW x \in RecvPosted(r)
  PROVE  /\ Holds(x, n) /\ Same(x, r) /\ (Silent(r) => Silent(x)) /\ x.sending = r.sending
         /\ r.send = "none" => x.send = "none"
         /\ x.sendQ = r.sendQ /\ x.sentQ = r.sentQ
<1>1. r \in Sessions
  BY DEF Holds, GoodRecord
<1>2. CASE x = [r EXCEPT !.recv = IF r.canceled THEN "aborted" ELSE "posted"]
  <2>1. /\ x \in Sessions /\ x.refs = r.refs /\ Same(x, r) /\ x.jobQ = r.jobQ
        /\ x.canceled = r.canceled /\ x.send = r.send
        /\ x.recv = (IF r.canceled THEN "aborted" ELSE "posted")
        /\ x.sending = r.sending /\ x.sendQ = r.sendQ /\ x.sentQ = r.sentQ
    BY <1>1, <1>2 DEF Sessions, Same
  <2>2. Ops(x) = Ops(r) + 1 /\ Ops(r) \in Nat
    BY <1>1, <2>1, OpsRange DEF Ops, SendHolds, Same, Sessions
  <2>3. GoodRecord(x)
    BY <2>1 DEF Holds, GoodRecord, Same
  <2>4. Holds(x, n)
    BY <2>1, <2>2, <2>3 DEF Holds
  <2>5. QED
    BY <2>1, <2>4 DEF Silent
<1>3. CASE x = DisconnectedSession([r EXCEPT !.recv = "none"])
  <2>1. [r EXCEPT !.recv = "none"] = r
    BY <1>1 DEF Sessions
  <2>2. QED
    BY <1>3, <2>1, DisconnectedSessionHolds
<1>4. QED
  BY <1>2, <1>3 DEF RecvPosted

\* what WSASend was given
LEMMA FilledHolds ==
  ASSUME NEW r, NEW n, Holds(r, n), r.send = "none"
  PROVE  /\ Holds(Filled(r), n) /\ Same(Filled(r), r) /\ Filled(r).sending
         /\ Filled(r).send = "none" /\ Filled(r).recv = r.recv /\ Filled(r).canceled = r.canceled
         /\ Filled(r).sendQ = <<>> /\ Filled(r).sentQ = r.sendQ
<1> DEFINE x == Filled(r)
<1>1. r \in Sessions
  BY DEF Holds, GoodRecord
<1>2. /\ x \in Sessions /\ x.refs = r.refs /\ Same(x, r) /\ x.jobQ = r.jobQ
      /\ x.canceled = r.canceled /\ x.recv = r.recv /\ x.send = r.send
      /\ x.sending /\ x.sendQ = <<>> /\ x.sentQ = r.sendQ
  <2> DEFINE a == [r EXCEPT !.sending = TRUE]
  <2> DEFINE b == [a EXCEPT !.sentQ = r.sendQ]
  <2>1. a \in Sessions /\ a = [r EXCEPT !.sending = TRUE]
    BY <1>1 DEF Sessions
  <2>2. <<>> \in Seq(Packets) /\ r.sendQ \in Seq(Packets)
    BY <1>1 DEF Sessions
  <2> HIDE DEF a
  <2>3. b \in Sessions
    BY <2>1, <2>2 DEF Sessions
  <2> HIDE DEF b
  <2>4. [b EXCEPT !.sendQ = <<>>] \in Sessions
    BY <2>2, <2>3 DEF Sessions
  <2>5. x = [b EXCEPT !.sendQ = <<>>]
    BY <1>1, <2>1 DEF Filled, b, Sessions
  <2>6. x \in Sessions
    BY <2>4, <2>5
  <2>7. QED
    BY <1>1, <2>6 DEF Filled, Sessions, Same
<1> HIDE DEF x
<1>3. Ops(x) = Ops(r)
  BY <1>2 DEF Ops, SendHolds, Same
<1>4. GoodRecord(x)
  BY <1>2, LanAssumption DEF Holds, GoodRecord, Same
<1>5. Holds(x, n)
  BY <1>2, <1>3, <1>4 DEF Holds
<1>6. QED
  BY <1>2, <1>5 DEF x

\* how a send of r may go on: it is pending, or ended, well or not
LEMMA SendState ==
  ASSUME NEW r, NEW n, Holds(r, n + 2), n \in Nat, r.send = "none", r.sending,
         NEW st \in {"posted", "done", "reset"}, NEW x, x = [r EXCEPT !.send = st],
         NEW held, held = (IF st = "done" /\ ~isSendIOPending THEN 2 ELSE 1)
  PROVE  /\ x \in Sessions /\ x.refs = r.refs /\ Same(x, r) /\ x.jobQ = r.jobQ
         /\ x.canceled = r.canceled /\ x.recv = r.recv /\ x.send = st
         /\ x.sending /\ x.sendQ = r.sendQ /\ x.sentQ = r.sentQ
         /\ Ops(x) = Ops(r) + held
         /\ Ops(r) \in Nat /\ r.refs = Ops(r) + n + 2
<1>1. r \in Sessions
  BY DEF Holds, GoodRecord
<1>2. /\ x \in Sessions /\ x.refs = r.refs /\ Same(x, r) /\ x.jobQ = r.jobQ
      /\ x.canceled = r.canceled /\ x.recv = r.recv /\ x.send = st
      /\ x.sending /\ x.sendQ = r.sendQ /\ x.sentQ = r.sentQ
  BY <1>1 DEF Sessions, Same
<1>3. Ops(x) = Ops(r) + held /\ Ops(r) \in Nat
  BY <1>1, <1>2, OpsRange DEF Ops, SendHolds, Same, Sessions
<1>4. r.refs = Ops(r) + n + 2
  BY <1>3 DEF Holds
<1>5. QED
  BY <1>2, <1>3, <1>4

\* SendPost: r comes with two references.
SendOutcome(x, r, n) ==
  /\ Holds(x, n) /\ Same(x, r)
  /\ r.sendQ = <<>> /\ r.send = "none" => x.send = "none"
  /\ x.sendQ = (IF r.sending THEN r.sendQ ELSE <<>>)
  /\ x.sentQ = (IF r.sending THEN r.sentQ ELSE r.sendQ)
  /\ r.sending => x.sending /\ x.send = r.send

LEMMA EmptySend ==
  ASSUME NEW r, NEW n, Holds(r, n + 2), n \in Nat, r.send = "none", ~r.sending, r.sendQ = <<>>
  PROVE  SendOutcome(Drop([r EXCEPT !.sentQ = <<>>], 2), r, n)
<1> DEFINE y == [r EXCEPT !.sentQ = <<>>]
<1>1. r \in Sessions
  BY DEF Holds, GoodRecord
<1>2. /\ y \in Sessions /\ y.refs = r.refs /\ Same(y, r) /\ y.jobQ = r.jobQ
      /\ y.canceled = r.canceled /\ y.recv = r.recv /\ y.send = r.send
      /\ y.sending = r.sending /\ y.sendQ = r.sendQ /\ y.sentQ = <<>>
  BY <1>1 DEF Sessions, Same
<1> HIDE DEF y
<1>3. Ops(y) = Ops(r)
  BY <1>2 DEF Ops, SendHolds, Same
<1>4. GoodRecord(y)
  BY <1>2 DEF Holds, GoodRecord, Same
<1>5. Holds(y, n + 2)
  BY <1>2, <1>3, <1>4 DEF Holds
<1> DEFINE x == Drop(y, 2)
<1>6. /\ Holds(x, n) /\ Same(x, y) /\ x.sending = y.sending /\ x.recv = y.recv /\ x.send = y.send
      /\ x.sendQ = y.sendQ /\ x.sentQ = y.sentQ
  BY <1>5, DropTwo DEF x
<1> HIDE DEF x
<1>7. SendOutcome(x, r, n)
  BY <1>2, <1>6 DEF SendOutcome, Same
<1>8. QED
  BY <1>7 DEF x, y

\* WSASend failed, ended, or is pending
LEMMA SendOutcomes ==
  ASSUME NEW r, NEW n, Holds(r, n + 2), n \in Nat, r.send = "none", ~r.sending, r.sendQ # <<>>,
         NEW x,
         LET f == Filled(r)
             pends == [f EXCEPT !.send = "posted"]
         IN \/ x = Refused(f)
            \/ ~isSendIOPending /\ x = Ended(f)
            \/ isSendIOPending /\ x = Drop(pends, 1)
            \/ isSendIOPending /\ \E d \in Aborting(f) : x = Drop(d, 1)
  PROVE  SendOutcome(x, r, n)
<1> DEFINE f == Filled(r)
<1>1. /\ Holds(f, n + 2) /\ Same(f, r) /\ f.sending
      /\ f.send = "none" /\ f.recv = r.recv /\ f.canceled = r.canceled
      /\ f.sendQ = <<>> /\ f.sentQ = r.sendQ
  BY FilledHolds
<1> DEFINE pends == [f EXCEPT !.send = "posted"]
<1> DEFINE ended == [f EXCEPT !.send = "done"]
<1>0. \/ x = Refused(f)
      \/ ~isSendIOPending /\ x = ended
      \/ isSendIOPending /\ x = Drop(pends, 1)
      \/ isSendIOPending /\ \E d \in Aborting(f) : x = Drop(d, 1)
  BY DEF Ended
<1> HIDE DEF f
<1>2. CASE x = Refused(f)
  <2> DEFINE d == Disconnected(f)
  <2>1. /\ Holds(d, n + 2) /\ Same(d, f) /\ d.sending = f.sending /\ d.send = "none"
        /\ d.sendQ = f.sendQ /\ d.sentQ = f.sentQ
    BY <1>1, DisconnectedHolds
  <2>2. x = Drop(d, 2)
    BY <1>2 DEF Refused
  <2> HIDE DEF d
  <2>3. /\ Holds(x, n) /\ Same(x, d) /\ x.sending = d.sending /\ x.send = d.send
        /\ x.sendQ = d.sendQ /\ x.sentQ = d.sentQ
    BY <2>1, <2>2, DropTwo
  <2>4. QED
    BY <1>1, <2>1, <2>3 DEF SendOutcome, Same
<1>3. CASE ~isSendIOPending /\ x = ended
  <2>1. /\ ended \in Sessions /\ ended.refs = f.refs /\ Same(ended, f) /\ ended.jobQ = f.jobQ
        /\ ended.canceled = f.canceled /\ ended.recv = f.recv /\ ended.send = "done"
        /\ ended.sending /\ ended.sendQ = f.sendQ /\ ended.sentQ = f.sentQ
        /\ Ops(ended) = Ops(f) + 2
        /\ Ops(f) \in Nat /\ f.refs = Ops(f) + n + 2
    <3>1. PICK y, held : y = ended /\ held = 2
      OBVIOUS
    <3>2. held = (IF "done" = "done" /\ ~isSendIOPending THEN 2 ELSE 1)
      BY <1>3, <3>1
    <3> HIDE DEF ended
    <3>3. y = [f EXCEPT !.send = "done"]
      BY <3>1 DEF ended
    <3>4. /\ y \in Sessions /\ y.refs = f.refs /\ Same(y, f) /\ y.jobQ = f.jobQ
          /\ y.canceled = f.canceled /\ y.recv = f.recv /\ y.send = "done"
          /\ y.sending /\ y.sendQ = f.sendQ /\ y.sentQ = f.sentQ
          /\ Ops(y) = Ops(f) + held
          /\ Ops(f) \in Nat /\ f.refs = Ops(f) + n + 2
      BY <1>1, <3>2, <3>3, SendState
    <3>5. QED
      BY <3>1, <3>4
  <2> HIDE DEF ended
  <2>2. Same(x, r)
    BY <1>1, <1>3, <2>1 DEF Same
  <2>3. GoodRecord(x)
    BY <1>1, <1>3, <2>1 DEF Holds, GoodRecord, Same
  <2>4. Holds(x, n)
    BY <1>3, <2>1, <2>3 DEF Holds
  <2>5. QED
    BY <1>1, <1>3, <2>1, <2>2, <2>4 DEF SendOutcome
<1>4. CASE isSendIOPending /\ x = Drop(pends, 1)
  <2>1. /\ pends \in Sessions /\ pends.refs = f.refs /\ Same(pends, f) /\ pends.jobQ = f.jobQ
        /\ pends.canceled = f.canceled /\ pends.recv = f.recv /\ pends.send = "posted"
        /\ pends.sending /\ pends.sendQ = f.sendQ /\ pends.sentQ = f.sentQ
        /\ Ops(pends) = Ops(f) + 1
        /\ Ops(f) \in Nat /\ f.refs = Ops(f) + n + 2
    <3>1. PICK y, held : y = pends /\ held = 1
      OBVIOUS
    <3>2. held = (IF "posted" = "done" /\ ~isSendIOPending THEN 2 ELSE 1)
      BY <1>4, <3>1
    <3> HIDE DEF pends
    <3>3. y = [f EXCEPT !.send = "posted"]
      BY <3>1 DEF pends
    <3>4. /\ y \in Sessions /\ y.refs = f.refs /\ Same(y, f) /\ y.jobQ = f.jobQ
          /\ y.canceled = f.canceled /\ y.recv = f.recv /\ y.send = "posted"
          /\ y.sending /\ y.sendQ = f.sendQ /\ y.sentQ = f.sentQ
          /\ Ops(y) = Ops(f) + held
          /\ Ops(f) \in Nat /\ f.refs = Ops(f) + n + 2
      BY <1>1, <3>2, <3>3, SendState
    <3>5. QED
      BY <3>1, <3>4
  <2> HIDE DEF pends
  <2>2. GoodRecord(pends)
    BY <1>1, <1>4, <2>1 DEF Holds, GoodRecord, Same
  <2>3. Holds(pends, n + 1)
    <3>1. n + 1 \in Nat /\ pends.refs = Ops(pends) + (n + 1)
      BY <2>1
    <3>2. QED
      BY <2>2, <3>1 DEF Holds
  <2>4. /\ Holds(x, n) /\ Same(x, pends) /\ x.sending = pends.sending /\ x.send = pends.send
        /\ x.sendQ = pends.sendQ /\ x.sentQ = pends.sentQ
    BY <1>4, <2>3, DropHolds
  <2>5. Same(x, r)
    BY <1>1, <2>1, <2>4 DEF Same
  <2>6. x.sendQ = <<>> /\ x.sentQ = r.sendQ
    BY <1>1, <2>1, <2>4
  <2>7. QED
    BY <2>4, <2>5, <2>6 DEF SendOutcome
<1>5. CASE isSendIOPending /\ \E d \in Aborting(f) : x = Drop(d, 1)
  <2>1. PICK st \in {"posted", "done", "reset"} : x = Drop(Disconnected([f EXCEPT !.send = st]), 1)
    BY <1>5 DEF Aborting
  <2> DEFINE q == [f EXCEPT !.send = st]
  <2> DEFINE d == Disconnected(q)
  <2>2. /\ q \in Sessions /\ q.refs = f.refs /\ Same(q, f) /\ q.jobQ = f.jobQ
        /\ q.canceled = f.canceled /\ q.recv = f.recv /\ q.send = st
        /\ q.sending /\ q.sendQ = f.sendQ /\ q.sentQ = f.sentQ
        /\ Ops(q) = Ops(f) + 1
        /\ Ops(f) \in Nat /\ f.refs = Ops(f) + n + 2
    <3>1. PICK y, held : y = q /\ held = 1
      OBVIOUS
    <3>2. held = (IF st = "done" /\ ~isSendIOPending THEN 2 ELSE 1)
      BY <1>5, <3>1
    <3> HIDE DEF q
    <3>3. y = [f EXCEPT !.send = st]
      BY <3>1 DEF q
    <3>4. /\ y \in Sessions /\ y.refs = f.refs /\ Same(y, f) /\ y.jobQ = f.jobQ
          /\ y.canceled = f.canceled /\ y.recv = f.recv /\ y.send = st
          /\ y.sending /\ y.sendQ = f.sendQ /\ y.sentQ = f.sentQ
          /\ Ops(y) = Ops(f) + held
          /\ Ops(f) \in Nat /\ f.refs = Ops(f) + n + 2
      BY <1>1, <3>2, <3>3, SendState
    <3>5. QED
      BY <3>1, <3>4
  <2> HIDE DEF q
  <2>3. /\ d \in Sessions /\ d.refs = q.refs /\ Same(d, q) /\ d.jobQ = q.jobQ
        /\ d.canceled /\ d.recv = (IF q.recv = "posted" THEN "aborted" ELSE q.recv)
        /\ d.send = (IF st = "posted" THEN "aborted" ELSE st)
        /\ d.sending /\ d.sendQ = q.sendQ /\ d.sentQ = q.sentQ
    BY <2>2, DisconnectedFields
  <2>4. x = Drop(d, 1)
    BY <2>1 DEF q
  <2> HIDE DEF d
  <2>5. Ops(d) = Ops(q)
    BY <1>5, <2>2, <2>3 DEF Ops, SendHolds, Same
  <2>6. GoodRecord(d)
    BY <1>1, <1>5, <2>2, <2>3 DEF Holds, GoodRecord, Same
  <2>7. Holds(d, n + 1)
    BY <2>2, <2>3, <2>5, <2>6 DEF Holds
  <2>8. /\ Holds(x, n) /\ Same(x, d) /\ x.sending = d.sending /\ x.send = d.send
        /\ x.sendQ = d.sendQ /\ x.sentQ = d.sentQ
    BY <2>4, <2>7, DropHolds
  <2>9. Same(x, r)
    BY <1>1, <2>2, <2>3, <2>8 DEF Same
  <2>10. x.sendQ = <<>> /\ x.sentQ = r.sendQ
    BY <1>1, <2>2, <2>3, <2>8
  <2>11. QED
    BY <2>8, <2>9, <2>10 DEF SendOutcome
<1>6. QED
  BY <1>0, <1>2, <1>3, <1>4, <1>5

LEMMA SendPostedHolds ==
  ASSUME SendsFitMode,
         NEW r, NEW n, Holds(r, n + 2), n \in Nat, r.sending \/ r.send = "none",
         NEW x \in SendPosted(r)
  PROVE  SendOutcome(x, r, n)
<1>1. CASE r.sending
  <2>1. x = Drop(r, 2)
    BY <1>1 DEF SendPosted
  <2>2. /\ Holds(x, n) /\ Same(x, r) /\ x.sending = r.sending /\ x.send = r.send
        /\ x.sendQ = r.sendQ /\ x.sentQ = r.sentQ
    BY <2>1, DropTwo
  <2>3. QED
    BY <1>1, <2>2 DEF SendOutcome
<1>2. CASE ~r.sending /\ r.sendQ = <<>>
  <2>1. x = Drop([r EXCEPT !.sentQ = <<>>], 2)
    BY <1>2 DEF SendPosted
  <2>2. QED
    BY <1>2, <2>1, EmptySend
<1>3. CASE ~r.sending /\ r.sendQ # <<>>
  <2>1. LET f == Filled(r)
            pends == [f EXCEPT !.send = "posted"]
        IN \/ x = Refused(f)
           \/ ~isSendIOPending /\ x = Ended(f)
           \/ isSendIOPending /\ x = Drop(pends, 1)
           \/ isSendIOPending /\ \E d \in Aborting(f) : x = Drop(d, 1)
    BY <1>3 DEF SendPosted, SendsFitMode, MayEndNow
  <2>2. QED
    BY <1>3, <2>1, SendOutcomes
<1>4. QED
  BY <1>1, <1>2, <1>3

\* SendAndDisconnectPost waits until it has isSending_.
LEMMA LastPostedHolds ==
  ASSUME SendsFitMode,
         NEW r, NEW n, Holds(r, n + 2), n \in Nat, ~r.sending, r.send = "none",
         NEW x \in LastPosted(r)
  PROVE  SendOutcome(x, r, n)
<1>1. CASE r.sendQ = <<>>
  <2>1. x = Drop([r EXCEPT !.sentQ = <<>>], 2)
    BY <1>1 DEF LastPosted
  <2>2. QED
    BY <1>1, <2>1, EmptySend
<1>2. CASE r.sendQ # <<>>
  <2>1. LET f == Filled(r)
            pends == [f EXCEPT !.send = "posted"]
        IN \/ x = Refused(f)
           \/ ~isSendIOPending /\ x = Ended(f)
           \/ isSendIOPending /\ x = Drop(pends, 1)
           \/ isSendIOPending /\ \E d \in Aborting(f) : x = Drop(d, 1)
    BY <1>2 DEF LastPosted, SendsFitMode, MayEndNow
  <2>2. QED
    BY <1>2, <2>1, SendOutcomes
<1>3. QED
  BY <1>1, <1>2

-----------------------------------------------------------------------------
(* Who holds a session: signs on the port, and threads.                    *)

LEMMA HandsFacts ==
  ASSUME SessionTypes, NEW s
  PROVE  /\ IsFiniteSet(Signs(s)) /\ IsFiniteSet(InHand(s))
         /\ Cardinality(Signs(s)) \in Nat /\ Cardinality(InHand(s)) \in Nat
         /\ Hands(s) \in Nat
<1>1. IsFiniteSet(Signs(s))
  <2>1. Len(port) \in Nat /\ DOMAIN port = 1..Len(port)
    BY DEF SessionTypes
  <2>2. IsFiniteSet(1..Len(port)) /\ Signs(s) \subseteq 1..Len(port)
    BY <2>1, FS_Interval DEF Signs
  <2>3. QED
    BY <2>2, FS_Subset
<1>2. IsFiniteSet(InHand(s))
  <2>1. IsFiniteSet(Workers) /\ InHand(s) \subseteq Workers
    BY LanAssumption DEF InHand
  <2>2. QED
    BY <2>1, FS_Subset
<1>3. Cardinality(Signs(s)) \in Nat /\ Cardinality(InHand(s)) \in Nat
  BY <1>1, <1>2, FS_CardinalityType
<1>4. QED
  BY <1>1, <1>2, <1>3 DEF Hands

LEMMA NextHands ==
  ASSUME port' \in Seq(Posts), NEW t
  PROVE  /\ IsFiniteSet(Signs(t)') /\ IsFiniteSet(InHand(t)')
         /\ Cardinality(Signs(t)') \in Nat /\ Cardinality(InHand(t)') \in Nat
         /\ Hands(t)' \in Nat
<1>1. IsFiniteSet(Signs(t)')
  <2>1. Len(port') \in Nat /\ DOMAIN port' = 1..Len(port')
    OBVIOUS
  <2>2. IsFiniteSet(1..Len(port')) /\ Signs(t)' \subseteq 1..Len(port')
    BY <2>1, FS_Interval DEF Signs
  <2>3. QED
    BY <2>2, FS_Subset
<1>2. IsFiniteSet(InHand(t)')
  <2>1. IsFiniteSet(Workers) /\ InHand(t)' \subseteq Workers
    BY LanAssumption DEF InHand
  <2>2. QED
    BY <2>1, FS_Subset
<1>3. QED
  BY <1>1, <1>2, FS_CardinalityType DEF Hands

LEMMA SlotFacts ==
  ASSUME SessionInv, NEW s \in Slots
  PROVE  /\ Holds(sess[s], Hands(s)) /\ sess[s] \in Sessions /\ SessionSupport(s)
         /\ Hands(s) \in Nat /\ (Hands(s) > 0 => ~sess[s].dead)
         /\ InHand(s) # {} => Hands(s) >= 2
         /\ Signs(s) # {} => Hands(s) >= 2
<1>1. SessionSupport(s) /\ SessionTypes /\ LanRefsExact
  BY DEF SessionInv
<1>2. GoodRecord(sess[s]) /\ sess[s] \in Sessions /\ (sess[s].dead <=> sess[s].refs = 0)
  BY <1>1 DEF SessionSupport, GoodRecord
<1>3. /\ Hands(s) \in Nat /\ Cardinality(Signs(s)) \in Nat /\ Cardinality(InHand(s)) \in Nat
      /\ IsFiniteSet(Signs(s)) /\ IsFiniteSet(InHand(s))
  BY <1>1, HandsFacts
<1>4. sess[s].refs = Ops(sess[s]) + Hands(s) /\ Ops(sess[s]) \in Nat
  <2>1. sess[s].refs = (IF sess[s].recv = "none" THEN 0 ELSE 1) + SendHolds(sess[s])
             + 2 * Cardinality(Signs(s)) + 2 * Cardinality(InHand(s)) + (IF sess[s].moving THEN 1 ELSE 0)
    BY <1>1 DEF LanRefsExact
  <2>2. SendHolds(sess[s]) \in Nat
    BY <1>2 DEF SendHolds
  <2>3. QED
    BY <2>1, <2>2, <1>2, <1>3, OpsRange DEF Ops, Hands
<1>5. Holds(sess[s], Hands(s))
  BY <1>2, <1>3, <1>4 DEF Holds
<1>6. /\ InHand(s) # {} => Cardinality(InHand(s)) # 0
      /\ Signs(s) # {} => Cardinality(Signs(s)) # 0
  BY <1>3, FS_EmptySet
<1>7. /\ InHand(s) # {} => Hands(s) >= 2
      /\ Signs(s) # {} => Hands(s) >= 2
  BY <1>3, <1>6 DEF Hands
<1>8. QED
  BY <1>1, <1>2, <1>3, <1>4, <1>5, <1>7

LEMMA WaitingState ==
  /\ Waiting \in WorkerStates
  /\ Waiting.pc = "waiting" /\ Waiting.slot = 0 /\ Waiting.ids = <<>> /\ Waiting.packet = "none"
<1>1. <<>> \in Seq(IDs)
  OBVIOUS
<1>2. QED
  BY <1>1 DEF Waiting, WorkerStates

\* A worker changes: who has which session in hand.
LEMMA WorkerMoves ==
  ASSUME SessionTypes, NEW w \in Workers, NEW v \in WorkerStates, worker' = [worker EXCEPT ![w] = v],
         NEW t
  PROVE  /\ InHand(t)' = (InHand(t) \ {w}) \cup (IF v.slot = t THEN {w} ELSE {})
         /\ Resuming(t)' = (Resuming(t) \ {w}) \cup (IF v.slot = t /\ v.pc = "resume" THEN {w} ELSE {})
         /\ worker[w].slot = v.slot => InHand(t)' = InHand(t)
         /\ worker[w].slot = v.slot /\ worker[w].pc # "resume" /\ v.pc # "resume" => Resuming(t)' = Resuming(t)
<1>1. /\ worker'[w] = v /\ \A u \in Workers : u # w => worker'[u] = worker[u]
  BY DEF SessionTypes
<1>2. InHand(t)' = (InHand(t) \ {w}) \cup (IF v.slot = t THEN {w} ELSE {})
  BY <1>1 DEF InHand
<1>3. Resuming(t)' = (Resuming(t) \ {w}) \cup (IF v.slot = t /\ v.pc = "resume" THEN {w} ELSE {})
  BY <1>1, <1>2 DEF Resuming, InHand
<1>4. QED
  BY <1>2, <1>3 DEF InHand, Resuming

LEMMA HandTaken ==
  ASSUME SessionTypes, NEW w, NEW s, w \notin InHand(s), InHand(s)' = InHand(s) \cup {w}
  PROVE  Cardinality(InHand(s)') = Cardinality(InHand(s)) + 1
BY HandsFacts, FS_AddElement

LEMMA HandGiven ==
  ASSUME SessionTypes, NEW w, NEW s, w \in InHand(s), InHand(s)' = InHand(s) \ {w}
  PROVE  Cardinality(InHand(s)') = Cardinality(InHand(s)) - 1
BY HandsFacts, FS_RemoveElement

\* The first post is taken.
LEMMA PortTail ==
  ASSUME SessionTypes, port # <<>>, port' = Tail(port)
  PROVE  /\ port' \in Seq(Posts) /\ Len(port') = Len(port) - 1 /\ Len(port) \in Nat \ {0}
         /\ DOMAIN port = 1..Len(port) /\ DOMAIN port' = 1..(Len(port) - 1)
         /\ \A k \in DOMAIN port' : port'[k] = port[k + 1] /\ k + 1 \in DOMAIN port
         /\ Head(port) = port[1] /\ 1 \in DOMAIN port /\ Head(port) \in Posts
BY EmptySeq, HeadTailProperties DEF SessionTypes

LEMMA SignTaken ==
  ASSUME SessionTypes, port # <<>>, port' = Tail(port), UNCHANGED slotOf, NEW t
  PROVE  Cardinality(Signs(t)') = Cardinality(Signs(t)) - (IF 1 \in Signs(t) THEN 1 ELSE 0)
<1> DEFINE B == Signs(t) \ {1}
<1>1. /\ Len(port') = Len(port) - 1 /\ Len(port) \in Nat \ {0}
      /\ DOMAIN port = 1..Len(port) /\ DOMAIN port' = 1..(Len(port) - 1)
      /\ \A k \in DOMAIN port' : port'[k] = port[k + 1] /\ k + 1 \in DOMAIN port
  BY PortTail
<1>2. Signs(t)' = {k \in DOMAIN port' : port'[k].key = "sign" /\ slotOf[port'[k].ids[1]] = t}
  BY DEF Signs
<1>3. \A k : k \in Signs(t)' <=> k \in DOMAIN port' /\ k + 1 \in B
  <2>1. \A k \in DOMAIN port' : k \in Nat /\ k >= 1
    BY <1>1
  <2>2. \A k \in DOMAIN port' : k \in Signs(t)' <=> k + 1 \in Signs(t)
    BY <1>1, <1>2 DEF Signs
  <2>3. QED
    BY <1>2, <2>1, <2>2
<1>4. B \subseteq 2..Len(port)
  BY <1>1 DEF Signs
<1> DEFINE f == [k \in Signs(t)' |-> k + 1]
<1>5. f \in Bijection(Signs(t)', B)
  <2>1. Signs(t)' \subseteq Nat /\ \A k \in Signs(t)' : k + 1 \in B
    BY <1>1, <1>3
  <2>2. f \in [Signs(t)' -> B]
    BY <2>1
  <2>3. IsInjective(f)
    BY <2>1 DEF IsInjective
  <2>4. \A b \in B : \E k \in Signs(t)' : f[k] = b
    <3>1. TAKE b \in B
    <3>2. b - 1 \in DOMAIN port' /\ (b - 1) + 1 = b
      BY <1>1, <1>4
    <3>3. b - 1 \in Signs(t)'
      BY <1>3, <3>2
    <3>4. QED
      BY <3>2, <3>3
  <2>5. QED
    BY <2>2, <2>3, <2>4 DEF Bijection, Injection, Surjection
<1>6. IsFiniteSet(Signs(t)) /\ IsFiniteSet(B) /\ Cardinality(Signs(t)) \in Nat
  BY HandsFacts, FS_Subset
<1>7. Cardinality(B) = Cardinality(Signs(t)) - (IF 1 \in Signs(t) THEN 1 ELSE 0)
  BY <1>6, FS_RemoveElement
<1>8. ExistsBijection(Signs(t)', B)
  BY <1>5 DEF ExistsBijection
<1>9. Cardinality(Signs(t)') = Cardinality(B)
  <2>1. Signs(t)' \subseteq 1..(Len(port) - 1) /\ IsFiniteSet(1..(Len(port) - 1))
    BY <1>1, <1>2, FS_Interval
  <2>2. IsFiniteSet(Signs(t)')
    BY <2>1, FS_Subset
  <2>3. QED
    BY <1>8, <2>2, FS_Bijection
<1>10. QED
  BY <1>7, <1>9

\* A sign is posted.
LEMMA SignPosted ==
  ASSUME SessionTypes, NEW m \in Posts, m.key = "sign", port' = Append(port, m), UNCHANGED slotOf, NEW t
  PROVE  /\ Cardinality(Signs(t)') = Cardinality(Signs(t)) + (IF slotOf[m.ids[1]] = t THEN 1 ELSE 0)
         /\ port' \in Seq(Posts) /\ Len(port') = Len(port) + 1 /\ port'[Len(port) + 1] = m
         /\ \A k \in DOMAIN port' : k # Len(port) + 1 => k \in DOMAIN port /\ port'[k] = port[k]
<1>1. /\ port' \in Seq(Posts) /\ Len(port') = Len(port) + 1 /\ Len(port) \in Nat
      /\ DOMAIN port = 1..Len(port) /\ DOMAIN port' = 1..(Len(port) + 1)
      /\ port'[Len(port) + 1] = m /\ \A k \in DOMAIN port : port'[k] = port[k]
  BY DEF SessionTypes
<1> DEFINE l == Len(port) + 1
<1>2. l \notin Signs(t) /\ IsFiniteSet(Signs(t)) /\ Cardinality(Signs(t)) \in Nat
  <2>1. l \notin DOMAIN port
    BY <1>1
  <2>2. QED
    BY <2>1, HandsFacts DEF Signs
<1>3. Signs(t)' = IF slotOf[m.ids[1]] = t THEN Signs(t) \cup {l} ELSE Signs(t)
  <2>1. Signs(t)' = {k \in DOMAIN port' : port'[k].key = "sign" /\ slotOf[port'[k].ids[1]] = t}
    BY DEF Signs
  <2>2. DOMAIN port' = DOMAIN port \cup {l}
    BY <1>1
  <2>3. QED
    BY <1>1, <2>1, <2>2 DEF Signs
<1>4. Cardinality(Signs(t)') = Cardinality(Signs(t)) + (IF slotOf[m.ids[1]] = t THEN 1 ELSE 0)
  <2>1. Cardinality(Signs(t) \cup {l}) = Cardinality(Signs(t)) + 1
    BY <1>2, FS_AddElement
  <2> HIDE DEF l
  <2>2. QED
    BY <1>2, <1>3, <2>1
<1>5. QED
  BY <1>1, <1>4

\* A set is posted.
LEMMA SetPosted ==
  ASSUME SessionTypes, NEW q \in Seq(Posts), \A k \in DOMAIN q : q[k].key # "sign",
         port' = port \o q, UNCHANGED slotOf
  PROVE  /\ \A t : Signs(t)' = Signs(t)
         /\ port' \in Seq(Posts)
         /\ \A k \in DOMAIN port' : (k \in DOMAIN port /\ port'[k] = port[k]) \/ port'[k].key # "sign"
<1>1. /\ port' \in Seq(Posts) /\ Len(port') = Len(port) + Len(q) /\ Len(port) \in Nat /\ Len(q) \in Nat
      /\ DOMAIN port = 1..Len(port) /\ DOMAIN port' = 1..(Len(port) + Len(q))
      /\ \A k \in DOMAIN port : k \in DOMAIN port' /\ port'[k] = port[k]
      /\ \A k \in DOMAIN port' : k \notin DOMAIN port => k - Len(port) \in DOMAIN q /\ port'[k] = q[k - Len(port)]
  BY DEF SessionTypes
<1>2. \A k \in DOMAIN port' : (k \in DOMAIN port /\ port'[k] = port[k]) \/ port'[k].key # "sign"
  BY <1>1
<1>3. ASSUME NEW t
      PROVE  Signs(t)' = Signs(t)
  <2>1. Signs(t)' = {k \in DOMAIN port' : port'[k].key = "sign" /\ slotOf[port'[k].ids[1]] = t}
    BY DEF Signs
  <2>2. QED
    BY <1>1, <1>2, <2>1 DEF Signs
<1>4. QED
  BY <1>1, <1>2, <1>3

-----------------------------------------------------------------------------
(* A step changes one session.                                             *)

\* the hands on the other sessions stay
HandsKept(s) == \A t \in Slots : t # s => Hands(t)' = Hands(t) /\ Resuming(t)' = Resuming(t)

\* the port and the workers are as they should be
PostsFine ==
  /\ port' \in Seq(Posts) /\ worker' \in [Workers -> WorkerStates]
  /\ \A w \in Workers : WorkerSupport(w)'
  /\ SignSupport'

ResumeFine(s, y) ==
  /\ y.send # "none" => Resuming(s)' = {}
  /\ Resuming(s)' # {} => y.sending
  /\ \A w, v \in Resuming(s)' : w = v

\* the slot s has record y
SlotFine(s, y) ==
  /\ Holds(y, Hands(s)') /\ ResumeFine(s, y)
  /\ y.dead <=> y.refs = 0
  /\ ~y.dead => y.id # 0 /\ slotOf'[y.id] = s /\ s \notin free'
  /\ s \in free' => y = Destroyed(y)

\* what has no reference left has nothing that holds one
LEMMA NothingHeld ==
  ASSUME NEW s \in Slots, NEW x, Holds(x, Hands(s)'), PostsFine, x.refs = 0
  PROVE  /\ x.recv = "none" /\ x.send = "none" /\ ~x.moving /\ Hands(s)' = 0
         /\ Resuming(s)' = {} /\ Signs(s)' = {} /\ InHand(s)' = {}
<1>1. port' \in Seq(Posts) /\ x \in Sessions /\ x.refs = Ops(x) + Hands(s)'
  BY DEF PostsFine, Holds, GoodRecord
<1>2. /\ Cardinality(Signs(s)') \in Nat /\ Cardinality(InHand(s)') \in Nat /\ Hands(s)' \in Nat
      /\ IsFiniteSet(Signs(s)') /\ IsFiniteSet(InHand(s)')
  BY <1>1, NextHands
<1>3. Ops(x) = 0 /\ Hands(s)' = 0
  BY <1>1, <1>2, OpsRange
<1>4. Hands(s)' = 2 * Cardinality(Signs(s)') + 2 * Cardinality(InHand(s)')
  BY DEF Hands
<1>5. Cardinality(Signs(s)') = 0 /\ Cardinality(InHand(s)') = 0
  BY <1>2, <1>3, <1>4
<1>6. Signs(s)' = {} /\ InHand(s)' = {}
  BY <1>2, <1>5, FS_EmptySet
<1>7. Resuming(s)' = {}
  BY <1>6 DEF Resuming
<1>8. x.recv = "none" /\ x.send = "none" /\ ~x.moving
  BY <1>1, <1>3 DEF Ops, SendHolds, Sessions
<1>9. QED
  BY <1>3, <1>6, <1>7, <1>8

LEMMA OneSlot ==
  ASSUME SessionInv, NEW s \in Slots, NEW y, SlotFine(s, y), HandsKept(s), PostsFine,
         sess' = [sess EXCEPT ![s] = y], UNCHANGED isSendIOPending,
         slotOf' \in [IDs -> Slots \cup {0}], \A i \in IDs : slotOf[i] # 0 => slotOf'[i] = slotOf[i],
         \A t \in Slots : t # s => (t \in free' <=> t \in free)
  PROVE  /\ sess' \in [Slots -> Sessions] /\ LanRefsExact'
         /\ \A t \in Slots : SessionSupport(t)'
<1>1. y \in Sessions /\ GoodRecord(y)
  BY DEF SlotFine, Holds, GoodRecord
<1>2. /\ sess \in [Slots -> Sessions] /\ slotOf \in [IDs -> Slots \cup {0}]
      /\ \A t \in Slots : SessionSupport(t)
  BY DEF SessionInv, SessionTypes
<1>3. sess' \in [Slots -> Sessions] /\ sess'[s] = y /\ \A t \in Slots : t # s => sess'[t] = sess[t]
  BY <1>1, <1>2
<1>4. ASSUME NEW r, GoodRecord(r)
      PROVE  GoodRecord(r)'
  BY <1>4 DEF GoodRecord
<1>5. ASSUME NEW t \in Slots
      PROVE  SessionSupport(t)'
  <2>1. CASE t = s
    <3>1. GoodRecord(y)'
      BY <1>1, <1>4
    <3>2. s \in free' => y.recv = "none" /\ y.send = "none"
      <4>1. s \in free' => y.refs = 0
        BY DEF SlotFine, Destroyed, Dead
      <4>2. QED
        BY <4>1, NothingHeld DEF SlotFine
    <3>3. QED
      BY <1>3, <2>1, <3>1, <3>2 DEF SessionSupport, SlotFine, ResumeFine, Destroyed, NothingLate
  <2>2. CASE t # s
    <3>1. SessionSupport(t) /\ sess'[t] = sess[t] /\ Resuming(t)' = Resuming(t)
      BY <1>2, <1>3, <2>2 DEF HandsKept
    <3>2. GoodRecord(sess[t]) /\ sess[t].id \in 0..MaxSessions
      BY <3>1 DEF SessionSupport, GoodRecord, Sessions
    <3>3. GoodRecord(sess[t])'
      BY <3>1, <3>2 DEF GoodRecord
    <3>4. ~sess[t].dead => sess[t].id # 0 /\ slotOf'[sess[t].id] = t /\ t \notin free'
      <4>1. ~sess[t].dead => sess[t].id # 0 /\ slotOf[sess[t].id] = t /\ t \notin free
        BY <3>1 DEF SessionSupport
      <4>2. t # 0
        BY LanAssumption
      <4>3. sess[t].id # 0 => sess[t].id \in IDs
        BY <3>2 DEF IDs
      <4>4. QED
        BY <2>2, <4>1, <4>2, <4>3
    <3>5. t \in free' => sess[t] = Destroyed(sess[t]) /\ sess[t].recv = "none" /\ sess[t].send = "none"
      BY <2>2, <3>1 DEF SessionSupport, NothingLate
    <3>6. QED
      BY <3>1, <3>3, <3>4, <3>5 DEF SessionSupport, Destroyed, NothingLate
  <2>3. QED
    BY <2>1, <2>2
<1>6. LanRefsExact'
  <2>1. ASSUME NEW t \in Slots
        PROVE  sess'[t].refs = Ops(sess'[t]) + Hands(t)'
    <3>1. CASE t = s
      BY <1>3, <3>1 DEF SlotFine, Holds
    <3>2. CASE t # s
      <4>1. Holds(sess[t], Hands(t))
        BY SlotFacts
      <4>2. QED
        BY <1>3, <3>2, <4>1 DEF Holds, HandsKept
    <3>3. QED
      BY <3>1, <3>2
  <2>2. ASSUME NEW t \in Slots
        PROVE  sess'[t].refs = (IF sess'[t].recv = "none" THEN 0 ELSE 1) + SendHolds(sess'[t])
             + 2 * Cardinality(Signs(t)') + 2 * Cardinality(InHand(t)') + (IF sess'[t].moving THEN 1 ELSE 0)
    <3>1. sess'[t].refs = Ops(sess'[t]) + Hands(t)'
      BY <2>1
    <3>2. SendHolds(sess'[t]) \in Nat
      BY DEF SendHolds
    <3>3. Hands(t)' = 2 * Cardinality(Signs(t)') + 2 * Cardinality(InHand(t)')
      BY DEF Hands
    <3>4. Cardinality(Signs(t)') \in Nat /\ Cardinality(InHand(t)') \in Nat
      BY NextHands DEF PostsFine
    <3>5. QED
      BY <3>1, <3>2, <3>3, <3>4 DEF Ops
  <2>3. QED
    BY <2>2 DEF LanRefsExact, SendHolds
<1>7. QED
  BY <1>3, <1>5, <1>6

\* a slot given back: the session is as new, but for what the kernel still has
LEMMA DestroyedRecord ==
  ASSUME NEW r \in Sessions, NEW x, x = Destroyed(r)
  PROVE  /\ x \in Sessions /\ x.id = r.id /\ x.canceled = r.canceled
         /\ x.dead /\ x.refs = 0 /\ x.recv = r.recv /\ x.send = r.send /\ ~x.sending /\ ~x.moving
         /\ x.sendQ = <<>> /\ x.sentQ = <<>> /\ x.jobQ = <<>>
         /\ x.cur = NoPipe /\ x.dest = NoPipe
<1> DEFINE a == [Dead EXCEPT !.id = r.id, !.canceled = r.canceled]
<1>1. /\ <<>> \in Seq(Packets) /\ <<>> \in Seq(IDs)
      /\ 0 \in 0..MaxSessions /\ r.id \in 0..MaxSessions /\ r.canceled \in BOOLEAN
      /\ r.recv \in {"none", "posted", "data", "closed", "aborted"}
      /\ r.send \in {"none", "posted", "done", "reset", "aborted"}
  BY LanAssumption DEF Sessions
<1>2. Dead \in Sessions
  BY <1>1 DEF Dead, Sessions
<1>3. /\ a \in Sessions /\ a.id = r.id /\ a.canceled = r.canceled
      /\ a.dead /\ a.refs = 0 /\ a.recv = "none" /\ a.send = "none" /\ ~a.sending /\ ~a.moving
      /\ a.sendQ = <<>> /\ a.sentQ = <<>> /\ a.jobQ = <<>>
      /\ a.cur = NoPipe /\ a.dest = NoPipe
  BY <1>1, <1>2 DEF Dead, Sessions
<1> DEFINE b == [a EXCEPT !.recv = r.recv]
<1>4. x = [b EXCEPT !.send = r.send]
  BY DEF Destroyed
<1> HIDE DEF a
<1>5. /\ b \in Sessions /\ b.id = r.id /\ b.canceled = r.canceled
      /\ b.dead /\ b.refs = 0 /\ b.recv = r.recv /\ b.send = "none" /\ ~b.sending /\ ~b.moving
      /\ b.sendQ = <<>> /\ b.sentQ = <<>> /\ b.jobQ = <<>>
      /\ b.cur = NoPipe /\ b.dest = NoPipe
  BY <1>1, <1>3 DEF Sessions
<1> HIDE DEF b
<1>6. QED
  BY <1>1, <1>4, <1>5 DEF Sessions

LEMMA DestroyedFields ==
  ASSUME NEW r \in Sessions, r.recv = "none", r.send = "none"
  PROVE  LET x == Destroyed(r) IN
         /\ x \in Sessions /\ x.id = r.id /\ x.canceled = r.canceled
         /\ x.dead /\ x.refs = 0 /\ x.recv = "none" /\ x.send = "none" /\ ~x.sending /\ ~x.moving
         /\ x.sendQ = <<>> /\ x.sentQ = <<>> /\ x.jobQ = <<>>
         /\ x.cur = NoPipe /\ x.dest = NoPipe
         /\ Destroyed(x) = x /\ GoodRecord(x) /\ Holds(x, 0)
<1>1. PICK x : x = Destroyed(r)
  OBVIOUS
<1>2. /\ x \in Sessions /\ x.id = r.id /\ x.canceled = r.canceled
      /\ x.dead /\ x.refs = 0 /\ x.recv = "none" /\ x.send = "none" /\ ~x.sending /\ ~x.moving
      /\ x.sendQ = <<>> /\ x.sentQ = <<>> /\ x.jobQ = <<>>
      /\ x.cur = NoPipe /\ x.dest = NoPipe
  BY <1>1, DestroyedRecord
<1>3. Destroyed(x) = Destroyed(r)
  BY <1>2 DEF Destroyed
<1>4. GoodRecord(x)
  BY <1>2, LanAssumption DEF GoodRecord
<1>5. Ops(x) = 0
  BY <1>2 DEF Ops, SendHolds
<1>6. Holds(x, 0)
  BY <1>2, <1>4, <1>5 DEF Holds
<1>7. QED
  BY <1>1, <1>2, <1>3, <1>4, <1>6

\* Nobody joins or leaves: what LeftOnce says stays.
LEMMA LeftSame ==
  ASSUME SessionInv, NEW s \in Slots, NEW y, sess' = [sess EXCEPT ![s] = y],
         y.id = sess[s].id, y.dead = sess[s].dead, UNCHANGED <<slotOf, calls, leavePosts>>
  PROVE  LeftOnce' /\ LeftSupport'
<1>1. /\ sess \in [Slots -> Sessions] /\ slotOf \in [IDs -> Slots \cup {0}]
      /\ LeftOnce /\ LeftSupport
  BY DEF SessionInv, SessionTypes
<1>2. \A i \in IDs : Found(i)' <=> Found(i)
  BY <1>1 DEF Found
<1>3. LeftOnce'
  BY <1>1, <1>2 DEF LeftOnce
<1>4. LeftSupport'
  BY <1>1 DEF LeftSupport
<1>5. QED
  BY <1>3, <1>4

\* The last reference is gone: the leave is told, or on its way.
LEMMA LeftNow ==
  ASSUME SessionInv, NEW s \in Slots, NEW y, sess' = [sess EXCEPT ![s] = y],
         y.id = sess[s].id, y.dead, ~sess[s].dead, UNCHANGED slotOf,
         \/ leavePosts' = leavePosts \cup {y.id} /\ UNCHANGED calls
         \/ calls' = [calls EXCEPT ![y.id] = @ + 1] /\ UNCHANGED leavePosts
  PROVE  LeftOnce' /\ LeftSupport' /\ calls' \in [IDs -> 0..1] /\ leavePosts' \subseteq IDs
<1> DEFINE j == sess[s].id
<1>1. /\ sess \in [Slots -> Sessions] /\ slotOf \in [IDs -> Slots \cup {0}]
      /\ LeftOnce /\ LeftSupport /\ calls \in [IDs -> 0..1] /\ leavePosts \subseteq IDs
  BY DEF SessionInv, SessionTypes
<1>2. j \in IDs /\ slotOf[j] = s /\ s # 0
  <2>1. SessionSupport(s) /\ sess[s] \in Sessions
    BY SlotFacts
  <2>2. j # 0 /\ slotOf[j] = s /\ j \in 0..MaxSessions
    BY <2>1 DEF SessionSupport, Sessions
  <2>3. QED
    BY <2>2, LanAssumption DEF IDs
<1>3. Found(j)
  BY <1>2 DEF Found
<1>4. calls[j] = 0 /\ j \notin leavePosts
  BY <1>1, <1>2, <1>3 DEF LeftOnce
<1>5. ~Found(j)' /\ \A i \in IDs : i # j => (Found(i)' <=> Found(i))
  <2>1. ~Found(j)'
    BY <1>1, <1>2 DEF Found
  <2>2. ASSUME NEW i \in IDs, i # j
        PROVE  Found(i)' <=> Found(i)
    BY <1>1, <2>2 DEF Found
  <2>3. QED
    BY <2>1, <2>2
<1>6. /\ calls'[j] + (IF j \in leavePosts' THEN 1 ELSE 0) = 1
      /\ calls' \in [IDs -> 0..1] /\ leavePosts' \subseteq IDs
      /\ \A i \in IDs : i # j => calls'[i] = calls[i] /\ (i \in leavePosts' <=> i \in leavePosts)
  BY <1>1, <1>2, <1>4
<1>7. LeftOnce'
  <2>1. ASSUME NEW i \in IDs, slotOf'[i] # 0
        PROVE  calls'[i] + (IF i \in leavePosts' THEN 1 ELSE 0) + (IF Found(i)' THEN 1 ELSE 0) = 1
    <3>1. CASE i = j
      BY <1>1, <1>2, <1>5, <1>6, <3>1
    <3>2. CASE i # j
      BY <1>1, <1>5, <1>6, <2>1, <3>2 DEF LeftOnce
    <3>3. QED
      BY <3>1, <3>2
  <2>2. QED
    BY <2>1 DEF LeftOnce
<1>8. LeftSupport'
  BY <1>1, <1>2, <1>6 DEF LeftSupport
<1>9. QED
  BY <1>6, <1>7, <1>8

\* A handler leaves a session that is alive.
Handled(s, x, cnt) ==
  /\ ~sess[s].dead /\ x.id = sess[s].id /\ ~x.dead
  /\ Holds(x, Hands(s)') /\ ResumeFine(s, x) /\ HandsKept(s) /\ PostsFine
  /\ UNCHANGED <<isSendIOPending, isLogicMultithreaded, slotOf>>
  /\ Leave(s, x, cnt)

LEMMA HandledKeepsSessions ==
  ASSUME SessionInv, NEW s \in Slots, NEW x, NEW cnt, Handled(s, x, cnt)
  PROVE  SessionInv'
<1>1. /\ SessionTypes /\ SessionSupport(s) /\ sess[s] \in Sessions /\ quit = "none"
  BY SlotFacts DEF SessionInv, LanNeverQuits
<1>2. /\ ~sess[s].dead /\ x.id = sess[s].id /\ ~x.dead
      /\ Holds(x, Hands(s)') /\ ResumeFine(s, x) /\ HandsKept(s) /\ PostsFine
      /\ isSendIOPending' = isSendIOPending /\ isLogicMultithreaded' = isLogicMultithreaded
      /\ slotOf' = slotOf
  BY DEF Handled
<1>3. x \in Sessions /\ x.refs \in Nat
  BY <1>2 DEF Holds, GoodRecord, Sessions
<1>4. sess[s].id # 0 /\ slotOf[x.id] = s /\ s \notin free
  BY <1>1, <1>2 DEF SessionSupport
<1>5. slotOf' \in [IDs -> Slots \cup {0}] /\ \A i \in IDs : slotOf[i] # 0 => slotOf'[i] = slotOf[i]
  BY <1>1, <1>2 DEF SessionTypes
<1>6. CASE x.refs > 0
  <2>1. /\ sess' = [sess EXCEPT ![s] = x] /\ quit' = quit /\ free' = free
        /\ calls' = calls /\ leavePosts' = leavePosts
    <3>1. ~(x.refs < 0) /\ Leave(s, x, cnt)
      BY <1>3, <1>6 DEF Handled
    <3>2. QED
      BY <1>6, <3>1 DEF Leave, leftVars
  <2>2. SlotFine(s, x)
    BY <1>2, <1>4, <1>6, <2>1 DEF SlotFine
  <2>3. /\ sess' \in [Slots -> Sessions] /\ LanRefsExact' /\ \A t \in Slots : SessionSupport(t)'
    BY <1>2, <1>5, <2>1, <2>2, OneSlot
  <2>4. LeftOnce' /\ LeftSupport'
    <3>1. x.dead = sess[s].dead
      BY <1>1, <1>2, <1>3 DEF Sessions
    <3>2. QED
      BY <1>2, <2>1, <3>1, LeftSame
  <2>5. QED
    BY <1>1, <1>2, <2>1, <2>3, <2>4 DEF SessionInv, SessionTypes, PostsFine, LanNeverQuits
<1>7. CASE x.refs = 0
  <2> DEFINE dead == [x EXCEPT !.dead = TRUE]
  <2>1. /\ quit' = quit
        /\ \/ leavePosts' = leavePosts \cup {x.id} /\ UNCHANGED calls
           \/ calls' = [calls EXCEPT ![x.id] = @ + 1] /\ UNCHANGED leavePosts
        /\ \/ sess' = [sess EXCEPT ![s] = dead] /\ free' = free
           \/ sess' = [sess EXCEPT ![s] = Destroyed(x)] /\ free' = free \cup {s}
    BY <1>2, <1>7 DEF Handled, Leave
  <2>3. /\ x.recv = "none" /\ x.send = "none" /\ ~x.moving /\ Hands(s)' = 0 /\ Resuming(s)' = {}
    BY <1>2, <1>7, NothingHeld
  <2>4. /\ Holds(dead, 0) /\ dead.dead /\ dead.refs = 0 /\ dead.id = x.id /\ dead.send = "none"
    <3>1. /\ dead \in Sessions /\ dead.dead /\ dead.refs = 0 /\ dead.id = x.id
          /\ dead.recv = "none" /\ dead.send = "none" /\ dead.moving = x.moving
          /\ dead.canceled = x.canceled /\ dead.sending = x.sending /\ dead.jobQ = x.jobQ
          /\ dead.sendQ = x.sendQ
      BY <1>3, <1>7, <2>3 DEF Sessions
    <3> HIDE DEF dead
    <3>2. GoodRecord(dead)
      BY <1>2, <3>1 DEF Holds, GoodRecord
    <3>3. Ops(dead) = 0
      BY <2>3, <3>1 DEF Ops, SendHolds
    <3>4. QED
      BY <3>1, <3>2, <3>3 DEF Holds
  <2>5. /\ Holds(Destroyed(x), 0) /\ Destroyed(x).dead /\ Destroyed(x).refs = 0
        /\ Destroyed(x).id = x.id /\ Destroyed(x).send = "none"
        /\ Destroyed(Destroyed(x)) = Destroyed(x)
    BY <1>3, <2>3, DestroyedFields
  <2> HIDE DEF dead
  <2>6. CASE sess' = [sess EXCEPT ![s] = dead] /\ free' = free
    <3>1. SlotFine(s, dead)
      BY <1>4, <2>3, <2>4, <2>6 DEF SlotFine, ResumeFine
    <3>2. /\ sess' \in [Slots -> Sessions] /\ LanRefsExact' /\ \A t \in Slots : SessionSupport(t)'
      BY <1>2, <1>5, <2>6, <3>1, OneSlot
    <3>3. LeftOnce' /\ LeftSupport' /\ calls' \in [IDs -> 0..1] /\ leavePosts' \subseteq IDs
      BY <1>2, <2>1, <2>4, <2>6, LeftNow
    <3>4. QED
      BY <1>1, <1>2, <2>1, <2>6, <3>2, <3>3 DEF SessionInv, SessionTypes, PostsFine, LanNeverQuits
  <2>7. CASE sess' = [sess EXCEPT ![s] = Destroyed(x)] /\ free' = free \cup {s}
    <3>1. SlotFine(s, Destroyed(x))
      BY <1>4, <2>3, <2>5, <2>7 DEF SlotFine, ResumeFine
    <3>2. /\ sess' \in [Slots -> Sessions] /\ LanRefsExact' /\ \A t \in Slots : SessionSupport(t)'
      BY <1>2, <1>5, <2>7, <3>1, OneSlot
    <3>3. LeftOnce' /\ LeftSupport' /\ calls' \in [IDs -> 0..1] /\ leavePosts' \subseteq IDs
      BY <1>2, <2>1, <2>5, <2>7, LeftNow
    <3>4. QED
      BY <1>1, <1>2, <2>1, <2>7, <3>2, <3>3 DEF SessionInv, SessionTypes, PostsFine, LanNeverQuits
  <2>8. QED
    BY <2>1, <2>6, <2>7
<1>8. QED
  BY <1>3, <1>6, <1>7

-----------------------------------------------------------------------------
(* The queues of the pipes.                                                *)

LEMMA InAppend ==
  ASSUME NEW S, NEW q \in Seq(S), NEW x \in S
  PROVE  /\ Append(q, x) \in Seq(S)
         /\ \A i : In(Append(q, x), i) <=> In(q, i) \/ i = x
         /\ Once(q) /\ ~In(q, x) => Once(Append(q, x))
<1> DEFINE a == Append(q, x)
<1>1. /\ a \in Seq(S) /\ Len(q) \in Nat /\ DOMAIN q = 1..Len(q) /\ DOMAIN a = 1..(Len(q) + 1)
      /\ a[Len(q) + 1] = x /\ \A k \in 1..Len(q) : a[k] = q[k]
  OBVIOUS
<1> HIDE DEF a
<1>2. ASSUME NEW i
      PROVE  In(a, i) <=> In(q, i) \/ i = x
  <2>1. Len(q) + 1 \in DOMAIN a /\ \A k \in DOMAIN q : k \in DOMAIN a
    BY <1>1
  <2>2. \A k \in DOMAIN a : k \in DOMAIN q \/ k = Len(q) + 1
    BY <1>1
  <2>3. QED
    BY <1>1, <2>1, <2>2 DEF In
<1>3. ASSUME Once(q), ~In(q, x)
      PROVE  Once(a)
  BY <1>1, <1>3 DEF Once, In
<1>4. QED
  BY <1>1, <1>2, <1>3 DEF a

LEMMA InTail ==
  ASSUME NEW S, NEW q \in Seq(S), q # <<>>, Once(q)
  PROVE  /\ Tail(q) \in Seq(S) /\ Head(q) \in S /\ In(q, Head(q))
         /\ \A i : In(Tail(q), i) <=> In(q, i) /\ i # Head(q)
         /\ Once(Tail(q))
<1> DEFINE a == Tail(q)
<1>1. /\ a \in Seq(S) /\ Len(q) \in Nat \ {0} /\ DOMAIN q = 1..Len(q) /\ DOMAIN a = 1..(Len(q) - 1)
      /\ Head(q) = q[1] /\ \A k \in 1..(Len(q) - 1) : a[k] = q[k + 1]
  BY EmptySeq, HeadTailProperties
<1>2. 1 \in DOMAIN q /\ q[1] \in S
  BY <1>1
<1> HIDE DEF a
<1>3. ASSUME NEW i
      PROVE  In(a, i) <=> In(q, i) /\ i # q[1]
  <2>1. ASSUME NEW k \in DOMAIN a, a[k] = i
        PROVE  In(q, i) /\ i # q[1]
    <3>1. k + 1 \in DOMAIN q /\ k + 1 # 1 /\ q[k + 1] = i
      BY <1>1, <2>1
    <3>2. QED
      BY <1>2, <3>1 DEF In, Once
  <2>2. ASSUME NEW k \in DOMAIN q, q[k] = i, i # q[1]
        PROVE  In(a, i)
    <3>1. k # 1 /\ k - 1 \in DOMAIN a /\ (k - 1) + 1 = k
      BY <1>1, <2>2
    <3>2. a[k - 1] = i
      BY <1>1, <2>2, <3>1
    <3>3. QED
      BY <3>1, <3>2 DEF In
  <2>3. QED
    BY <2>1, <2>2 DEF In
<1>4. Once(a)
  <2>1. \A k \in DOMAIN a : k \in Int /\ k + 1 \in DOMAIN q /\ a[k] = q[k + 1]
    BY <1>1
  <2>2. \A j, k \in DOMAIN a : a[j] = a[k] => j + 1 = k + 1
    BY <2>1 DEF Once
  <2>3. QED
    BY <2>1, <2>2 DEF Once
<1>5. In(q, Head(q))
  BY <1>1, <1>2 DEF In
<1>6. QED
  BY <1>1, <1>2, <1>3, <1>4, <1>5 DEF a

LEMMA InEmpty == \A i : ~In(<<>>, i)
BY DEF In

\* The user of a session is in its pipe.
LEMMA UserFacts ==
  ASSUME SessionInv, PlaceInv, NEW s \in Slots
  PROVE  /\ sess[s].cur \in Pipes \cup {NoPipe} /\ sess[s].dest \in Pipes \cup {NoPipe}
         /\ ~sess[s].dead => sess[s].id \in IDs /\ slotOf[sess[s].id] = s /\ s # 0 /\ s \notin free
         /\ use = "send" /\ StartSupport => sess[s].cur = NoPipe
<1>1. sess[s] \in Sessions /\ SessionSupport(s) /\ PlaceSupport(s) /\ s # 0
  BY SlotFacts, LanAssumption DEF PlaceInv
<1>2. sess[s].cur \in Pipes \cup {NoPipe} /\ sess[s].dest \in Pipes \cup {NoPipe}
  BY <1>1 DEF Sessions
<1>3. ~sess[s].dead => sess[s].id \in IDs /\ slotOf[sess[s].id] = s /\ s # 0 /\ s \notin free
  BY <1>1 DEF SessionSupport, Sessions, IDs
<1>4. ASSUME use = "send", StartSupport, sess[s].cur # NoPipe
      PROVE  FALSE
  <2>1. \A p \in Pipes : joinQ[p] = <<>> /\ moveInQ[p] = <<>> /\ moveOutQ[p] = <<>> /\ userMap[p] = {}
    BY <1>4 DEF StartSupport
  <2>2. sess[s].cur \in Pipes /\ sess[s].moving
    BY <1>1, <1>2, <1>4, <2>1 DEF PlaceSupport
  <2>3. QED
    BY <1>1, <1>2, <1>4, <2>1, <2>2, InEmpty DEF PlaceSupport
<1>5. QED
  BY <1>2, <1>3, <1>4

\* Places do not change with sessions that stay where they are.
LEMMA PlacesAllSame ==
  ASSUME SessionInv, PlaceInv, \A t \in Slots : Same(sess'[t], sess[t]),
         UNCHANGED <<slotOf, use, userMap, joinQ, moveInQ, moveOutQ, leaveQ>>
  PROVE  PlaceInv'
<1>1. sess \in [Slots -> Sessions] /\ slotOf \in [IDs -> Slots \cup {0}]
  BY DEF SessionInv, SessionTypes
<1>2. ASSUME NEW t \in Slots
      PROVE  PlaceSupport(t)'
  <2>1. Same(sess'[t], sess[t])
    BY <1>2
  <2>2. QED
    BY <2>1 DEF PlaceInv, PlaceSupport, Same
<1>3. ASSUME NEW i \in IDs, NEW p \in Pipes
      PROVE  UserSupport(i, p)'
  <2>1. UserSupport(i, p)
    BY DEF PlaceInv
  <2>2. CASE slotOf[i] \in Slots
    <3>1. Same(sess'[slotOf[i]], sess[slotOf[i]])
      BY <2>2
    <3>2. Has(i)' <=> Has(i)
      BY <3>1 DEF Has, Same
    <3>3. QED
      BY <2>1, <3>1, <3>2 DEF UserSupport, Same
  <2>3. CASE slotOf[i] = 0
    <3>1. ~Has(i) /\ ~Has(i)'
      BY <2>3 DEF Has
    <3>2. QED
      BY <2>1, <3>1 DEF UserSupport
  <2>4. QED
    BY <1>1, <2>2, <2>3
<1>4. PlaceTypes' /\ QueuesOnce'
  BY DEF PlaceInv, PlaceTypes, QueuesOnce
<1>5. QED
  BY <1>2, <1>3, <1>4 DEF PlaceInv

LEMMA PlacesSame ==
  ASSUME SessionInv, PlaceInv, NEW s \in Slots, NEW x, Same(x, sess[s]),
         sess' = [sess EXCEPT ![s] = x],
         UNCHANGED <<slotOf, use, userMap, joinQ, moveInQ, moveOutQ, leaveQ>>
  PROVE  PlaceInv'
<1>1. \A t \in Slots : Same(sess'[t], sess[t])
  BY DEF SessionInv, SessionTypes, Same
<1>2. QED
  BY <1>1, PlacesAllSame

\* A session is released: its user leaves, or it never came.
LEMMA PlacesReleased ==
  ASSUME SessionInv, PlaceInv, NEW s \in Slots, NEW x, Same(x, sess[s]), ~x.dead, ~x.moving, x \in Sessions,
         UNCHANGED <<slotOf, use, userMap, joinQ, moveInQ, moveOutQ>>,
         IF x.cur # NoPipe
         THEN /\ leaveQ' = [leaveQ EXCEPT ![x.cur] = Append(@, x.id)]
              /\ sess' = [sess EXCEPT ![s] = [x EXCEPT !.dead = TRUE]]
         ELSE /\ sess' = [sess EXCEPT ![s] = Destroyed(x)] /\ UNCHANGED leaveQ
  PROVE  PlaceInv'
<1>1. /\ sess \in [Slots -> Sessions] /\ slotOf \in [IDs -> Slots \cup {0}]
      /\ sess[s].cur \in Pipes \cup {NoPipe} /\ x.cur = sess[s].cur /\ x.id = sess[s].id
      /\ ~sess[s].dead /\ ~sess[s].moving
      /\ x.id \in IDs /\ slotOf[x.id] = s /\ s # 0
      /\ NoPipe \notin Pipes
  BY UserFacts, LanAssumption DEF SessionInv, SessionTypes, Same
<1>2. /\ PlaceTypes /\ QueuesOnce /\ PlaceSupport(s)
      /\ \A p \in Pipes : UserSupport(x.id, p)
  BY <1>1 DEF PlaceInv
<1>3. \A p \in Pipes : ~In(leaveQ[p], x.id) /\ ~In(joinQ[p], x.id) /\ ~In(moveInQ[p], x.id) /\ ~In(moveOutQ[p], x.id)
  BY <1>1, <1>2 DEF UserSupport
<1>4. \A p \in Pipes : x.id \in userMap[p] <=> x.cur = p
  BY <1>1, <1>2 DEF UserSupport, PlaceSupport
<1>5. \A i \in IDs : i # x.id /\ slotOf[i] = s => ~Has(i)
  BY <1>1 DEF Has
<1>6. ASSUME NEW y, sess' = [sess EXCEPT ![s] = y], y.id = x.id, y.dead, ~y.moving,
             y.cur = x.cur, 
             \A p \in Pipes : \A i : In(leaveQ'[p], i) <=> In(leaveQ[p], i) \/ (i = x.id /\ p = x.cur),
             \A p \in Pipes : Once(leaveQ'[p]), leaveQ' \in [Pipes -> Seq(IDs)]
      PROVE  PlaceInv'
  <2>1. sess'[s] = y /\ \A t \in Slots : t # s => sess'[t] = sess[t]
    BY <1>1, <1>6
  <2>2. PlaceTypes' /\ QueuesOnce'
    BY <1>2, <1>6 DEF PlaceTypes, QueuesOnce
  <2>3. ASSUME NEW t \in Slots
        PROVE  PlaceSupport(t)'
    <3>1. PlaceSupport(t) /\ sess[t].cur \in Pipes \cup {NoPipe}
      BY UserFacts DEF PlaceInv
    <3>2. CASE t = s
      <4>1. x.cur # NoPipe => x.id \in userMap[x.cur] /\ In(leaveQ'[x.cur], x.id)
        BY <1>1, <1>4, <1>6
      <4>2. QED
        BY <1>1, <1>6, <2>1, <3>2, <4>1 DEF PlaceSupport
    <3>3. CASE t # s
      <4>1. sess'[t] = sess[t]
        BY <2>1, <3>3
      <4>2. sess[t].cur # NoPipe /\ In(leaveQ[sess[t].cur], sess[t].id) => In(leaveQ'[sess[t].cur], sess[t].id)
        BY <1>6, <3>1
      <4>3. QED
        BY <3>1, <4>1, <4>2 DEF PlaceSupport
    <3>4. QED
      BY <3>2, <3>3
  <2>4. ASSUME NEW i \in IDs, NEW p \in Pipes
        PROVE  UserSupport(i, p)'
    <3>1. UserSupport(i, p)
      BY DEF PlaceInv
    <3>2. CASE i = x.id
      <4>1. /\ ~In(joinQ'[p], i) /\ ~In(moveInQ'[p], i) /\ ~In(moveOutQ'[p], i)
            /\ In(leaveQ'[p], i) => p = x.cur
            /\ i \in userMap'[p] <=> x.cur = p
        BY <1>3, <1>4, <1>6, <3>2
      <4>2. Has(i)' /\ slotOf'[i] = s
        BY <1>1, <1>6, <2>1, <3>2 DEF Has
      <4>3. QED
        BY <1>6, <2>1, <4>1, <4>2 DEF UserSupport
    <3>3. CASE i # x.id
      <4>1. In(leaveQ'[p], i) <=> In(leaveQ[p], i)
        BY <1>6, <3>3
      <4>2. CASE slotOf[i] = s
        <5>1. ~Has(i) /\ ~Has(i)'
          BY <1>1, <1>5, <1>6, <2>1, <3>3, <4>2 DEF Has
        <5>2. QED
          BY <3>1, <4>1, <5>1 DEF UserSupport
      <4>3. CASE slotOf[i] # s
        <5>1. Has(i)' <=> Has(i)
          BY <1>1, <2>1, <4>3 DEF Has
        <5>2. Has(i) => sess'[slotOf[i]] = sess[slotOf[i]]
          BY <1>1, <2>1, <4>3 DEF Has
        <5>3. QED
          BY <3>1, <4>1, <5>1, <5>2 DEF UserSupport
      <4>4. QED
        BY <4>2, <4>3
    <3>4. QED
      BY <3>2, <3>3
  <2>5. QED
    BY <2>2, <2>3, <2>4 DEF PlaceInv
<1>7. CASE x.cur # NoPipe
  <2> DEFINE y == [x EXCEPT !.dead = TRUE]
  <2>1. y.id = x.id /\ y.dead /\ ~y.moving /\ y.cur = x.cur
    BY DEF Sessions
  <2> HIDE DEF y
  <2>2. leaveQ' = [leaveQ EXCEPT ![x.cur] = Append(leaveQ[x.cur], x.id)] /\ sess' = [sess EXCEPT ![s] = y]
    BY <1>7 DEF y
  <2>3. x.cur \in Pipes /\ leaveQ \in [Pipes -> Seq(IDs)]
    BY <1>1, <1>2, <1>7 DEF PlaceTypes
  <2>4. /\ Append(leaveQ[x.cur], x.id) \in Seq(IDs)
        /\ \A i : In(Append(leaveQ[x.cur], x.id), i) <=> In(leaveQ[x.cur], i) \/ i = x.id
        /\ Once(Append(leaveQ[x.cur], x.id))
    <3>1. Once(leaveQ[x.cur]) /\ leaveQ[x.cur] \in Seq(IDs)
      BY <1>2, <2>3 DEF QueuesOnce
    <3>2. QED
      BY <1>1, <1>3, <2>3, <3>1, InAppend
  <2>5. /\ \A p \in Pipes : \A i : In(leaveQ'[p], i) <=> In(leaveQ[p], i) \/ (i = x.id /\ p = x.cur)
        /\ leaveQ' \in [Pipes -> Seq(IDs)]
    BY <2>2, <2>3, <2>4
  <2>6. \A p \in Pipes : Once(leaveQ'[p])
    BY <1>2, <2>2, <2>3, <2>4 DEF QueuesOnce
  <2>7. QED
    BY <1>6, <2>1, <2>2, <2>5, <2>6
<1>8. CASE x.cur = NoPipe
  <2>1. /\ Destroyed(x).id = x.id /\ Destroyed(x).dead /\ ~Destroyed(x).moving
        /\ Destroyed(x).cur = x.cur
    <3>1. PICK y : y = Destroyed(x)
      OBVIOUS
    <3>2. x \in Sessions
      BY <1>1
    <3>3. QED
      BY <1>8, <3>1, <3>2, DestroyedRecord
  <2>2. leaveQ' = leaveQ /\ sess' = [sess EXCEPT ![s] = Destroyed(x)]
    BY <1>8
  <2>3. QED
    BY <1>1, <1>2, <1>6, <1>8, <2>1, <2>2 DEF QueuesOnce, PlaceTypes
<1>9. QED
  BY <1>7, <1>8

-----------------------------------------------------------------------------
(* The handlers: what all of them keep.                                    *)

CoreInv == SessionInv /\ PlaceInv /\ StopInv

Goes == main \in {"running", "sleeping"}

\* where pipes are used nothing is sent
Quiet(x) ==
  use = "pipe" => /\ port' = <<>> /\ \A w \in Workers : worker'[w].pc \notin {"set", "spin"}
                  /\ x.sendQ = <<>> /\ x.send = "none"

LEMMA GoingKeepsStop ==
  ASSUME SessionInv, PlaceInv, StopInv, Goes, NEW s \in Slots, NEW y,
         sess' = [sess EXCEPT ![s] = y], Quiet(y),
         y.dead => y.cur # NoPipe \/ s \in free',
         \A t \in Slots : t # s => (t \in free' <=> t \in free),
         UNCHANGED <<use, main, isRunning, phase>>,
         use = "send" => UNCHANGED <<userMap, joinQ, moveInQ, moveOutQ, leaveQ>>
  PROVE  StopInv'
<1>1. sess \in [Slots -> Sessions]
  BY DEF SessionInv, SessionTypes
<1>2. sess'[s] = y /\ \A t \in Slots : t # s => sess'[t] = sess[t]
  BY <1>1
<1>3. StopTypes' /\ Goes' /\ Begun' /\ Begun /\ isRunning'
  BY DEF StopInv, StopTypes, Goes, Begun, StartSupport
<1>4. \A t \in Slots : sess'[t].dead => t \in free' \/ sess'[t].cur # NoPipe
  <2>1. \A t \in Slots : sess[t].dead => t \in free \/ sess[t].cur # NoPipe
    BY <1>3 DEF StopInv, StartSupport
  <2>2. QED
    BY <1>2, <2>1
<1>5. use' = "pipe" => /\ port' = <<>> /\ \A w \in Workers : worker'[w].pc \notin {"set", "spin"}
                       /\ \A t \in Slots : sess'[t].sendQ = <<>> /\ sess'[t].send = "none"
  <2>1. use = "pipe" => \A t \in Slots : sess[t].sendQ = <<>> /\ sess[t].send = "none"
    BY DEF StopInv, StartSupport
  <2>2. QED
    BY <1>2, <2>1 DEF Quiet
<1>6. use' = "send" => \A p \in Pipes : joinQ'[p] = <<>> /\ moveInQ'[p] = <<>> /\ moveOutQ'[p] = <<>>
                                       /\ leaveQ'[p] = <<>> /\ userMap'[p] = {}
  BY DEF StopInv, StartSupport
<1>7. \A p \in Pipes : phase'[p] \in {"none", "join", "in", "out", "leave", "message"}
  BY <1>3 DEF StopInv, StartSupport
<1>8. StartSupport'
  BY <1>3, <1>4, <1>5, <1>6, <1>7 DEF StartSupport
<1>9. StopSupport'
  BY <1>3, <1>7 DEF StopSupport, Goes
<1>10. QED
  BY <1>3, <1>8, <1>9 DEF StopInv

\* A handler leaves session s with record x, and the session is where it was.
HandlerStep(s, x, cnt) ==
  /\ Goes /\ Handled(s, x, cnt) /\ Same(x, sess[s]) /\ Quiet(x)
  /\ UNCHANGED <<use, main, isRunning, phase, userMap, joinQ, moveInQ, moveOutQ>>

LEMMA HandlerKeeps ==
  ASSUME CoreInv, NEW s \in Slots, NEW x, NEW cnt, HandlerStep(s, x, cnt)
  PROVE  CoreInv'
<1>1. /\ SessionInv /\ PlaceInv /\ StopInv /\ Goes /\ Handled(s, x, cnt) /\ Same(x, sess[s]) /\ Quiet(x)
      /\ UNCHANGED <<use, main, isRunning, phase, userMap, joinQ, moveInQ, moveOutQ>>
  BY DEF CoreInv, HandlerStep
<1>2. SessionInv'
  BY <1>1, HandledKeepsSessions
<1>3. /\ ~sess[s].dead /\ ~x.dead /\ Holds(x, Hands(s)') /\ PostsFine /\ slotOf' = slotOf
      /\ Leave(s, x, cnt) /\ x \in Sessions /\ x.refs \in Nat
  BY <1>1 DEF Handled, Holds, GoodRecord, Sessions
<1>4. CASE x.refs > 0
  <2>1. ~(x.refs < 0)
    BY <1>3
  <2>2. sess' = [sess EXCEPT ![s] = x] /\ free' = free /\ leaveQ' = leaveQ
    BY <1>3, <1>4, <2>1 DEF Leave
  <2>3. PlaceInv'
    BY <1>1, <1>3, <2>2, PlacesSame
  <2>4. StopInv'
    BY <1>1, <1>3, <2>2, GoingKeepsStop
  <2>5. QED
    BY <1>2, <2>3, <2>4 DEF CoreInv
<1>5. CASE x.refs = 0
  <2>1. ~(x.refs < 0) /\ ~(x.refs > 0)
    BY <1>5
  <2>2. IF x.cur # NoPipe
        THEN /\ leaveQ' = [leaveQ EXCEPT ![x.cur] = Append(@, x.id)]
             /\ sess' = [sess EXCEPT ![s] = [x EXCEPT !.dead = TRUE]] /\ free' = free
        ELSE /\ sess' = [sess EXCEPT ![s] = Destroyed(x)] /\ leaveQ' = leaveQ /\ free' = free \cup {s}
    BY <1>3, <2>1 DEF Leave
  <2>3. x.recv = "none" /\ x.send = "none" /\ ~x.moving
    BY <1>3, <1>5, NothingHeld
  <2>4. PlaceInv'
    BY <1>1, <1>3, <2>2, <2>3, PlacesReleased
  <2>5. StopInv'
    <3>1. use = "send" => x.cur = NoPipe
      BY <1>1, UserFacts DEF Same, StopInv
    <3>2. CASE x.cur # NoPipe
      <4> DEFINE y == [x EXCEPT !.dead = TRUE]
      <4>1. y.cur = x.cur /\ y.sendQ = x.sendQ /\ y.send = x.send
        BY <1>3 DEF Sessions
      <4>2. sess' = [sess EXCEPT ![s] = y] /\ free' = free
        BY <2>2, <3>2
      <4> HIDE DEF y
      <4>3. Quiet(y) /\ y.cur # NoPipe
        BY <1>1, <3>2, <4>1 DEF Quiet
      <4>4. QED
        BY <1>1, <3>1, <3>2, <4>2, <4>3, GoingKeepsStop
    <3>3. CASE x.cur = NoPipe
      <4>1. Destroyed(x).sendQ = <<>> /\ Destroyed(x).send = "none"
        BY <1>3, <2>3, DestroyedFields
      <4>2. sess' = [sess EXCEPT ![s] = Destroyed(x)] /\ free' = free \cup {s} /\ leaveQ' = leaveQ
        BY <2>2, <3>3
      <4>3. Quiet(Destroyed(x))
        BY <1>1, <4>1 DEF Quiet
      <4>4. QED
        BY <1>1, <4>2, <4>3, GoingKeepsStop
    <3>4. QED
      BY <3>2, <3>3
  <2>6. QED
    BY <1>2, <2>4, <2>5 DEF CoreInv
<1>6. QED
  BY <1>3, <1>4, <1>5

\* When the server goes: as long as anything is under way.
LEMMA MustGo ==
  ASSUME CoreInv
  PROVE  /\ \A s \in Slots : sess[s].recv # "none" \/ sess[s].send # "none" => Goes
         /\ \A w \in Workers : worker[w].pc \in {"set", "resume"} => Goes
         /\ \A w \in Workers : worker[w].pc = "spin" /\ ~sess[worker[w].slot].sending => Goes
         /\ port # <<>> => Goes
         /\ leavePosts # {} => Goes
         /\ \A s \in Slots : use = "pipe" /\ ~sess[s].dead => Goes
<1>1. StopTypes /\ StartSupport /\ StopSupport
  BY DEF CoreInv, StopInv
<1>2. Goes \/ (~Begun) \/ main \in {"waiting", "stopped"}
  BY DEF Goes, Begun
<1>3. CASE ~Begun
  <2>1. /\ sess = [s \in Slots |-> Dead] /\ port = <<>> /\ slotOf = [i \in IDs |-> 0]
        /\ \A w \in Workers : worker[w] = [Waiting EXCEPT !.pc = "none"]
    BY <1>1, <1>3 DEF StartSupport
  <2>2. \A s \in Slots : sess[s].recv = "none" /\ sess[s].send = "none" /\ sess[s].dead
    BY <2>1 DEF Dead
  <2>3. \A w \in Workers : worker[w].pc = "none"
    BY <2>1 DEF Waiting
  <2>4. leavePosts = {}
    <3>1. LeftSupport /\ leavePosts \subseteq IDs
      BY DEF CoreInv, SessionInv, SessionTypes
    <3>2. QED
      BY <2>1, <3>1 DEF LeftSupport
  <2>5. QED
    BY <2>1, <2>2, <2>3, <2>4
<1>4. CASE main \in {"waiting", "stopped"}
  <2>1. /\ port = <<>> /\ leavePosts = {}
        /\ \A s \in Slots : sess[s].recv = "none" /\ sess[s].send = "none"
        /\ \A w \in Workers : /\ worker[w].pc \in {"waiting", "spin", "ended"}
                              /\ (worker[w].pc = "spin" => sess[worker[w].slot].sending)
        /\ \A p \in Pipes : joinQ[p] = <<>> /\ moveInQ[p] = <<>> /\ moveOutQ[p] = <<>>
    BY <1>1, <1>4 DEF StopSupport
  <2>2. ASSUME NEW s \in Slots, use = "pipe"
        PROVE  sess[s].dead
    <3>1. /\ Holds(sess[s], Hands(s)) /\ SessionSupport(s) /\ PlaceSupport(s) /\ sess[s].cur \in Pipes \cup {NoPipe}
          /\ sess[s].dest \in Pipes \cup {NoPipe} /\ sess[s] \in Sessions /\ SessionTypes
      BY SlotFacts, UserFacts DEF CoreInv, PlaceInv, SessionInv
    <3>2. ~sess[s].moving
      BY <2>1, <3>1, InEmpty DEF PlaceSupport
    <3>3. Signs(s) = {}
      BY <2>1 DEF Signs
    <3>4. InHand(s) = {}
      <4>1. \A w \in Workers : WorkerSupport(w) /\ worker[w].pc # "spin" /\ worker[w].pc # "resume"
        BY <1>1, <2>1, <2>2 DEF CoreInv, SessionInv, StartSupport
      <4>2. s # 0
        BY LanAssumption
      <4>3. QED
        BY <4>1, <4>2 DEF InHand, WorkerSupport
    <3>5. Hands(s) = 0
      BY <3>3, <3>4, FS_EmptySet DEF Hands
    <3>6. Ops(sess[s]) = 0
      BY <2>1, <3>2 DEF Ops, SendHolds
    <3>7. sess[s].refs = 0
      BY <3>1, <3>5, <3>6 DEF Holds
    <3>8. QED
      BY <3>1, <3>7 DEF SessionSupport
  <2>3. QED
    BY <2>1, <2>2
<1>5. QED
  BY <1>2, <1>3, <1>4

\* Nothing is posted and no worker moves.
LEMMA HandsSame ==
  ASSUME SessionInv, UNCHANGED <<port, worker, slotOf>>
  PROVE  PostsFine /\ \A t : Hands(t)' = Hands(t) /\ Resuming(t)' = Resuming(t)
<1>1. \A t : Signs(t)' = Signs(t) /\ InHand(t)' = InHand(t)
  BY DEF Signs, InHand
<1>2. \A t : Resuming(t)' = Resuming(t)
  BY <1>1 DEF Resuming
<1>3. \A t : Hands(t)' = Hands(t)
  BY <1>1 DEF Hands
<1>4. PostsFine
  BY DEF PostsFine, SessionInv, SessionTypes, WorkerSupport, SignSupport
<1>5. QED
  BY <1>2, <1>3, <1>4

LEMMA ResumeKept ==
  ASSUME SessionInv, NEW s \in Slots, NEW x, Resuming(s)' = Resuming(s),
         sess[s].sending => x.sending /\ (sess[s].send = "none" => x.send = "none")
  PROVE  ResumeFine(s, x)
<1>1. SessionSupport(s)
  BY SlotFacts
<1>2. CASE Resuming(s) = {}
  BY <1>2 DEF ResumeFine
<1>3. CASE Resuming(s) # {}
  BY <1>1, <1>3 DEF ResumeFine, SessionSupport
<1>4. QED
  BY <1>2, <1>3

\* where pipes are used nothing was sent
LEMMA QuietKept ==
  ASSUME CoreInv, NEW s \in Slots, NEW x, UNCHANGED <<port, worker>>, Silent(sess[s]) => Silent(x)
  PROVE  Quiet(x)
BY DEF CoreInv, StopInv, StartSupport, Quiet, Silent

others == <<isSendIOPending, isLogicMultithreaded, slotOf, use, main, isRunning, phase,
            userMap, joinQ, moveInQ, moveOutQ>>

LEMMA LeaveUnposted ==
  ASSUME CoreInv, Goes, NEW s \in Slots, NEW x, NEW cnt, ~sess[s].dead,
         Holds(x, Hands(s)), Same(x, sess[s]), Silent(sess[s]) => Silent(x),
         sess[s].sending => x.sending /\ (sess[s].send = "none" => x.send = "none"),
         UNCHANGED <<others, port, worker>>, Leave(s, x, cnt)
  PROVE  CoreInv'
<1>1. SessionInv /\ UNCHANGED <<port, worker, slotOf>>
  BY DEF CoreInv, others
<1>2. PostsFine /\ \A t : Hands(t)' = Hands(t) /\ Resuming(t)' = Resuming(t)
  BY <1>1, HandsSame
<1>3. HandsKept(s)
  BY <1>2 DEF HandsKept
<1>4. ResumeFine(s, x)
  BY <1>1, <1>2, ResumeKept
<1>5. Quiet(x)
  BY <1>1, QuietKept
<1>6. Holds(x, Hands(s)')
  <2>1. Hands(s)' = Hands(s)
    BY <1>2
  <2>2. QED
    BY <2>1
<1>7. Handled(s, x, cnt)
  BY <1>2, <1>3, <1>4, <1>6 DEF Handled, Same, others
<1>8. QED
  BY <1>5, <1>7, HandlerKeeps DEF HandlerStep, others

-----------------------------------------------------------------------------
(* Completions.                                                            *)

\* what is left of x when its place, its queues and its send stay
Kept(x, r) ==
  /\ Same(x, r) /\ x.sending = r.sending /\ (r.send = "none" => x.send = "none")
  /\ x.sendQ = r.sendQ /\ x.sentQ = r.sentQ

LEMMA RecvTaken ==
  ASSUME NEW r, NEW n, Holds(r, n), n \in Nat, r.recv # "none"
  PROVE  LET x == [r EXCEPT !.recv = "none"] IN
         /\ Holds(x, n + 1) /\ x.recv = "none" /\ Kept(x, r)
         /\ x.send = r.send /\ x.canceled = r.canceled
<1> DEFINE x == [r EXCEPT !.recv = "none"]
<1>1. r \in Sessions
  BY DEF Holds, GoodRecord
<1>2. /\ x \in Sessions /\ x.refs = r.refs /\ Same(x, r) /\ x.jobQ = r.jobQ
      /\ x.canceled = r.canceled /\ x.recv = "none" /\ x.send = r.send
      /\ x.sending = r.sending /\ x.sendQ = r.sendQ /\ x.sentQ = r.sentQ
  BY <1>1 DEF Sessions, Same
<1> HIDE DEF x
<1>3. Ops(r) = Ops(x) + 1 /\ Ops(x) \in Nat
  BY <1>2, OpsRange DEF Ops, SendHolds, Same, Sessions
<1>4. GoodRecord(x)
  BY <1>2 DEF Holds, GoodRecord, Same
<1>5. Holds(x, n + 1)
  BY <1>2, <1>3, <1>4 DEF Holds
<1>6. Kept(x, r)
  BY <1>2 DEF Kept
<1>7. QED
  BY <1>2, <1>5, <1>6 DEF x

LEMMA SendTaken ==
  ASSUME NEW r, NEW n, Holds(r, n), n \in Nat, r.send # "none"
  PROVE  LET x == [r EXCEPT !.send = "none"] IN
         /\ Holds(x, n + SendHolds(r)) /\ x.send = "none" /\ Kept(x, r)
         /\ x.recv = r.recv /\ x.canceled = r.canceled
<1> DEFINE x == [r EXCEPT !.send = "none"]
<1>1. r \in Sessions
  BY DEF Holds, GoodRecord
<1>2. /\ x \in Sessions /\ x.refs = r.refs /\ Same(x, r) /\ x.jobQ = r.jobQ
      /\ x.canceled = r.canceled /\ x.send = "none" /\ x.recv = r.recv
      /\ x.sending = r.sending /\ x.sendQ = r.sendQ /\ x.sentQ = r.sentQ
  BY <1>1 DEF Sessions, Same
<1> HIDE DEF x
<1>3. Ops(r) = Ops(x) + SendHolds(r) /\ Ops(x) \in Nat /\ SendHolds(r) \in Nat
  BY <1>2, OpsRange DEF Ops, SendHolds, Same, Sessions
<1>4. GoodRecord(x)
  BY <1>2 DEF Holds, GoodRecord, Same
<1>5. Holds(x, n + SendHolds(r))
  BY <1>2, <1>3, <1>4 DEF Holds
<1>6. Kept(x, r)
  BY <1>2 DEF Kept
<1>7. QED
  BY <1>2, <1>5, <1>6 DEF x

LEMMA JobQueued ==
  ASSUME NEW r, NEW n, Holds(r, n), Len(r.jobQ) < MaxJobs, r.id \in IDs
  PROVE  LET x == [r EXCEPT !.jobQ = Append(@, r.id)] IN
         /\ Holds(x, n) /\ Kept(x, r)
         /\ x.send = r.send /\ x.recv = r.recv /\ x.canceled = r.canceled
<1> DEFINE q == Append(r.jobQ, r.id)
<1> DEFINE x == [r EXCEPT !.jobQ = q]
<1>1. r \in Sessions /\ r.jobQ \in Seq(IDs)
  BY DEF Holds, GoodRecord, Sessions
<1>2. q \in Seq(IDs) /\ Len(q) = Len(r.jobQ) + 1 /\ Len(q) <= MaxJobs
      /\ \A k \in DOMAIN q : q[k] = r.id
  <2>1. /\ q \in Seq(IDs) /\ Len(q) = Len(r.jobQ) + 1 /\ DOMAIN q = 1..Len(q) /\ Len(r.jobQ) \in Nat
        /\ DOMAIN r.jobQ = 1..Len(r.jobQ)
        /\ q[Len(q)] = r.id /\ \A k \in 1..Len(r.jobQ) : q[k] = r.jobQ[k]
    BY <1>1
  <2>2. \A k \in DOMAIN r.jobQ : r.jobQ[k] = r.id
    BY DEF Holds, GoodRecord
  <2> HIDE DEF q
  <2>3. \A k \in DOMAIN q : k \in DOMAIN r.jobQ \/ k = Len(q)
    BY <2>1
  <2>4. QED
    BY <2>1, <2>2, <2>3, LanAssumption
<1> HIDE DEF q
<1>3. /\ x \in Sessions /\ x.refs = r.refs /\ Same(x, r) /\ x.jobQ = q
      /\ x.canceled = r.canceled /\ x.send = r.send /\ x.recv = r.recv
      /\ x.sending = r.sending /\ x.sendQ = r.sendQ /\ x.sentQ = r.sentQ
  BY <1>1, <1>2 DEF Sessions, Same
<1> HIDE DEF x
<1>4. Ops(x) = Ops(r)
  BY <1>3 DEF Ops, SendHolds, Same
<1>5. GoodRecord(x)
  BY <1>2, <1>3 DEF Holds, GoodRecord, Same
<1>6. Holds(x, n)
  BY <1>3, <1>4, <1>5 DEF Holds
<1>7. Kept(x, r)
  BY <1>3 DEF Kept
<1>8. QED
  BY <1>3, <1>6, <1>7 DEF x, q

LEMMA KeptTrans ==
  ASSUME NEW x, NEW y, NEW r, Kept(x, y), Kept(y, r)
  PROVE  Kept(x, r)
BY DEF Kept, Same

\* the same with the lemmas of the last section
LEMMA DropKeeps ==
  ASSUME NEW r, NEW n, Holds(r, n + 1), n \in Nat
  PROVE  Holds(Drop(r, 1), n) /\ Kept(Drop(r, 1), r)
<1>1. /\ Holds(Drop(r, 1), n) /\ Same(Drop(r, 1), r)
      /\ Drop(r, 1).sending = r.sending /\ Drop(r, 1).send = r.send
      /\ Drop(r, 1).sendQ = r.sendQ /\ Drop(r, 1).sentQ = r.sentQ
  BY DropHolds
<1>2. QED
  BY <1>1 DEF Kept

LEMMA DisconnectKeeps ==
  ASSUME NEW r, NEW n, Holds(r, n + 1), n \in Nat
  PROVE  Holds(DisconnectedSession(r), n) /\ Kept(DisconnectedSession(r), r)
BY DisconnectedSessionHolds DEF Kept

LEMMA RecvPostedKeeps ==
  ASSUME NEW r, NEW n, Holds(r, n + 1), n \in Nat, r.recv = "none", NEW x \in RecvPosted(r)
  PROVE  Holds(x, n) /\ Kept(x, r)
BY RecvPostedHolds DEF Kept

\* a handler of one reference
LEMMA LeaveKept ==
  ASSUME CoreInv, Goes, NEW s \in Slots, NEW x, NEW cnt, ~sess[s].dead,
         Holds(x, Hands(s)), Kept(x, sess[s]),
         UNCHANGED <<others, port, worker>>, Leave(s, x, cnt)
  PROVE  CoreInv'
<1>1. Same(x, sess[s]) /\ (Silent(sess[s]) => Silent(x))
  BY DEF Kept, Silent
<1>2. sess[s].sending => x.sending /\ (sess[s].send = "none" => x.send = "none")
  BY DEF Kept
<1>3. QED
  BY <1>1, <1>2, LeaveUnposted

\* something under way: the session is alive
LEMMA UnderWay ==
  ASSUME SessionInv, NEW s \in Slots, sess[s].recv # "none" \/ sess[s].send # "none" \/ sess[s].moving
  PROVE  ~sess[s].dead
<1>1. Holds(sess[s], Hands(s)) /\ SessionSupport(s) /\ Hands(s) \in Nat /\ sess[s] \in Sessions
  BY SlotFacts
<1>2. Ops(sess[s]) # 0 /\ Ops(sess[s]) \in Nat
  BY <1>1, OpsRange DEF Ops, SendHolds, Sessions
<1>3. QED
  BY <1>1, <1>2 DEF Holds, SessionSupport

LEMMA TakeRecvKeeps ==
  ASSUME CoreInv, NEW w \in Workers, NEW s \in Slots, TakeRecv(w, s)
  PROVE  CoreInv'
<1> DEFINE r == [sess[s] EXCEPT !.recv = "none"]
<1>1. /\ sess[s].recv # "none" /\ UNCHANGED <<others, port, worker>>
      /\ \/ Received(s, r)
         \/ Leave(s, DisconnectedSession(r), refCnt)
         \/ sess[s].recv = "aborted" /\ Aborted(s, r)
  BY DEF TakeRecv, others, rest, params, mainVars, pipeQs
<1>2. /\ SessionInv /\ Holds(sess[s], Hands(s)) /\ Hands(s) \in Nat /\ sess[s] \in Sessions
      /\ GoodRecord(sess[s])
  BY SlotFacts DEF CoreInv, Holds
<1>3. Goes /\ ~sess[s].dead
  BY <1>1, <1>2, MustGo, UnderWay
<1>4. /\ Holds(r, Hands(s) + 1) /\ r.recv = "none" /\ Kept(r, sess[s])
      /\ r.send = sess[s].send /\ r.canceled = sess[s].canceled
  BY <1>1, <1>2, RecvTaken
<1>5. r.id \in IDs
  <2>1. sess[s].id \in IDs
    BY <1>3, UserFacts DEF CoreInv
  <2>2. QED
    BY <1>4, <2>1 DEF Kept, Same
<1> HIDE DEF r
<1>6. ASSUME NEW x, NEW cnt, Holds(x, Hands(s)), Kept(x, r), Leave(s, x, cnt)
      PROVE  CoreInv'
  <2>1. Kept(x, sess[s])
    BY <1>4, <1>6, KeptTrans
  <2>2. QED
    BY <1>1, <1>3, <1>6, <2>1, LeaveKept
<1>7. CASE Leave(s, DisconnectedSession(r), refCnt)
  BY <1>2, <1>4, <1>6, <1>7, DisconnectKeeps
<1>8. CASE Leave(s, Drop(r, 1), refCnt)
  BY <1>2, <1>4, <1>6, <1>8, DropKeeps
<1>9. CASE \E x \in RecvPosted(r) : Leave(s, x, refCnt)
  <2>1. PICK x \in RecvPosted(r) : Leave(s, x, refCnt)
    BY <1>9
  <2>2. Holds(x, Hands(s)) /\ Kept(x, r)
    BY <1>2, <1>4, <2>1, RecvPostedKeeps
  <2>3. QED
    BY <1>6, <2>1, <2>2
<1>10. CASE /\ Len(r.jobQ) < MaxJobs
            /\ \E x \in RecvPosted([r EXCEPT !.jobQ = Append(@, r.id)]) : Leave(s, x, refCnt)
  <2> DEFINE j == [r EXCEPT !.jobQ = Append(@, r.id)]
  <2>1. PICK x \in RecvPosted(j) : Leave(s, x, refCnt)
    BY <1>10
  <2>2. Holds(j, Hands(s) + 1) /\ Kept(j, r) /\ j.recv = "none"
    BY <1>4, <1>5, <1>10, JobQueued
  <2> HIDE DEF j
  <2>3. Holds(x, Hands(s)) /\ Kept(x, j)
    BY <1>2, <2>1, <2>2, RecvPostedKeeps
  <2>4. QED
    BY <1>6, <2>1, <2>2, <2>3, KeptTrans
<1>11. CASE sess[s].recv = "aborted" /\ Aborted(s, r)
  <2>1. r.canceled
    BY <1>2, <1>4, <1>11 DEF GoodRecord
  <2>2. QED
    BY <1>8, <1>11, <2>1 DEF Aborted
<1>12. CASE Received(s, r)
  <2>1. \/ Leave(s, Drop(r, 1), refCnt)
        \/ \E n \in RecvPosted(IF r.cur # NoPipe /\ Len(r.jobQ) < MaxJobs
                               THEN [r EXCEPT !.jobQ = Append(@, r.id)] ELSE r) : Leave(s, n, refCnt)
        \/ Leave(s, DisconnectedSession(r), refCnt)
    BY <1>12 DEF Received
  <2>2. QED
    BY <1>7, <1>8, <1>9, <1>10, <2>1
<1>13. QED
  BY <1>1, <1>7, <1>11, <1>12

\* references are taken
LEMMA RefsTaken ==
  ASSUME NEW r, NEW n, NEW m, Holds(r, n), n \in Nat, m \in Nat
  PROVE  LET x == [r EXCEPT !.refs = @ + m] IN
         /\ Holds(x, n + m) /\ Kept(x, r)
         /\ x.send = r.send /\ x.recv = r.recv /\ x.canceled = r.canceled /\ x.jobQ = r.jobQ
<1> DEFINE x == [r EXCEPT !.refs = r.refs + m]
<1>1. r \in Sessions /\ r.refs + m \in Nat
  BY DEF Holds, GoodRecord, Sessions
<1>2. /\ x \in Sessions /\ x.refs = r.refs + m /\ Same(x, r) /\ x.jobQ = r.jobQ
      /\ x.canceled = r.canceled /\ x.send = r.send /\ x.recv = r.recv
      /\ x.sending = r.sending /\ x.sendQ = r.sendQ /\ x.sentQ = r.sentQ
  <2>1. PICK k \in Nat : k = r.refs + m
    BY <1>1
  <2>2. x = [r EXCEPT !.refs = k]
    BY <2>1
  <2> HIDE DEF x
  <2>3. x \in Sessions
    BY <1>1, <2>2 DEF Sessions
  <2>4. QED
    BY <1>1, <2>1, <2>2, <2>3 DEF Sessions, Same
<1> HIDE DEF x
<1>3. Ops(x) = Ops(r) /\ Ops(r) \in Nat
  BY <1>1, <1>2, OpsRange DEF Ops, SendHolds, Same
<1>4. GoodRecord(x)
  BY <1>2 DEF Holds, GoodRecord, Same
<1>5. Holds(x, n + m)
  BY <1>2, <1>3, <1>4 DEF Holds
<1>6. Kept(x, r)
  BY <1>2 DEF Kept
<1>7. QED
  BY <1>2, <1>5, <1>6 DEF x

LEMMA DropTwoKeeps ==
  ASSUME NEW r, NEW n, Holds(r, n + 2), n \in Nat
  PROVE  Holds(Drop(r, 2), n) /\ Kept(Drop(r, 2), r)
BY DropTwo DEF Kept

\* A handler changes a session, and keeps a reference.
LEMMA Stays ==
  ASSUME NEW s, NEW y, sess' = [sess EXCEPT ![s] = y], y.refs \in Nat, y.refs > 0,
         UNCHANGED <<refCnt, quit, free, calls, leavePosts, leaveQ>>
  PROVE  Leave(s, y, refCnt)
<1>1. ~(y.refs < 0)
  OBVIOUS
<1>2. QED
  BY <1>1 DEF Leave, leftVars

\* A worker that has nothing takes a session.
LEMMA SessionTaken ==
  ASSUME SessionInv, NEW w \in Workers, NEW s \in Slots, NEW v \in WorkerStates, worker[w].slot = 0, v.slot = s,
         worker' = [worker EXCEPT ![w] = v], UNCHANGED <<port, slotOf>>
  PROVE  /\ Hands(s)' = Hands(s) + 2 /\ HandsKept(s)
         /\ Resuming(s)' = Resuming(s) \cup (IF v.pc = "resume" THEN {w} ELSE {})
<1>1. SessionTypes /\ s # 0
  BY LanAssumption DEF SessionInv
<1>2. ASSUME NEW t
      PROVE  /\ InHand(t)' = (InHand(t) \ {w}) \cup (IF v.slot = t THEN {w} ELSE {})
             /\ Resuming(t)' = (Resuming(t) \ {w}) \cup (IF v.slot = t /\ v.pc = "resume" THEN {w} ELSE {})
  <2>1. /\ InHand(t)' = (InHand(t) \ {w}) \cup (IF v.slot = t THEN {w} ELSE {})
        /\ Resuming(t)' = (Resuming(t) \ {w}) \cup (IF v.slot = t /\ v.pc = "resume" THEN {w} ELSE {})
        /\ worker[w].slot = v.slot => InHand(t)' = InHand(t)
        /\ worker[w].slot = v.slot /\ worker[w].pc # "resume" /\ v.pc # "resume" => Resuming(t)' = Resuming(t)
    BY <1>1, WorkerMoves, ZenonT(40), ZenonT(40)
  <2>2. QED
    BY <2>1
<1>3. \A t \in Slots : w \notin InHand(t) /\ w \notin Resuming(t)
  BY LanAssumption DEF InHand, Resuming
<1>4. \A t : Signs(t)' = Signs(t)
  BY DEF Signs
<1>5. InHand(s)' = InHand(s) \cup {w}
  BY <1>2, <1>3
<1>6. Cardinality(InHand(s)') = Cardinality(InHand(s)) + 1
  BY <1>1, <1>3, <1>5, HandTaken
<1>7. Hands(s)' = Hands(s) + 2
  BY <1>1, <1>4, <1>6, HandsFacts DEF Hands
<1>8. HandsKept(s)
  <2>1. ASSUME NEW t \in Slots, t # s
        PROVE  InHand(t)' = InHand(t) /\ Resuming(t)' = Resuming(t)
    <3>1. /\ InHand(t)' = (InHand(t) \ {w}) \cup (IF v.slot = t THEN {w} ELSE {})
          /\ Resuming(t)' = (Resuming(t) \ {w}) \cup (IF v.slot = t /\ v.pc = "resume" THEN {w} ELSE {})
          /\ w \notin InHand(t) /\ w \notin Resuming(t)
      BY <1>2, <1>3
    <3>2. QED
      BY <2>1, <3>1
  <2>2. QED
    BY <1>4, <2>1 DEF HandsKept, Hands
<1>9. QED
  BY <1>2, <1>3, <1>7, <1>8

\* A worker gives a session back.
LEMMA SessionGiven ==
  ASSUME SessionInv, NEW w \in Workers, NEW s \in Slots, NEW v \in WorkerStates, worker[w].slot = s, v.slot = 0,
         worker' = [worker EXCEPT ![w] = v], UNCHANGED <<port, slotOf>>
  PROVE  /\ Hands(s)' = Hands(s) - 2 /\ Hands(s) >= 2 /\ HandsKept(s)
         /\ Resuming(s)' = Resuming(s) \ {w} /\ w \in InHand(s)
<1>1. SessionTypes /\ s # 0 /\ s \in Slots
  BY LanAssumption DEF SessionInv
<1>2. /\ \A t : InHand(t)' = (InHand(t) \ {w}) \cup (IF v.slot = t THEN {w} ELSE {})
      /\ \A t : Resuming(t)' = (Resuming(t) \ {w}) \cup (IF v.slot = t /\ v.pc = "resume" THEN {w} ELSE {})
  <2>1. ASSUME NEW t
        PROVE  /\ InHand(t)' = (InHand(t) \ {w}) \cup (IF v.slot = t THEN {w} ELSE {})
               /\ Resuming(t)' = (Resuming(t) \ {w}) \cup (IF v.slot = t /\ v.pc = "resume" THEN {w} ELSE {})
    <3>1. SessionTypes
      BY <1>1
    <3>2. /\ InHand(t)' = (InHand(t) \ {w}) \cup (IF v.slot = t THEN {w} ELSE {})
          /\ Resuming(t)' = (Resuming(t) \ {w}) \cup (IF v.slot = t /\ v.pc = "resume" THEN {w} ELSE {})
          /\ worker[w].slot = v.slot => InHand(t)' = InHand(t)
          /\ worker[w].slot = v.slot /\ worker[w].pc # "resume" /\ v.pc # "resume" => Resuming(t)' = Resuming(t)
      BY <3>1, WorkerMoves, ZenonT(40)
    <3>3. QED
      BY <3>2
  <2>2. QED
    BY <2>1
<1>3. w \in InHand(s) /\ \A t \in Slots : t # s => w \notin InHand(t) /\ w \notin Resuming(t)
  BY DEF InHand, Resuming
<1>4. \A t : Signs(t)' = Signs(t)
  BY DEF Signs
<1>5. /\ \A t \in Slots : t # s => InHand(t)' = InHand(t) /\ Resuming(t)' = Resuming(t)
      /\ InHand(s)' = InHand(s) \ {w} /\ Resuming(s)' = Resuming(s) \ {w}
  BY <1>1, <1>2, <1>3, LanAssumption
<1>6. Cardinality(InHand(s)') = Cardinality(InHand(s)) - 1
  BY <1>1, <1>3, <1>5, HandGiven
<1>7. Hands(s)' = Hands(s) - 2
  <2>1. Cardinality(Signs(s)) \in Nat /\ Cardinality(InHand(s)) \in Nat
    BY <1>1, HandsFacts
  <2>2. QED
    BY <1>4, <1>6, <2>1 DEF Hands
<1>8. HandsKept(s)
  BY <1>4, <1>5 DEF HandsKept, Hands
<1>9. Hands(s) >= 2
  BY <1>1, <1>3, SlotFacts
<1>10. QED
  BY <1>3, <1>5, <1>7, <1>8, <1>9

LEMMA TakeSendKeeps ==
  ASSUME CoreInv, NEW w \in Workers, NEW s \in Slots, TakeSend(w, s)
  PROVE  CoreInv'
<1> DEFINE r == [sess[s] EXCEPT !.send = "none"]
<1> DEFINE two == IF isSendIOPending THEN [r EXCEPT !.refs = @ + 1] ELSE r
<1>1. /\ sess[s].send # "none" /\ UNCHANGED <<others, port>> /\ worker[w].pc = "waiting"
      /\ \/ sess[s].send = "done" /\ Leave(s, Drop(two, 2), refCnt) /\ UNCHANGED worker
         \/ /\ sess[s].send = "done" /\ sess' = [sess EXCEPT ![s] = two]
            /\ worker' = [worker EXCEPT ![w] = [Waiting EXCEPT !.pc = "resume", !.slot = s]]
            /\ UNCHANGED <<quit, free, refCnt, leftVars, leaveQ>>
         \/ sess[s].send = "reset" /\ Leave(s, DisconnectedSession(r), refCnt) /\ UNCHANGED worker
         \/ sess[s].send = "aborted" /\ Aborted(s, r) /\ UNCHANGED worker
  BY DEF TakeSend, others, rest, params, mainVars, pipeQs
<1>2. /\ SessionInv /\ PlaceInv /\ StopInv
      /\ Holds(sess[s], Hands(s)) /\ Hands(s) \in Nat /\ sess[s] \in Sessions
      /\ GoodRecord(sess[s]) /\ SessionSupport(s) /\ WorkerSupport(w)
  BY SlotFacts DEF CoreInv, SessionInv, Holds
<1>3. Goes /\ ~sess[s].dead
  BY <1>1, <1>2, MustGo, UnderWay
<1>4. /\ Holds(r, Hands(s) + SendHolds(sess[s])) /\ r.send = "none" /\ Kept(r, sess[s])
      /\ r.canceled = sess[s].canceled
  BY <1>1, <1>2, SendTaken
<1> HIDE DEF r
<1>5. ASSUME NEW x, NEW cnt, Holds(x, Hands(s)), Kept(x, r), Leave(s, x, cnt), UNCHANGED worker
      PROVE  CoreInv'
  <2>1. Kept(x, sess[s])
    BY <1>4, <1>5, KeptTrans
  <2>2. QED
    BY <1>1, <1>3, <1>5, <2>1, LeaveKept
<1>6. ASSUME sess[s].send = "done"
      PROVE  Holds(two, Hands(s) + 2) /\ Kept(two, r) /\ two.send = "none"
  <2>1. CASE isSendIOPending
    <3>1. Holds(r, Hands(s) + 1)
      BY <1>4, <1>6, <2>1 DEF SendHolds
    <3>2. Holds(two, Hands(s) + 1 + 1) /\ Kept(two, r) /\ two.send = "none"
      <4>1. two = [r EXCEPT !.refs = @ + 1] /\ 1 \in Nat /\ Hands(s) + 1 \in Nat
        BY <1>2, <2>1
      <4> HIDE DEF two
      <4>2. QED
        BY <1>4, <3>1, <4>1, RefsTaken
    <3>3. Hands(s) + 1 + 1 = Hands(s) + 2
      BY <1>2
    <3>4. QED
      BY <3>2, <3>3
  <2>2. CASE ~isSendIOPending
    <3>1. two = r /\ Holds(r, Hands(s) + 2)
      BY <1>4, <1>6, <2>2 DEF SendHolds
    <3>2. QED
      BY <1>4, <3>1 DEF Kept, Same
  <2>3. QED
    BY <2>1, <2>2
<1> HIDE DEF two
<1>7. CASE sess[s].send = "done" /\ Leave(s, Drop(two, 2), refCnt) /\ UNCHANGED worker
  <2>1. Holds(Drop(two, 2), Hands(s)) /\ Kept(Drop(two, 2), two) /\ Kept(two, r)
    BY <1>2, <1>6, <1>7, DropTwoKeeps
  <2>2. QED
    BY <1>5, <1>7, <2>1, KeptTrans
<1>8. CASE sess[s].send = "reset" /\ Leave(s, DisconnectedSession(r), refCnt) /\ UNCHANGED worker
  <2>1. Holds(r, Hands(s) + 1)
    BY <1>4, <1>8 DEF SendHolds
  <2>2. QED
    BY <1>2, <1>5, <1>8, <2>1, DisconnectKeeps
<1>9. CASE sess[s].send = "aborted" /\ Aborted(s, r) /\ UNCHANGED worker
  <2>1. Holds(r, Hands(s) + 1)
    BY <1>4, <1>9 DEF SendHolds
  <2>2. r.canceled
    BY <1>2, <1>4, <1>9 DEF GoodRecord
  <2>3. Leave(s, Drop(r, 1), refCnt)
    BY <1>9, <2>2 DEF Aborted
  <2>4. QED
    BY <1>2, <1>5, <1>9, <2>1, <2>3, DropKeeps
<1>10. CASE /\ sess[s].send = "done" /\ sess' = [sess EXCEPT ![s] = two]
            /\ worker' = [worker EXCEPT ![w] = [Waiting EXCEPT !.pc = "resume", !.slot = s]]
            /\ UNCHANGED <<quit, free, refCnt, leftVars, leaveQ>>
  <2> DEFINE v == [Waiting EXCEPT !.pc = "resume", !.slot = s]
  <2>1. v \in WorkerStates /\ v.pc = "resume" /\ v.slot = s
    <3> DEFINE a == [Waiting EXCEPT !.pc = "resume"]
    <3>1. Waiting \in WorkerStates
      BY WaitingState
    <3>2. a \in WorkerStates /\ a.pc = "resume"
      BY <3>1 DEF WorkerStates
    <3>3. v = [a EXCEPT !.slot = s]
      BY <3>1 DEF WorkerStates
    <3> HIDE DEF a, v
    <3>4. QED
      BY <3>2, <3>3 DEF WorkerStates
  <2>2. worker[w].slot = 0
    BY <1>1, <1>2 DEF WorkerSupport
  <2> HIDE DEF v
  <2>3. worker' = [worker EXCEPT ![w] = v]
    BY <1>10 DEF v
  <2>4. UNCHANGED <<port, slotOf>>
    BY <1>1 DEF others
  <2>5. /\ Hands(s)' = Hands(s) + 2 /\ HandsKept(s) /\ Resuming(s)' = Resuming(s) \cup {w}
    BY <1>2, <2>1, <2>2, <2>3, <2>4, SessionTaken
  <2>6. PostsFine
    <3>1. worker' \in [Workers -> WorkerStates] /\ worker'[w] = v /\ \A u \in Workers : u # w => worker'[u] = worker[u]
      BY <1>2, <2>1, <2>3 DEF SessionInv, SessionTypes
    <3>2. \A u \in Workers : WorkerSupport(u)'
      BY <1>2, <2>1, <3>1, LanAssumption DEF SessionInv, WorkerSupport
    <3>3. SignSupport' /\ port' \in Seq(Posts)
      BY <1>2, <2>4 DEF SessionInv, SignSupport, SessionTypes
    <3>4. QED
      BY <3>1, <3>2, <3>3 DEF PostsFine
  <2>7. Kept(two, sess[s]) /\ Holds(two, Hands(s)') /\ two.send = "none" /\ two.refs \in Nat /\ two.refs > 0
    <3>1. Kept(two, sess[s]) /\ Holds(two, Hands(s) + 2) /\ two.send = "none"
      BY <1>4, <1>6, <1>10, KeptTrans
    <3>2. two \in Sessions /\ Ops(two) \in Nat
      BY <3>1, OpsRange DEF Holds, GoodRecord
    <3>3. two.refs = Ops(two) + (Hands(s) + 2)
      BY <3>1 DEF Holds
    <3>4. QED
      BY <1>2, <2>5, <3>1, <3>2, <3>3
  <2>8. ResumeFine(s, two)
    <3>1. Resuming(s) = {} /\ sess[s].sending
      BY <1>1, <1>2 DEF SessionSupport, GoodRecord
    <3>2. QED
      BY <2>5, <2>7, <3>1 DEF ResumeFine, Kept
  <2>9. Leave(s, two, refCnt)
    BY <1>10, <2>7, Stays DEF leftVars
  <2>10. Quiet(two)
    <3>1. Silent(sess[s]) => Silent(two)
      BY <2>7 DEF Kept, Silent
    <3>2. use = "pipe" => Silent(sess[s]) /\ port = <<>> /\ \A u \in Workers : worker[u].pc \notin {"set", "spin"}
      BY <1>2 DEF StopInv, StartSupport, Silent
    <3>3. \A u \in Workers : worker'[u].pc = worker[u].pc \/ worker'[u].pc = "resume"
      BY <1>2, <2>1, <2>3 DEF SessionInv, SessionTypes
    <3>4. QED
      BY <2>4, <3>1, <3>2, <3>3 DEF Quiet, Silent
  <2>11. Handled(s, two, refCnt)
    BY <1>1, <1>3, <2>5, <2>6, <2>7, <2>8, <2>9 DEF Handled, Kept, Same, others
  <2>12. QED
    BY <1>1, <1>3, <2>7, <2>10, <2>11, HandlerKeeps DEF HandlerStep, Kept, others
<1>11. QED
  BY <1>1, <1>7, <1>8, <1>9, <1>10

\* A worker is as it should be.
LEMMA WorkerFine ==
  ASSUME SessionInv, NEW w \in Workers, NEW v \in WorkerStates, worker' = [worker EXCEPT ![w] = v],
         v.slot = 0 <=> v.pc \notin {"spin", "resume"},
         v.pc \in {"set", "spin"} => v.packet \in Packets /\ v.key # "none",
         port' \in Seq(Posts), SignSupport'
  PROVE  PostsFine
<1>1. /\ worker' \in [Workers -> WorkerStates] /\ worker'[w] = v
      /\ \A u \in Workers : u # w => worker'[u] = worker[u]
  BY DEF SessionInv, SessionTypes
<1>2. \A u \in Workers : WorkerSupport(u)'
  BY <1>1 DEF SessionInv, WorkerSupport
<1>3. QED
  BY <1>1, <1>2 DEF PostsFine

LEMMA PortSame ==
  ASSUME SessionInv, UNCHANGED <<port, slotOf>>
  PROVE  port' \in Seq(Posts) /\ SignSupport' /\ \A t : Signs(t)' = Signs(t)
BY DEF SessionInv, SessionTypes, SignSupport, Signs

LEMMA QuietWorker ==
  ASSUME CoreInv, NEW s \in Slots, NEW x, NEW w \in Workers, NEW v \in WorkerStates,
         worker' = [worker EXCEPT ![w] = v], v.pc \notin {"set", "spin"}, UNCHANGED port,
         Silent(sess[s]) => Silent(x)
  PROVE  Quiet(x)
<1>1. use = "pipe" => Silent(sess[s]) /\ port = <<>> /\ \A u \in Workers : worker[u].pc \notin {"set", "spin"}
  BY DEF CoreInv, StopInv, StartSupport, Silent
<1>2. \A u \in Workers : worker'[u] = worker[u] \/ worker'[u] = v
  BY DEF CoreInv, SessionInv, SessionTypes
<1>3. QED
  BY <1>1, <1>2 DEF Quiet, Silent

LEMMA NoPipes ==
  ASSUME CoreInv, port # <<>> \/ \E w \in Workers : worker[w].pc \in {"set", "spin"}
  PROVE  use # "pipe"
BY DEF CoreInv, StopInv, StartSupport

LEMMA WorkerFacts ==
  ASSUME CoreInv, NEW w \in Workers
  PROVE  /\ worker[w] \in WorkerStates /\ WorkerSupport(w)
         /\ worker[w].pc \in {"spin", "resume"} => worker[w].slot \in Slots /\ w \in InHand(worker[w].slot)
         /\ worker[w].pc \notin {"spin", "resume"} => worker[w].slot = 0
<1>1. worker[w] \in WorkerStates /\ WorkerSupport(w)
  BY DEF CoreInv, SessionInv, SessionTypes
<1>2. QED
  BY <1>1 DEF WorkerStates, WorkerSupport, InHand

\* r is about to be sent: SendPost lets go of isSending_ and takes it again
LEMMA SendingLost ==
  ASSUME NEW r, NEW n, Holds(r, n), r.send = "none"
  PROVE  LET x == [r EXCEPT !.sending = FALSE] IN
         /\ Holds(x, n) /\ Same(x, r) /\ x.send = "none" /\ ~x.sending /\ x.sendQ = r.sendQ /\ x.sentQ = r.sentQ
<1> DEFINE x == [r EXCEPT !.sending = FALSE]
<1>1. r \in Sessions
  BY DEF Holds, GoodRecord
<1>2. /\ x \in Sessions /\ x.refs = r.refs /\ Same(x, r) /\ x.jobQ = r.jobQ
      /\ x.canceled = r.canceled /\ x.send = r.send /\ x.recv = r.recv
      /\ ~x.sending /\ x.sendQ = r.sendQ /\ x.sentQ = r.sentQ
  BY <1>1 DEF Sessions, Same
<1> HIDE DEF x
<1>3. Ops(x) = Ops(r)
  BY <1>2 DEF Ops, SendHolds, Same
<1>4. GoodRecord(x)
  BY <1>2 DEF Holds, GoodRecord, Same
<1>5. Holds(x, n)
  BY <1>2, <1>3, <1>4 DEF Holds
<1>6. QED
  BY <1>2, <1>5 DEF x

LEMMA OnSendCompleteKeeps ==
  ASSUME SendsFitMode, CoreInv, NEW w \in Workers, OnSendComplete(w)
  PROVE  CoreInv'
<1>1. PICK s \in Slots : s = worker[w].slot
  BY WorkerFacts DEF OnSendComplete
<1> DEFINE r == [sess[s] EXCEPT !.sending = FALSE]
<1>2. /\ worker[w].pc = "resume" /\ UNCHANGED <<others, port>>
      /\ \E x \in SendPosted(r) : LeaveAfterSend(s, r, x)
      /\ worker' = [worker EXCEPT ![w] = Waiting]
  BY <1>1 DEF OnSendComplete, others, rest, params, mainVars, pipeQs
<1>3. /\ SessionInv /\ Holds(sess[s], Hands(s)) /\ Hands(s) \in Nat /\ SessionSupport(s)
      /\ w \in InHand(s) /\ Goes
  BY <1>1, <1>2, SlotFacts, WorkerFacts, MustGo DEF CoreInv
<1>4. w \in Resuming(s)
  BY <1>2, <1>3 DEF Resuming
<1>5. /\ sess[s].send = "none" /\ \A u \in Resuming(s) : u = w
  BY <1>3, <1>4 DEF SessionSupport
<1>6. /\ Hands(s)' = Hands(s) - 2 /\ Hands(s) >= 2 /\ HandsKept(s) /\ Resuming(s)' = Resuming(s) \ {w}
  <2>1. Waiting \in WorkerStates /\ Waiting.slot = 0 /\ UNCHANGED <<port, slotOf>> /\ worker[w].slot = s
    BY <1>1, <1>2, WaitingState DEF others
  <2>2. QED
    BY <1>2, <1>3, <2>1, SessionGiven
<1>7. Resuming(s)' = {}
  BY <1>5, <1>6
<1>8. PostsFine
  <2>1. /\ Waiting \in WorkerStates /\ Waiting.slot = 0 /\ Waiting.pc = "waiting"
        /\ UNCHANGED <<port, slotOf>>
    BY <1>2, WaitingState DEF others
  <2>2. port' \in Seq(Posts) /\ SignSupport'
    BY <1>3, <2>1, PortSame
  <2>3. QED
    BY <1>2, <1>3, <2>1, <2>2, WorkerFine
<1>9. PICK x, cnt : x \in SendPosted(r) /\ Leave(s, x, cnt)
  BY <1>2 DEF LeaveAfterSend
<1>10. /\ Holds(r, Hands(s)) /\ Same(r, sess[s]) /\ r.send = "none" /\ ~r.sending /\ r.sendQ = sess[s].sendQ
  BY <1>3, <1>5, SendingLost
<1> HIDE DEF r
<1>11. PICK n \in Nat : n = Hands(s)' /\ Hands(s) = n + 2
  BY <1>3, <1>6
<1>12. SendOutcome(x, r, n)
  BY <1>9, <1>10, <1>11, SendPostedHolds
<1>13. Same(x, sess[s]) /\ Holds(x, Hands(s)') /\ (Silent(sess[s]) => Silent(x))
  <2>1. Same(x, sess[s])
    BY <1>10, <1>12 DEF SendOutcome, Same
  <2>2. Silent(sess[s]) => Silent(x)
    BY <1>10, <1>12 DEF SendOutcome, Silent
  <2>3. QED
    BY <1>11, <1>12, <2>1, <2>2 DEF SendOutcome
<1>14. Quiet(x)
  <2>1. Waiting \in WorkerStates /\ Waiting.pc \notin {"set", "spin"} /\ UNCHANGED port
    BY <1>2, WaitingState
  <2>2. QED
    BY <1>2, <1>13, <2>1, QuietWorker
<1>15. ~sess[s].dead
  BY <1>3, <1>6, SlotFacts
<1>16. Handled(s, x, cnt)
  BY <1>2, <1>6, <1>7, <1>8, <1>9, <1>13, <1>15 DEF Handled, ResumeFine, Same, others
<1>17. QED
  BY <1>2, <1>3, <1>13, <1>14, <1>16, HandlerKeeps DEF HandlerStep, others

LEMMA TakeSignKeeps ==
  ASSUME SendsFitMode, CoreInv, NEW w \in Workers, TakeSign(w)
  PROVE  CoreInv'
<1>1. /\ port # <<>> /\ Head(port).key = "sign" /\ port' = Tail(port) /\ UNCHANGED <<others, worker>>
  BY DEF TakeSign, others, rest, params, mainVars, pipeQs
<1>2. SessionInv /\ SessionTypes /\ SignSupport /\ Goes /\ use # "pipe"
  BY <1>1, MustGo, NoPipes DEF CoreInv, SessionInv
<1>3. /\ port' \in Seq(Posts) /\ DOMAIN port' = 1..(Len(port) - 1) /\ DOMAIN port = 1..Len(port)
      /\ \A k \in DOMAIN port' : port'[k] = port[k + 1] /\ k + 1 \in DOMAIN port
      /\ Head(port) = port[1] /\ 1 \in DOMAIN port /\ Head(port) \in Posts
  BY <1>1, <1>2, PortTail
<1>4. PICK s \in Slots : s = slotOf[Head(port).ids[1]]
  <2>1. Len(port[1].ids) = 1 /\ slotOf[port[1].ids[1]] # 0
    BY <1>1, <1>2, <1>3 DEF SignSupport
  <2>2. port[1].ids[1] \in IDs
    BY <1>3, <2>1 DEF Posts
  <2>3. QED
    BY <1>2, <1>3, <2>1, <2>2 DEF SessionTypes
<1>5. 1 \in Signs(s) /\ \A t \in Slots : t # s => 1 \notin Signs(t)
  BY <1>1, <1>3, <1>4 DEF Signs
<1>6. \A t : Cardinality(Signs(t)') = Cardinality(Signs(t)) - (IF 1 \in Signs(t) THEN 1 ELSE 0)
  BY <1>1, <1>2, SignTaken DEF others
<1>7. \A t : InHand(t)' = InHand(t) /\ Resuming(t)' = Resuming(t)
  BY <1>1 DEF InHand, Resuming
<1>8. Hands(s)' = Hands(s) - 2 /\ Hands(s) >= 2 /\ Hands(s) \in Nat /\ HandsKept(s)
  <2>1. Cardinality(Signs(s)) \in Nat /\ Cardinality(InHand(s)) \in Nat /\ Hands(s) \in Nat
    BY <1>2, HandsFacts
  <2>2. Hands(s)' = Hands(s) - 2
    BY <1>5, <1>6, <1>7, <2>1 DEF Hands
  <2>3. \A t \in Slots : t # s => Hands(t)' = Hands(t)
    <3>1. ASSUME NEW t \in Slots, t # s
          PROVE  Hands(t)' = Hands(t)
      <4>1. Cardinality(Signs(t)) \in Nat /\ 1 \notin Signs(t)
        BY <1>2, <1>5, <3>1, HandsFacts
      <4>2. Cardinality(Signs(t)') = Cardinality(Signs(t))
        BY <1>6, <4>1
      <4>3. QED
        BY <1>7, <4>2 DEF Hands
    <3>2. QED
      BY <3>1
  <2>4. Hands(s) >= 2
    BY <1>2, <1>5, SlotFacts
  <2>5. QED
    BY <1>7, <2>1, <2>2, <2>3, <2>4 DEF HandsKept
<1>9. PostsFine
  <2>1. SignSupport'
    BY <1>1, <1>2, <1>3, SMTT(30), SMTT(30) DEF SignSupport, others
  <2>2. QED
    BY <1>1, <1>2, <1>3, <2>1 DEF PostsFine, SessionInv, SessionTypes, WorkerSupport
<1>10. PICK x, cnt : x \in SendPosted(sess[s]) /\ Leave(s, x, cnt)
  BY <1>4 DEF TakeSign, LeaveAfterSend
<1>11. /\ Holds(sess[s], Hands(s)) /\ SessionSupport(s) /\ ~sess[s].dead
       /\ sess[s].sending \/ sess[s].send = "none"
  <2>1. /\ Holds(sess[s], Hands(s)) /\ SessionSupport(s) /\ ~sess[s].dead
    BY <1>2, <1>8, SlotFacts
  <2>2. QED
    BY <2>1 DEF Holds, GoodRecord
<1>12. PICK n \in Nat : n = Hands(s)' /\ Hands(s) = n + 2
  BY <1>8
<1>13. SendOutcome(x, sess[s], n)
  BY <1>10, <1>11, <1>12, SendPostedHolds
<1>14. /\ Same(x, sess[s]) /\ Holds(x, Hands(s)')
       /\ sess[s].sending => x.sending /\ (sess[s].send = "none" => x.send = "none")
  BY <1>12, <1>13 DEF SendOutcome
<1>15. ResumeFine(s, x)
  BY <1>2, <1>7, <1>14, ResumeKept
<1>16. Handled(s, x, cnt)
  BY <1>1, <1>8, <1>9, <1>10, <1>11, <1>14, <1>15 DEF Handled, Same, others
<1>17. QED
  BY <1>1, <1>2, <1>14, <1>16, HandlerKeeps DEF HandlerStep, Quiet, others

-----------------------------------------------------------------------------
(* Sends and disconnects.                                                  *)

LEMMA RefusedKeeps ==
  ASSUME NEW r, NEW n, Holds(r, n + 2), n \in Nat
  PROVE  Holds(Refused(r), n) /\ Kept(Refused(r), r)
<1> DEFINE d == Disconnected(r)
<1>1. Holds(d, n + 2) /\ Kept(d, r)
  BY DisconnectedHolds DEF Kept
<1>2. Refused(r) = Drop(d, 2)
  BY DEF Refused
<1> HIDE DEF d
<1>3. Holds(Drop(d, 2), n) /\ Kept(Drop(d, 2), d)
  BY <1>1, DropTwoKeeps
<1>4. QED
  BY <1>1, <1>2, <1>3, KeptTrans

LEMMA Enqueued ==
  ASSUME NEW r, NEW n, NEW p \in Packets, Holds(r, n), Len(r.sendQ) < MAX_SIZE
  PROVE  LET x == [r EXCEPT !.sendQ = Append(@, p)] IN
         /\ Holds(x, n) /\ Same(x, r) /\ x.send = r.send /\ x.sending = r.sending
         /\ x.sentQ = r.sentQ /\ x.sendQ = Append(r.sendQ, p) /\ x.canceled = r.canceled
<1> DEFINE q == Append(r.sendQ, p)
<1> DEFINE x == [r EXCEPT !.sendQ = q]
<1>1. r \in Sessions /\ r.sendQ \in Seq(Packets)
  BY DEF Holds, GoodRecord, Sessions
<1>2. q \in Seq(Packets) /\ Len(q) <= MAX_SIZE
  BY <1>1, LanAssumption
<1> HIDE DEF q
<1>3. /\ x \in Sessions /\ x.refs = r.refs /\ Same(x, r) /\ x.jobQ = r.jobQ
      /\ x.canceled = r.canceled /\ x.send = r.send /\ x.recv = r.recv
      /\ x.sending = r.sending /\ x.sendQ = q /\ x.sentQ = r.sentQ
  BY <1>1, <1>2 DEF Sessions, Same
<1> HIDE DEF x
<1>4. Ops(x) = Ops(r)
  BY <1>3 DEF Ops, SendHolds, Same
<1>5. GoodRecord(x)
  BY <1>2, <1>3 DEF Holds, GoodRecord, Same
<1>6. Holds(x, n)
  BY <1>3, <1>4, <1>5 DEF Holds
<1>7. QED
  BY <1>3, <1>6 DEF x, q

\* A session that is found, with two references, and with the packet in its queue.
LEMMA FoundFacts ==
  ASSUME CoreInv, NEW i \in IDs, Found(i), NEW s, s = slotOf[i]
  PROVE  /\ s \in Slots /\ ~sess[s].dead /\ sess[s].id = i /\ Hands(s) \in Nat
         /\ Holds(sess[s], Hands(s)) /\ SessionSupport(s)
         /\ sess[s].send # "none" => sess[s].sending
<1>1. s \in Slots /\ ~sess[s].dead /\ sess[s].id = i
  BY DEF Found, CoreInv, SessionInv, SessionTypes
<1>2. Hands(s) \in Nat /\ Holds(sess[s], Hands(s)) /\ SessionSupport(s)
  BY <1>1, SlotFacts DEF CoreInv
<1>3. QED
  BY <1>1, <1>2 DEF Holds, GoodRecord

LEMMA TwoTaken ==
  ASSUME NEW r, NEW n, Holds(r, n), n \in Nat
  PROVE  LET x == [r EXCEPT !.refs = @ + 2] IN
         /\ Holds(x, n + 2) /\ Kept(x, r)
         /\ x.send = r.send /\ x.recv = r.recv /\ x.canceled = r.canceled
<1>1. PICK m \in Nat : m = 2
  OBVIOUS
<1>2. LET x == [r EXCEPT !.refs = @ + m] IN
         /\ Holds(x, n + m) /\ Kept(x, r)
         /\ x.send = r.send /\ x.recv = r.recv /\ x.canceled = r.canceled /\ x.jobQ = r.jobQ
  BY <1>1, RefsTaken
<1>3. QED
  BY <1>1, <1>2

LEMMA SendPacketKeeps ==
  ASSUME SendsFitMode, CoreInv, NEW i \in IDs, NEW p \in Packets, SendPacket(i, p)
  PROVE  CoreInv'
<1>1. PICK s \in Slots : s = slotOf[i]
  BY FoundFacts DEF SendPacket
<1> DEFINE r == [sess[s] EXCEPT !.refs = @ + 2]
<1> DEFINE q == [r EXCEPT !.sendQ = Append(@, p)]
<1>2. /\ Goes /\ Found(i) /\ UNCHANGED <<others, port, worker>> /\ use = "send"
      /\ \/ \E cnt : Leave(s, Refused(r), cnt)
         \/ Len(r.sendQ) < MAX_SIZE /\ \E x \in SendPosted(q) : \E cnt : Leave(s, x, cnt)
  <2>1. r.sendQ \in Seq(Packets)
    <3>1. sess[s] \in Sessions
      BY SlotFacts DEF CoreInv
    <3>2. QED
      BY <3>1 DEF Sessions
  <2>2. ~(Len(r.sendQ) >= MAX_SIZE) => Len(r.sendQ) < MAX_SIZE
    BY <2>1, LanAssumption
  <2> HIDE DEF r
  <2>3. QED
    BY <1>1, <2>2 DEF SendPacket, Calls, Goes, others, params, mainVars, pipeQs, r
<1>3. /\ ~sess[s].dead /\ Hands(s) \in Nat /\ Holds(sess[s], Hands(s))
      /\ sess[s].send # "none" => sess[s].sending
  BY <1>1, <1>2, FoundFacts
<1>4. Holds(r, Hands(s) + 2) /\ Kept(r, sess[s]) /\ r.send = sess[s].send
  BY <1>3, TwoTaken
<1> HIDE DEF r
<1>5. CASE \E cnt : Leave(s, Refused(r), cnt)
  <2>1. Holds(Refused(r), Hands(s)) /\ Kept(Refused(r), r)
    BY <1>3, <1>4, RefusedKeeps
  <2>2. QED
    BY <1>2, <1>3, <1>4, <1>5, <2>1, LeaveKept, KeptTrans
<1>6. CASE Len(r.sendQ) < MAX_SIZE /\ \E x \in SendPosted(q) : \E cnt : Leave(s, x, cnt)
  <2>1. PICK x, cnt : x \in SendPosted(q) /\ Leave(s, x, cnt)
    BY <1>6
  <2>2. Holds(q, Hands(s) + 2) /\ Same(q, r) /\ q.send = r.send /\ q.sending = r.sending
    BY <1>4, <1>6, Enqueued
  <2> HIDE DEF q
  <2>3. SendOutcome(x, q, Hands(s))
    <3>1. q.sending \/ q.send = "none"
      BY <1>3, <1>4, <2>2 DEF Kept
    <3>2. QED
      BY <1>3, <2>1, <2>2, <3>1, SendPostedHolds
  <2>4. Same(x, sess[s]) /\ Holds(x, Hands(s))
    BY <1>4, <2>2, <2>3 DEF SendOutcome, Kept, Same
  <2>5. sess[s].sending => x.sending /\ (sess[s].send = "none" => x.send = "none")
    BY <1>4, <2>2, <2>3 DEF SendOutcome, Kept
  <2>6. Quiet(x) /\ ResumeFine(s, x) /\ PostsFine /\ HandsKept(s) /\ Hands(s)' = Hands(s)
    <3>1. SessionInv /\ UNCHANGED <<port, worker, slotOf>>
      BY <1>2 DEF CoreInv, others
    <3>2. PostsFine /\ \A t : Hands(t)' = Hands(t) /\ Resuming(t)' = Resuming(t)
      BY <3>1, HandsSame
    <3>3. ResumeFine(s, x)
      BY <2>5, <3>1, <3>2, ResumeKept
    <3>4. QED
      BY <1>2, <3>2, <3>3 DEF Quiet, HandsKept
  <2>7. Handled(s, x, cnt)
    BY <1>2, <1>3, <2>1, <2>4, <2>6 DEF Handled, Same, others
  <2>8. QED
    BY <1>2, <2>4, <2>6, <2>7, HandlerKeeps DEF HandlerStep, others
<1>7. QED
  BY <1>2, <1>5, <1>6

LEMMA DisconnectKeepsCore ==
  ASSUME CoreInv, NEW i \in IDs, Disconnect(i)
  PROVE  CoreInv'
<1>1. PICK s \in Slots : s = slotOf[i]
  BY FoundFacts DEF Disconnect
<1> DEFINE r == [sess[s] EXCEPT !.refs = @ + 1]
<1>2. /\ Goes /\ Found(i) /\ UNCHANGED <<others, port, worker>>
      /\ \/ Leave(s, Drop(r, 1), refCnt)
         \/ Leave(s, DisconnectedSession(r), refCnt)
  BY <1>1 DEF Disconnect, Calls, Goes, others, rest, params, mainVars, pipeQs
<1>3. /\ ~sess[s].dead /\ Hands(s) \in Nat /\ Holds(sess[s], Hands(s))
  BY <1>1, <1>2, FoundFacts
<1>4. Holds(r, Hands(s) + 1) /\ Kept(r, sess[s])
  BY <1>3, RefsTaken
<1> HIDE DEF r
<1>5. PICK x \in {Drop(r, 1), DisconnectedSession(r)} : Leave(s, x, refCnt)
  BY <1>2
<1>6. Holds(x, Hands(s)) /\ Kept(x, r)
  BY <1>3, <1>4, <1>5, DropKeeps, DisconnectKeeps
<1>7. QED
  BY <1>2, <1>3, <1>4, <1>5, <1>6, LeaveKept, KeptTrans

LEMMA AsyncSendPacketKeeps ==
  ASSUME CoreInv, NEW i \in IDs, NEW p \in Packets, AsyncSendPacket(i, p)
  PROVE  CoreInv'
<1>1. PICK s \in Slots : s = slotOf[i]
  BY FoundFacts DEF AsyncSendPacket
<1> DEFINE r == [sess[s] EXCEPT !.refs = @ + 2]
<1> DEFINE q == [r EXCEPT !.sendQ = Append(@, p)]
<1> DEFINE m == [key |-> "sign", ids |-> <<i>>, packet |-> p]
<1>2. /\ Goes /\ Found(i) /\ UNCHANGED <<others, worker>> /\ use = "send"
      /\ \/ (\E cnt : Leave(s, Refused(r), cnt)) /\ UNCHANGED port
         \/ /\ Len(r.sendQ) < MAX_SIZE /\ q.sending
            /\ (\E cnt : Leave(s, Drop(q, 2), cnt)) /\ UNCHANGED port
         \/ /\ Len(r.sendQ) < MAX_SIZE /\ ~q.sending
            /\ (\E cnt : Leave(s, q, cnt)) /\ port' = Append(port, m)
  <2>1. r.sendQ \in Seq(Packets)
    <3>1. sess[s] \in Sessions
      BY SlotFacts DEF CoreInv
    <3>2. QED
      BY <3>1 DEF Sessions
  <2>2. ~(Len(r.sendQ) >= MAX_SIZE) => Len(r.sendQ) < MAX_SIZE
    BY <2>1, LanAssumption
  <2>3. /\ Goes /\ Found(i) /\ UNCHANGED <<others, worker>> /\ use = "send"
        /\ IF r.canceled \/ Len(r.sendQ) >= MAX_SIZE
           THEN Leave(s, Refused(r), refCnt) /\ UNCHANGED port
           ELSE /\ Leave(s, IF q.sending THEN Drop(q, 2) ELSE q, [refCnt EXCEPT ![p] = @ + 1])
                /\ port' = IF q.sending THEN port ELSE Append(port, m)
    BY <1>1 DEF AsyncSendPacket, Calls, Goes, others, params, mainVars, pipeQs
  <2> HIDE DEF r, q, m
  <2>4. QED
    BY <2>2, <2>3
<1>3. /\ ~sess[s].dead /\ Hands(s) \in Nat /\ Holds(sess[s], Hands(s))
      /\ (sess[s].send # "none" => sess[s].sending) /\ SessionInv
  BY <1>1, <1>2, FoundFacts DEF CoreInv
<1>4. Holds(r, Hands(s) + 2) /\ Kept(r, sess[s]) /\ r.send = sess[s].send
  BY <1>3, TwoTaken
<1> HIDE DEF r
<1>5. CASE (\E cnt : Leave(s, Refused(r), cnt)) /\ UNCHANGED port
  <2>1. Holds(Refused(r), Hands(s)) /\ Kept(Refused(r), r)
    BY <1>3, <1>4, RefusedKeeps
  <2>2. QED
    BY <1>2, <1>3, <1>4, <1>5, <2>1, LeaveKept, KeptTrans
<1>6. Len(r.sendQ) < MAX_SIZE =>
        Holds(q, Hands(s) + 2) /\ Same(q, sess[s]) /\ q.send = sess[s].send /\ q.sending = sess[s].sending
  BY <1>4, Enqueued DEF Kept, Same
<1> HIDE DEF q
<1>7. CASE /\ Len(r.sendQ) < MAX_SIZE /\ q.sending
           /\ (\E cnt : Leave(s, Drop(q, 2), cnt)) /\ UNCHANGED port
  <2> DEFINE x == Drop(q, 2)
  <2>1. PICK cnt : Leave(s, x, cnt)
    BY <1>7
  <2>2. Holds(x, Hands(s)) /\ Kept(x, q)
    BY <1>3, <1>6, <1>7, DropTwoKeeps
  <2> HIDE DEF x
  <2>3. /\ Same(x, sess[s]) /\ x.sending = sess[s].sending /\ (sess[s].send = "none" => x.send = "none")
    BY <1>6, <1>7, <2>2 DEF Kept, Same
  <2>4. Quiet(x) /\ ResumeFine(s, x) /\ PostsFine /\ HandsKept(s) /\ Hands(s)' = Hands(s)
    <3>1. UNCHANGED <<port, worker, slotOf>>
      BY <1>2, <1>7 DEF others
    <3>2. PostsFine /\ \A t : Hands(t)' = Hands(t) /\ Resuming(t)' = Resuming(t)
      BY <1>3, <3>1, HandsSame
    <3>3. ResumeFine(s, x)
      BY <1>3, <2>3, <3>1, <3>2, ResumeKept
    <3>4. QED
      BY <1>2, <3>2, <3>3 DEF Quiet, HandsKept
  <2>5. Handled(s, x, cnt)
    BY <1>2, <1>3, <2>1, <2>2, <2>3, <2>4 DEF Handled, Same, others
  <2>6. QED
    BY <1>2, <2>3, <2>4, <2>5, HandlerKeeps DEF HandlerStep, others
<1>8. CASE /\ Len(r.sendQ) < MAX_SIZE /\ ~q.sending
           /\ (\E cnt : Leave(s, q, cnt)) /\ port' = Append(port, m)
  <2>1. m \in Posts /\ m.key = "sign" /\ Len(m.ids) = 1 /\ m.ids[1] = i
    <3>1. <<i>> \in Seq(IDs) /\ Len(<<i>>) = 1 /\ <<i>>[1] = i
      OBVIOUS
    <3>2. QED
      BY <3>1 DEF Posts
  <2> HIDE DEF m
  <2>2. SessionTypes /\ slotOf' = slotOf /\ slotOf[m.ids[1]] = s
    BY <1>1, <1>2, <1>3, <2>1 DEF SessionInv, others
  <2>3. /\ \A t : Cardinality(Signs(t)') = Cardinality(Signs(t)) + (IF s = t THEN 1 ELSE 0)
        /\ port' \in Seq(Posts) /\ Len(port') = Len(port) + 1 /\ port'[Len(port) + 1] = m
        /\ \A k \in DOMAIN port' : k # Len(port) + 1 => k \in DOMAIN port /\ port'[k] = port[k]
    BY <1>8, <2>1, <2>2, SignPosted
  <2>4. \A t : InHand(t)' = InHand(t) /\ Resuming(t)' = Resuming(t)
    BY <1>2 DEF InHand, Resuming
  <2>5. Hands(s)' = Hands(s) + 2 /\ HandsKept(s)
    <3>1. \A t : Cardinality(Signs(t)) \in Nat /\ Cardinality(InHand(t)) \in Nat
      BY <2>2, HandsFacts
    <3>2. Cardinality(Signs(s)') = Cardinality(Signs(s)) + 1
      BY <2>3
    <3>3. Hands(s)' = Hands(s) + 2
      BY <2>4, <3>1, <3>2 DEF Hands
    <3>4. \A t \in Slots : t # s => Cardinality(Signs(t)') = Cardinality(Signs(t))
      BY <2>3, <3>1
    <3>5. QED
      BY <2>4, <3>3, <3>4 DEF HandsKept, Hands
  <2>6. PostsFine
    <3>1. SignSupport'
      <4>1. ASSUME NEW k \in DOMAIN port', port'[k].key = "sign"
            PROVE  Len(port'[k].ids) = 1 /\ slotOf'[port'[k].ids[1]] # 0
        <5>1. CASE k = Len(port) + 1
          BY <2>1, <2>2, <2>3, <5>1, LanAssumption
        <5>2. CASE k # Len(port) + 1
          BY <1>3, <2>2, <2>3, <4>1, <5>2 DEF SessionInv, SignSupport
        <5>3. QED
          BY <5>1, <5>2
      <4>2. QED
        BY <4>1 DEF SignSupport
    <3>2. QED
      BY <1>2, <1>3, <2>2, <2>3, <3>1 DEF PostsFine, SessionInv, SessionTypes, WorkerSupport
  <2>7. Holds(q, Hands(s)')
    BY <1>6, <1>8, <2>5
  <2>8. ResumeFine(s, q)
    BY <1>3, <1>6, <1>8, <2>4, ResumeKept
  <2>9. PICK cnt : Leave(s, q, cnt)
    BY <1>8
  <2>10. Handled(s, q, cnt)
    BY <1>2, <1>3, <1>6, <1>8, <2>5, <2>6, <2>7, <2>8, <2>9 DEF Handled, Same, others
  <2>11. QED
    BY <1>2, <1>6, <1>8, <2>10, HandlerKeeps DEF HandlerStep, Quiet, others
<1>9. QED
  BY <1>2, <1>5, <1>7, <1>8

\* A worker enqueues the packet of its set for one ID.
LEMMA SetOneIDKeeps ==
  ASSUME SendsFitMode, CoreInv, NEW w \in Workers, SetOneID(w)
  PROVE  CoreInv'
<1> DEFINE t == worker[w]
<1>1. /\ t \in WorkerStates /\ WorkerSupport(w) /\ t.pc = "set" /\ t.ids # <<>> /\ t.slot = 0
      /\ t.packet \in Packets /\ Found(Head(t.ids)) /\ Goes /\ use # "pipe" /\ SessionInv
      /\ t.ids \in Seq(IDs)
  <2>1. t.pc = "set" /\ t.ids # <<>> /\ Found(Head(t.ids))
    BY ZenonT(40) DEF SetOneID
  <2>2. t \in WorkerStates /\ WorkerSupport(w) /\ t.slot = 0 /\ Goes /\ use # "pipe"
    BY <2>1, WorkerFacts, MustGo, NoPipes
  <2>3. QED
    BY <2>1, <2>2 DEF WorkerSupport, WorkerStates, CoreInv
<1>2. Head(t.ids) \in IDs /\ Tail(t.ids) \in Seq(IDs)
  BY <1>1, HeadTailProperties
<1>3. PICK i \in IDs : i = Head(t.ids)
  BY <1>2
<1>4. PICK s \in Slots : s = slotOf[i]
  BY <1>1, <1>3, FoundFacts, SMTT(30)
<1> DEFINE r == [sess[s] EXCEPT !.refs = @ + 2]
<1> DEFINE q == [r EXCEPT !.sendQ = Append(@, worker[w].packet)]
<1> DEFINE v == [t EXCEPT !.ids = Tail(@)]
<1> DEFINE u == [[v EXCEPT !.pc = "spin"] EXCEPT !.slot = s]
<1>5. /\ UNCHANGED <<others, port>>
      /\ \/ (\E cnt : Leave(s, Refused(r), cnt)) /\ worker' = [worker EXCEPT ![w].ids = Tail(@)]
         \/ /\ Len(r.sendQ) < MAX_SIZE /\ \E x \in SendPosted(q) : \E cnt : Leave(s, x, cnt)
            /\ worker' = [worker EXCEPT ![w].ids = Tail(@)]
         \/ /\ Len(r.sendQ) < MAX_SIZE /\ \E cnt : Leave(s, Disconnected(q), cnt)
            /\ worker' = [worker EXCEPT ![w].ids = Tail(@), ![w].pc = "spin", ![w].slot = s]
  <2> HIDE DEF v, u, t
  <2>1. SetOneID(w) /\ s = slotOf[Head(worker[w].ids)]
    BY <1>3, <1>4 DEF t
  <2>2. QED
    BY <2>1, ZenonT(40) DEF SetOneID, LeaveAfterSend, others, rest, params, mainVars, pipeQs
<1>6. /\ ~sess[s].dead /\ Hands(s) \in Nat /\ Holds(sess[s], Hands(s))
      /\ sess[s].send # "none" => sess[s].sending
  BY <1>1, <1>3, <1>4, FoundFacts
<1>7. Holds(r, Hands(s) + 2) /\ Kept(r, sess[s]) /\ r.send = sess[s].send
  BY <1>6, TwoTaken
<1>8. Len(r.sendQ) < MAX_SIZE =>
        Holds(q, Hands(s) + 2) /\ Same(q, sess[s]) /\ q.send = sess[s].send /\ q.sending = sess[s].sending
  <2>1. PICK p \in Packets : p = worker[w].packet
    BY <1>1
  <2> HIDE DEF r
  <2>2. q = [r EXCEPT !.sendQ = Append(@, p)]
    BY <2>1
  <2>3. QED
    BY <1>7, <2>2, Enqueued DEF Kept, Same
<1>9. /\ v \in WorkerStates /\ v.pc = "set" /\ v.slot = 0 /\ v.packet = t.packet /\ v.key = t.key
      /\ worker \in [Workers -> WorkerStates]
  BY <1>1, <1>2 DEF WorkerStates, SessionInv, SessionTypes
<1>10. port' \in Seq(Posts) /\ SignSupport' /\ UNCHANGED <<port, slotOf>> /\ \A x : Signs(x)' = Signs(x)
  BY <1>1, <1>5, PortSame DEF others
<1> HIDE DEF r, q
<1>11. ASSUME worker' = [worker EXCEPT ![w].ids = Tail(@)]
       PROVE  /\ PostsFine /\ HandsKept(s) /\ Hands(s)' = Hands(s) /\ Resuming(s)' = Resuming(s)
  <2>1. worker' = [worker EXCEPT ![w] = v]
    BY <1>11
  <2> HIDE DEF v
  <2>2. PostsFine
    BY <1>1, <1>9, <1>10, <2>1, WorkerFine DEF WorkerSupport
  <2>3. \A x : InHand(x)' = InHand(x) /\ Resuming(x)' = Resuming(x)
    <3>1. SessionTypes /\ worker[w].slot = v.slot /\ worker[w].pc # "resume" /\ v.pc # "resume"
      BY <1>1, <1>9 DEF SessionInv
    <3>2. ASSUME NEW x
          PROVE  InHand(x)' = InHand(x) /\ Resuming(x)' = Resuming(x)
      <4>1. /\ InHand(x)' = (InHand(x) \ {w}) \cup (IF v.slot = x THEN {w} ELSE {})
            /\ Resuming(x)' = (Resuming(x) \ {w}) \cup (IF v.slot = x /\ v.pc = "resume" THEN {w} ELSE {})
            /\ worker[w].slot = v.slot => InHand(x)' = InHand(x)
            /\ worker[w].slot = v.slot /\ worker[w].pc # "resume" /\ v.pc # "resume" => Resuming(x)' = Resuming(x)
        BY <1>9, <2>1, <3>1, WorkerMoves, ZenonT(40), ZenonT(40)
      <4>2. QED
        BY <3>1, <4>1
    <3>3. QED
      BY <3>2
  <2>4. QED
    BY <1>10, <2>2, <2>3 DEF HandsKept, Hands
<1>12. ASSUME NEW x, NEW cnt, worker' = [worker EXCEPT ![w].ids = Tail(@)], Leave(s, x, cnt),
              Holds(x, Hands(s)), Same(x, sess[s]),
              sess[s].sending => x.sending /\ (sess[s].send = "none" => x.send = "none")
       PROVE  CoreInv'
  <2>1. /\ PostsFine /\ HandsKept(s) /\ Hands(s)' = Hands(s) /\ Resuming(s)' = Resuming(s)
    BY <1>11, <1>12
  <2>2. ResumeFine(s, x)
    BY <1>1, <1>12, <2>1, ResumeKept
  <2>3. Handled(s, x, cnt)
    BY <1>5, <1>6, <1>12, <2>1, <2>2 DEF Handled, Same, others
  <2>4. QED
    BY <1>1, <1>5, <1>12, <2>3, HandlerKeeps DEF HandlerStep, Quiet, others
<1>13. CASE (\E cnt : Leave(s, Refused(r), cnt)) /\ worker' = [worker EXCEPT ![w].ids = Tail(@)]
  <2>1. Holds(Refused(r), Hands(s)) /\ Kept(Refused(r), r)
    BY <1>6, <1>7, RefusedKeeps
  <2>2. Kept(Refused(r), sess[s])
    BY <1>7, <2>1, KeptTrans
  <2>3. QED
    BY <1>12, <1>13, <2>1, <2>2 DEF Kept
<1>14. CASE /\ Len(r.sendQ) < MAX_SIZE /\ \E x \in SendPosted(q) : \E cnt : Leave(s, x, cnt)
            /\ worker' = [worker EXCEPT ![w].ids = Tail(@)]
  <2>1. PICK x, cnt : x \in SendPosted(q) /\ Leave(s, x, cnt)
    BY <1>14
  <2>2. SendOutcome(x, q, Hands(s))
    BY <1>6, <1>8, <1>14, <2>1, SendPostedHolds
  <2>3. Same(x, sess[s]) /\ Holds(x, Hands(s))
    BY <1>8, <1>14, <2>2 DEF SendOutcome, Same
  <2>4. sess[s].sending => x.sending /\ (sess[s].send = "none" => x.send = "none")
    BY <1>8, <1>14, <2>2 DEF SendOutcome
  <2>5. QED
    BY <1>12, <1>14, <2>1, <2>3, <2>4
<1>15. CASE /\ Len(r.sendQ) < MAX_SIZE /\ \E cnt : Leave(s, Disconnected(q), cnt)
            /\ worker' = [worker EXCEPT ![w].ids = Tail(@), ![w].pc = "spin", ![w].slot = s]
  <2> DEFINE x == Disconnected(q)
  <2>1. PICK cnt : Leave(s, x, cnt)
    BY <1>15
  <2>2. Holds(x, Hands(s) + 2) /\ Kept(x, q)
    BY <1>8, <1>15, DisconnectedHolds DEF Kept
  <2> HIDE DEF x
  <2>3. worker' = [worker EXCEPT ![w] = u]
    BY <1>9, <1>15 DEF WorkerStates
  <2> DEFINE v2 == [v EXCEPT !.pc = "spin"]
  <2>4. v2 \in WorkerStates /\ v2.pc = "spin" /\ v2.packet = t.packet /\ v2.key = t.key
    BY <1>9 DEF WorkerStates
  <2>5. u \in WorkerStates /\ u.pc = "spin" /\ u.slot = s /\ u.packet = t.packet /\ u.key = t.key
    <3> HIDE DEF v2
    <3>1. [v2 EXCEPT !.slot = s] \in WorkerStates /\ [v2 EXCEPT !.slot = s].pc = "spin"
          /\ [v2 EXCEPT !.slot = s].slot = s /\ [v2 EXCEPT !.slot = s].packet = t.packet
          /\ [v2 EXCEPT !.slot = s].key = t.key
      BY <2>4 DEF WorkerStates
    <3>2. QED
      BY <3>1 DEF v2
  <2> HIDE DEF u, v, v2
  <2>6. PostsFine
    <3>1. s # 0
      BY LanAssumption
    <3>2. QED
      BY <1>1, <1>10, <2>3, <2>5, <3>1, WorkerFine DEF WorkerSupport
  <2>7. Hands(s)' = Hands(s) + 2 /\ HandsKept(s) /\ Resuming(s)' = Resuming(s)
    <3>1. /\ Hands(s)' = Hands(s) + 2 /\ HandsKept(s)
          /\ Resuming(s)' = Resuming(s) \cup (IF u.pc = "resume" THEN {w} ELSE {})
      BY <1>1, <1>10, <2>3, <2>5, SessionTaken
    <3>2. QED
      BY <2>5, <3>1
  <2>8. /\ Same(x, sess[s]) /\ Holds(x, Hands(s)')
        /\ sess[s].sending => x.sending /\ (sess[s].send = "none" => x.send = "none")
    BY <1>8, <1>15, <2>2, <2>7 DEF Kept, Same
  <2>9. ResumeFine(s, x)
    BY <1>1, <2>7, <2>8, ResumeKept
  <2>10. Handled(s, x, cnt)
    BY <1>5, <1>6, <2>1, <2>6, <2>7, <2>8, <2>9 DEF Handled, Same, others
  <2>11. QED
    BY <1>1, <1>5, <2>8, <2>10, HandlerKeeps DEF HandlerStep, Quiet, others
<1>16. QED
  BY <1>5, <1>13, <1>14, <1>15

LEMMA SendAndDisconnectPostKeeps ==
  ASSUME SendsFitMode, CoreInv, NEW w \in Workers, SendAndDisconnectPost(w)
  PROVE  CoreInv'
<1>1. PICK s \in Slots : s = worker[w].slot
  BY WorkerFacts DEF SendAndDisconnectPost
<1> DEFINE t == worker[w]
<1> DEFINE v == [[t EXCEPT !.pc = "set"] EXCEPT !.slot = 0]
<1>2. /\ t.pc = "spin" /\ ~sess[s].sending /\ UNCHANGED <<others, port>>
      /\ \E x \in LastPosted(sess[s]) : \E cnt : Leave(s, x, cnt)
      /\ worker' = [worker EXCEPT ![w].pc = "set", ![w].slot = 0]
  BY <1>1 DEF SendAndDisconnectPost, LeaveAfterSend, others, rest, params, mainVars, pipeQs
<1>3. /\ SessionInv /\ t \in WorkerStates /\ WorkerSupport(w) /\ Goes /\ use # "pipe"
      /\ worker \in [Workers -> WorkerStates]
  BY <1>1, <1>2, WorkerFacts, MustGo, NoPipes DEF CoreInv, SessionInv, SessionTypes
<1>4. worker' = [worker EXCEPT ![w] = v]
  BY <1>2, <1>3 DEF WorkerStates
<1>5. v \in WorkerStates /\ v.pc = "set" /\ v.slot = 0 /\ v.packet = t.packet /\ v.key = t.key
  <2> DEFINE a == [t EXCEPT !.pc = "set"]
  <2>1. a \in WorkerStates /\ a.pc = "set" /\ a.packet = t.packet /\ a.key = t.key
    BY <1>3 DEF WorkerStates
  <2> HIDE DEF a
  <2>2. [a EXCEPT !.slot = 0] \in WorkerStates /\ [a EXCEPT !.slot = 0].pc = "set"
        /\ [a EXCEPT !.slot = 0].slot = 0 /\ [a EXCEPT !.slot = 0].packet = t.packet
        /\ [a EXCEPT !.slot = 0].key = t.key
    BY <2>1 DEF WorkerStates
  <2>3. QED
    BY <2>2 DEF a
<1> HIDE DEF v
<1>6. port' \in Seq(Posts) /\ SignSupport' /\ UNCHANGED <<port, slotOf>>
  BY <1>2, <1>3, PortSame DEF others
<1>7. PostsFine
  BY <1>2, <1>3, <1>4, <1>5, <1>6, WorkerFine DEF WorkerSupport
<1>8. /\ Hands(s)' = Hands(s) - 2 /\ Hands(s) >= 2 /\ HandsKept(s) /\ Resuming(s)' = Resuming(s) \ {w}
  <2>1. worker[w].slot = s
    BY <1>1
  <2>2. QED
    BY <1>3, <1>4, <1>5, <1>6, <2>1, SessionGiven
<1>9. /\ Holds(sess[s], Hands(s)) /\ SessionSupport(s) /\ ~sess[s].dead /\ Hands(s) \in Nat
      /\ sess[s].send = "none"
  <2>1. /\ Holds(sess[s], Hands(s)) /\ SessionSupport(s) /\ ~sess[s].dead /\ Hands(s) \in Nat
    BY <1>3, <1>8, SlotFacts
  <2>2. QED
    BY <1>2, <2>1 DEF Holds, GoodRecord
<1>10. PICK n \in Nat : n = Hands(s)' /\ Hands(s) = n + 2
  BY <1>8, <1>9
<1>11. PICK x, cnt : x \in LastPosted(sess[s]) /\ Leave(s, x, cnt)
  BY <1>2
<1>12. SendOutcome(x, sess[s], n)
  BY <1>2, <1>9, <1>10, <1>11, LastPostedHolds
<1>13. Same(x, sess[s]) /\ Holds(x, Hands(s)')
  BY <1>10, <1>12 DEF SendOutcome
<1>14. ResumeFine(s, x)
  <2>1. Resuming(s)' = {}
    BY <1>2, <1>8, <1>9 DEF SessionSupport
  <2>2. QED
    BY <2>1 DEF ResumeFine
<1>15. Handled(s, x, cnt)
  BY <1>2, <1>7, <1>8, <1>9, <1>11, <1>13, <1>14 DEF Handled, Same, others
<1>16. QED
  BY <1>2, <1>3, <1>13, <1>15, HandlerKeeps DEF HandlerStep, Quiet, others

-----------------------------------------------------------------------------
(* Steps that leave the sessions alone.                                    *)

\* A worker changes and has no session, before and after.
LEMMA NoSessionMoves ==
  ASSUME SessionInv, NEW w \in Workers, NEW v \in WorkerStates, worker' = [worker EXCEPT ![w] = v],
         worker[w].slot = 0, v.slot = 0, v.pc # "resume"
  PROVE  \A x : InHand(x)' = InHand(x) /\ Resuming(x)' = Resuming(x)
<1>1. worker \in [Workers -> WorkerStates] /\ WorkerSupport(w)
  BY DEF SessionInv, SessionTypes
<1>2. worker[w].pc # "resume" /\ worker'[w] = v /\ \A u \in Workers : u # w => worker'[u] = worker[u]
  BY <1>1 DEF WorkerSupport
<1>3. ASSUME NEW x
      PROVE  InHand(x)' = InHand(x) /\ Resuming(x)' = Resuming(x)
  <2>1. InHand(x)' = InHand(x)
    BY <1>2 DEF InHand
  <2>2. QED
    BY <1>2, <2>1 DEF Resuming
<1>4. QED
  BY <1>3

LEMMA SessionsStay ==
  ASSUME SessionInv, PostsFine, UNCHANGED <<sess, slotOf, free, isSendIOPending, isLogicMultithreaded, quit>>,
         \A t \in Slots : Hands(t)' = Hands(t) /\ Resuming(t)' = Resuming(t),
         calls' \in [IDs -> 0..1], leavePosts' \subseteq IDs,
         \A i \in IDs : calls'[i] + (IF i \in leavePosts' THEN 1 ELSE 0)
                         = calls[i] + (IF i \in leavePosts THEN 1 ELSE 0)
  PROVE  SessionInv'
<1>1. SessionTypes /\ LeftOnce /\ LeftSupport /\ quit = "none"
  BY DEF SessionInv, LanNeverQuits
<1>2. SessionTypes'
  BY <1>1 DEF SessionTypes, PostsFine
<1>3. /\ LanRefsExact' /\ \A t \in Slots : SessionSupport(t)'
  <2>1. CASE Slots = {}
    BY <2>1 DEF LanRefsExact
  <2>2. ASSUME NEW s \in Slots
        PROVE  LanRefsExact' /\ \A t \in Slots : SessionSupport(t)'
    <3>1. SessionSupport(s) /\ Holds(sess[s], Hands(s))
      BY SlotFacts
    <3>2. SlotFine(s, sess[s])
      <4>1. Hands(s)' = Hands(s) /\ Resuming(s)' = Resuming(s)
        OBVIOUS
      <4>2. Holds(sess[s], Hands(s)')
        BY <3>1, <4>1
      <4>3. QED
        BY <3>1, <4>1, <4>2 DEF SlotFine, SessionSupport, ResumeFine
    <3>3. HandsKept(s) /\ sess' = [sess EXCEPT ![s] = sess[s]]
      BY <1>1 DEF HandsKept, SessionTypes
    <3>4. QED
      BY <1>1, <3>2, <3>3, OneSlot DEF SessionTypes
  <2>3. QED
    BY <2>1, <2>2
<1>4. LeftOnce'
  <2>1. \A i \in IDs : Found(i)' <=> Found(i)
    BY DEF Found
  <2>2. QED
    BY <1>1, <2>1 DEF LeftOnce, SessionTypes
<1>5. LeftSupport'
  <2>1. ASSUME NEW i \in IDs, slotOf[i] = 0
        PROVE  calls'[i] = 0 /\ i \notin leavePosts'
    <3>1. calls[i] = 0 /\ i \notin leavePosts /\ calls'[i] \in 0..1
      BY <1>1, <2>1 DEF LeftSupport
    <3>2. calls'[i] + (IF i \in leavePosts' THEN 1 ELSE 0) = 0
      BY <3>1
    <3>3. QED
      BY <3>1, <3>2
  <2>2. QED
    BY <2>1 DEF LeftSupport
<1>6. QED
  BY <1>1, <1>2, <1>3, <1>4, <1>5 DEF SessionInv, LanNeverQuits, PostsFine

LEMMA PlacesStay ==
  ASSUME PlaceInv, UNCHANGED <<sess, slotOf, use, userMap, joinQ, moveInQ, moveOutQ, leaveQ>>
  PROVE  PlaceInv'
<1>1. PlaceTypes' /\ QueuesOnce'
  BY DEF PlaceInv, PlaceTypes, QueuesOnce
<1>2. \A s \in Slots : PlaceSupport(s)'
  BY DEF PlaceInv, PlaceSupport
<1>3. \A i \in IDs, p \in Pipes : UserSupport(i, p)'
  BY DEF PlaceInv, UserSupport, Has
<1>4. QED
  BY <1>1, <1>2, <1>3 DEF PlaceInv

LEMMA GoingStay ==
  ASSUME StopInv, Goes, UNCHANGED <<sess, free, use, main, isRunning, phase>>,
         UNCHANGED <<userMap, joinQ, moveInQ, moveOutQ, leaveQ>>,
         use = "pipe" => port' = <<>> /\ \A w \in Workers : worker'[w].pc \notin {"set", "spin"}
  PROVE  StopInv'
<1>1. StopTypes' /\ Goes' /\ Begun' /\ isRunning'
  BY DEF StopInv, StopTypes, Goes, Begun, StartSupport
<1>2. StartSupport'
  BY <1>1 DEF StopInv, StartSupport, Begun
<1>3. StopSupport'
  BY <1>1 DEF StopInv, StartSupport, StopSupport, Goes
<1>4. QED
  BY <1>1, <1>2, <1>3 DEF StopInv

\* A step of the port and the workers.
stays == <<sess, slotOf, free, isSendIOPending, isLogicMultithreaded, quit, use, main, isRunning, phase,
           userMap, joinQ, moveInQ, moveOutQ, leaveQ>>

LEMMA PostsStep ==
  ASSUME CoreInv, Goes, PostsFine, UNCHANGED <<stays, calls, leavePosts>>,
         \A t \in Slots : Hands(t)' = Hands(t) /\ Resuming(t)' = Resuming(t),
         use = "pipe" => port' = <<>> /\ \A w \in Workers : worker'[w].pc \notin {"set", "spin"}
  PROVE  CoreInv'
<1>1. SessionInv'
  BY SessionsStay DEF CoreInv, SessionInv, SessionTypes, stays
<1>2. PlaceInv'
  BY PlacesStay DEF CoreInv, stays
<1>3. StopInv'
  BY GoingStay DEF CoreInv, stays
<1>4. QED
  BY <1>1, <1>2, <1>3 DEF CoreInv

LEMMA TakeSetKeeps ==
  ASSUME CoreInv, NEW w \in Workers, TakeSet(w)
  PROVE  CoreInv'
<1>1. /\ worker[w].pc = "waiting" /\ port # <<>> /\ Head(port).key # "sign" /\ port' = Tail(port)
      /\ UNCHANGED <<stays, calls, leavePosts>>
  BY DEF TakeSet, stays, params, mainVars, idVars, leftVars, pipeVars, pipeQs
<1> DEFINE v == [Waiting EXCEPT !.pc = "set", !.key = Head(port).key,
                                        !.ids = Head(port).ids, !.packet = Head(port).packet]
<1>2. worker' = [worker EXCEPT ![w] = v]
  BY DEF TakeSet
<1>3. SessionInv /\ SessionTypes /\ SignSupport /\ Goes /\ use # "pipe" /\ worker[w].slot = 0
  BY <1>1, MustGo, NoPipes, WorkerFacts DEF CoreInv, SessionInv
<1>4. /\ port' \in Seq(Posts) /\ DOMAIN port' = 1..(Len(port) - 1) /\ DOMAIN port = 1..Len(port)
      /\ \A k \in DOMAIN port' : port'[k] = port[k + 1] /\ k + 1 \in DOMAIN port
      /\ Head(port) = port[1] /\ 1 \in DOMAIN port /\ Head(port) \in Posts
  BY <1>1, <1>3, PortTail
<1>5. v \in WorkerStates /\ v.pc = "set" /\ v.slot = 0 /\ v.packet \in Packets /\ v.key # "none"
  <2>1. PICK h \in Posts : h = Head(port) /\ h.key # "sign"
    BY <1>1, <1>4
  <2>2. h.key \in {"send", "last"} /\ h.ids \in Seq(IDs) /\ h.packet \in Packets
    BY <2>1 DEF Posts
  <2> DEFINE a == [Waiting EXCEPT !.pc = "set"]
  <2> DEFINE b == [a EXCEPT !.key = h.key]
  <2> DEFINE c == [b EXCEPT !.ids = h.ids]
  <2> DEFINE d == [c EXCEPT !.packet = h.packet]
  <2>3. v = d
    BY <2>1 DEF Waiting
  <2>4. a \in WorkerStates /\ a.pc = "set" /\ a.slot = 0
    BY WaitingState DEF WorkerStates
  <2> HIDE DEF a, v
  <2>5. b \in WorkerStates /\ b.pc = "set" /\ b.slot = 0 /\ b.key = h.key
    BY <2>2, <2>4 DEF WorkerStates
  <2> HIDE DEF b
  <2>6. c \in WorkerStates /\ c.pc = "set" /\ c.slot = 0 /\ c.key = h.key
    BY <2>2, <2>5 DEF WorkerStates
  <2> HIDE DEF c
  <2>7. d \in WorkerStates /\ d.pc = "set" /\ d.slot = 0 /\ d.key = h.key /\ d.packet = h.packet
    BY <2>2, <2>6 DEF WorkerStates
  <2> HIDE DEF d
  <2>8. QED
    BY <2>2, <2>3, <2>7
<1> HIDE DEF v
<1>6. \A x : InHand(x)' = InHand(x) /\ Resuming(x)' = Resuming(x)
  BY <1>2, <1>3, <1>5, NoSessionMoves
<1>7. \A t \in Slots : Hands(t)' = Hands(t)
  <2>1. ASSUME NEW t \in Slots
        PROVE  Hands(t)' = Hands(t)
    <3>1. 1 \notin Signs(t)
      BY <1>1, <1>4 DEF Signs
    <3>2. Cardinality(Signs(t)') = Cardinality(Signs(t)) - (IF 1 \in Signs(t) THEN 1 ELSE 0)
      BY <1>1, <1>3, SignTaken DEF stays
    <3>3. Cardinality(Signs(t)') = Cardinality(Signs(t))
      BY <1>3, <3>1, <3>2, HandsFacts
    <3>4. QED
      BY <1>6, <3>3 DEF Hands
  <2>2. QED
    BY <2>1
<1>8. SignSupport'
  BY <1>1, <1>3, <1>4 DEF SignSupport, stays
<1>9. PostsFine
  BY <1>2, <1>3, <1>4, <1>5, <1>8, WorkerFine
<1>10. QED
  BY <1>1, <1>3, <1>6, <1>7, <1>9, PostsStep

\* a worker with a set goes on
LEMMA SetGoesOn ==
  ASSUME CoreInv, NEW w \in Workers, worker[w].pc = "set", NEW v \in WorkerStates, v.pc \in {"set", "waiting"},
         v.slot = 0, v.pc = "set" => v.packet = worker[w].packet /\ v.key = worker[w].key,
         worker' = [worker EXCEPT ![w] = v], UNCHANGED <<stays, calls, leavePosts, port>>
  PROVE  CoreInv'
<1>1. SessionInv /\ Goes /\ use # "pipe" /\ worker[w].slot = 0 /\ WorkerSupport(w)
  BY MustGo, NoPipes, WorkerFacts DEF CoreInv
<1>2. \A x : InHand(x)' = InHand(x) /\ Resuming(x)' = Resuming(x)
  BY <1>1, NoSessionMoves
<1>3. port' \in Seq(Posts) /\ SignSupport' /\ \A t : Signs(t)' = Signs(t)
  BY <1>1, PortSame DEF stays
<1>4. \A t \in Slots : Hands(t)' = Hands(t)
  BY <1>2, <1>3 DEF Hands
<1>5. PostsFine
  BY <1>1, <1>3, WorkerFine DEF WorkerSupport
<1>6. QED
  BY <1>1, <1>2, <1>4, <1>5, PostsStep

LEMMA SetWithoutIDKeeps ==
  ASSUME CoreInv, NEW w \in Workers, SetWithoutID(w)
  PROVE  CoreInv'
<1> DEFINE t == worker[w]
<1> DEFINE v == [t EXCEPT !.ids = Tail(@)]
<1>1. /\ t.pc = "set" /\ t.ids # <<>> /\ UNCHANGED <<stays, calls, leavePosts, port>>
      /\ worker' = [worker EXCEPT ![w] = v]
  BY DEF SetWithoutID, stays, params, mainVars, idVars, leftVars, pipeVars, pipeQs
<1>2. t \in WorkerStates /\ t.slot = 0
  BY <1>1, WorkerFacts
<1>3. Tail(t.ids) \in Seq(IDs)
  BY <1>1, <1>2, HeadTailProperties DEF WorkerStates
<1>4. v \in WorkerStates /\ v.pc = "set" /\ v.slot = 0 /\ v.packet = t.packet /\ v.key = t.key
  BY <1>1, <1>2, <1>3 DEF WorkerStates
<1> HIDE DEF v
<1>5. QED
  BY <1>1, <1>4, SetGoesOn

LEMMA EndSetKeeps ==
  ASSUME CoreInv, NEW w \in Workers, EndSet(w)
  PROVE  CoreInv'
<1>1. /\ worker[w].pc = "set" /\ UNCHANGED <<stays, calls, leavePosts, port>>
      /\ worker' = [worker EXCEPT ![w] = Waiting]
  BY DEF EndSet, stays, params, mainVars, idVars, leftVars, pipeVars, pipeQs
<1>2. QED
  BY <1>1, WaitingState, SetGoesOn

-----------------------------------------------------------------------------
\* The blocks of a set: how its members are cut.
LEMMA DivFacts ==
  ASSUME NEW n \in Nat, NEW b \in Nat \ {0}
  PROVE  /\ n \div b \in Nat
         /\ (n \div b) * b <= n
         /\ n < (n \div b) * b + b
OBVIOUS

BlockEnd(n, b, k) == IF k * b < n THEN k * b ELSE n

LEMMA BlockFacts ==
  ASSUME NEW ids \in Seq(IDs), NEW n, n = Len(ids), NEW b, b = BlockSize(n)
  PROVE  /\ n \in Nat /\ b \in Nat \ {0} /\ (n + b - 1) \div b \in Nat
         /\ DOMAIN Blocks(ids) = 1..((n + b - 1) \div b)
         /\ ((n + b - 1) \div b) * b <= n + b - 1
         /\ n + b - 1 < ((n + b - 1) \div b) * b + b
         /\ \A k \in DOMAIN Blocks(ids) :
              /\ Blocks(ids)[k] = SubSeq(ids, (k - 1) * b + 1, BlockEnd(n, b, k))
              /\ (k - 1) * b \in Nat /\ k * b = (k - 1) * b + b
              /\ (k - 1) * b < BlockEnd(n, b, k) /\ BlockEnd(n, b, k) <= n /\ BlockEnd(n, b, k) \in Nat
              /\ Blocks(ids)[k] \in Seq(IDs)
              /\ DOMAIN Blocks(ids)[k] = 1..(BlockEnd(n, b, k) - (k - 1) * b)
<1>1. n \in Nat /\ Cardinality(Workers) \in Nat \ {0}
  <2>1. Cardinality(Workers) \in Nat /\ Cardinality(Workers) # 0
    BY LanAssumption, FS_CardinalityType, FS_EmptySet
  <2>2. QED
    BY <2>1
<1>2. b \in Nat \ {0}
  <2>1. n \div Cardinality(Workers) \in Nat
    BY <1>1, DivFacts
  <2>2. QED
    BY <2>1 DEF BlockSize
<1> DEFINE m == n + b - 1
<1> DEFINE l == m \div b
<1>3. m \in Nat
  BY <1>1, <1>2
<1> HIDE DEF m
<1>4. l \in Nat /\ l * b <= m /\ m < l * b + b
  BY <1>2, <1>3, DivFacts
<1>5. Blocks(ids) = [k \in 1..l |-> SubSeq(ids, (k - 1) * b + 1, BlockEnd(n, b, k))]
  BY DEF Blocks, BlockEnd, m
<1> HIDE DEF l
<1>6. ASSUME NEW k \in 1..l
      PROVE  /\ Blocks(ids)[k] = SubSeq(ids, (k - 1) * b + 1, BlockEnd(n, b, k))
             /\ (k - 1) * b \in Nat /\ k * b = (k - 1) * b + b
             /\ (k - 1) * b < BlockEnd(n, b, k) /\ BlockEnd(n, b, k) <= n /\ BlockEnd(n, b, k) \in Nat
             /\ Blocks(ids)[k] \in Seq(IDs)
             /\ DOMAIN Blocks(ids)[k] = 1..(BlockEnd(n, b, k) - (k - 1) * b)
  <2> DEFINE y == (k - 1) * b
  <2> DEFINE x == k * b
  <2> DEFINE e == BlockEnd(n, b, k)
  <2>1. y \in Nat /\ x = y + b /\ y + 1 <= n
    <3> DEFINE z == l * b
    <3>1. PICK d \in Nat : l = k + d
      <4>1. l - k \in Nat /\ l = k + (l - k)
        BY <1>4
      <4>2. QED
        BY <4>1
    <3> DEFINE u == d * b
    <3>2. z = y + b + u /\ u \in Nat /\ y \in Nat /\ x = y + b
      <4>1. k \in Nat \ {0} /\ b \in Nat \ {0}
        BY <1>2, <1>4
      <4>2. l * b = (k - 1) * b + b + d * b
        BY <3>1, <4>1
      <4>3. d * b \in Nat /\ (k - 1) * b \in Nat /\ k * b = (k - 1) * b + b
        BY <4>1
      <4>4. QED
        BY <4>2, <4>3
    <3>3. z <= n + b - 1
      BY <1>4 DEF m
    <3> HIDE DEF x, y, z, u
    <3>4. QED
      BY <1>1, <1>2, <3>2, <3>3, SMTT(30)
  <2>2. e = IF x < n THEN x ELSE n
    BY DEF BlockEnd
  <2>3. Blocks(ids)[k] = SubSeq(ids, y + 1, e)
    BY <1>5
  <2> HIDE DEF x, y, e
  <2>4. e \in Nat /\ y < e /\ e <= n
    BY <1>1, <1>2, <2>1, <2>2
  <2>5. \A j \in (y + 1)..e : ids[j] \in IDs
    <3>1. \A j \in (y + 1)..e : j \in 1..Len(ids)
      BY <2>1, <2>4
    <3>2. QED
      BY <3>1
  <2>6. SubSeq(ids, y + 1, e) \in Seq(IDs) /\ Len(SubSeq(ids, y + 1, e)) = (IF y + 1 <= e THEN e - (y + 1) + 1 ELSE 0)
    BY <2>1, <2>4, <2>5, SubSeqProperties
  <2>7. Len(Blocks(ids)[k]) = e - y
    BY <2>1, <2>3, <2>4, <2>6
  <2>8. DOMAIN Blocks(ids)[k] = 1..(e - y)
    BY <2>3, <2>6, <2>7
  <2>9. QED
    BY <2>1, <2>3, <2>4, <2>6, <2>8 DEF x, y, e
<1>7. QED
  BY <1>1, <1>2, <1>4, <1>5, <1>6 DEF l, m

LEMMA SendToSetKeeps ==
  ASSUME CoreInv, NEW ids \in Broadcasts, NEW key \in {"send", "last"}, NEW p \in Packets,
         SendToSet(ids, key, p)
  PROVE  CoreInv'
<1> DEFINE q == [k \in DOMAIN Blocks(ids) |-> [key |-> key, ids |-> Blocks(ids)[k], packet |-> p]]
<1>1. Goes /\ use = "send" /\ UNCHANGED <<stays, calls, leavePosts, worker>> /\ port' = port \o q
  BY DEF SendToSet, Calls, Goes, stays, params, mainVars, idVars, leftVars, pipeVars, pipeQs
<1>2. ids \in Seq(IDs)
  BY LanAssumption DEF IDs
<1>3. PICK n : n = Len(ids)
  OBVIOUS
<1>4. PICK b : b = BlockSize(n)
  OBVIOUS
<1>5. PICK l \in Nat : DOMAIN Blocks(ids) = 1..l /\ \A k \in 1..l : Blocks(ids)[k] \in Seq(IDs)
  BY <1>2, <1>3, <1>4, BlockFacts
<1>6. q \in Seq(Posts) /\ \A k \in DOMAIN q : q[k].key # "sign"
  <2>1. q \in [1..l -> Posts]
    BY <1>5 DEF Posts
  <2>2. q \in Seq(Posts)
    BY <2>1
  <2>3. QED
    BY <2>2
<1> HIDE DEF q
<1>7. SessionInv /\ SessionTypes /\ SignSupport
  BY DEF CoreInv, SessionInv
<1>8. /\ \A t : Signs(t)' = Signs(t)
      /\ port' \in Seq(Posts)
      /\ \A k \in DOMAIN port' : (k \in DOMAIN port /\ port'[k] = port[k]) \/ port'[k].key # "sign"
  BY <1>1, <1>6, <1>7, SetPosted DEF stays
<1>9. \A t : Hands(t)' = Hands(t) /\ Resuming(t)' = Resuming(t)
  BY <1>1, <1>8 DEF Hands, Resuming, InHand
<1>10. SignSupport'
  BY <1>1, <1>7, <1>8 DEF SignSupport, stays
<1>11. PostsFine
  BY <1>1, <1>7, <1>8, <1>10 DEF PostsFine, SessionInv, SessionTypes, WorkerSupport
<1>12. QED
  BY <1>1, <1>9, <1>11, PostsStep

\* A worker tells the application of a leave.
LEMMA TakeLeaveKeeps ==
  ASSUME CoreInv, NEW w \in Workers, NEW i \in IDs, TakeLeave(w, i)
  PROVE  CoreInv'
<1>1. /\ i \in leavePosts /\ leavePosts' = leavePosts \ {i} /\ calls' = [calls EXCEPT ![i] = @ + 1]
      /\ UNCHANGED <<stays, port, worker>>
  BY DEF TakeLeave, stays, params, mainVars, idVars, pipeVars, pipeQs
<1>2. /\ SessionInv /\ SessionTypes /\ LeftOnce /\ LeftSupport /\ calls \in [IDs -> 0..1] /\ leavePosts \subseteq IDs
      /\ Goes
  BY <1>1, MustGo DEF CoreInv, SessionInv, SessionTypes
<1>3. PostsFine /\ \A t : Hands(t)' = Hands(t) /\ Resuming(t)' = Resuming(t)
  BY <1>1, <1>2, HandsSame DEF stays
<1>4. calls[i] = 0
  <2>1. slotOf[i] # 0
    BY <1>1, <1>2 DEF LeftSupport
  <2>2. QED
    BY <1>1, <1>2, <2>1 DEF LeftOnce
<1>5. calls' \in [IDs -> 0..1] /\ leavePosts' \subseteq IDs
  BY <1>1, <1>2, <1>4
<1>6. \A j \in IDs : calls'[j] + (IF j \in leavePosts' THEN 1 ELSE 0) = calls[j] + (IF j \in leavePosts THEN 1 ELSE 0)
  BY <1>1, <1>2, <1>4
<1>7. SessionInv'
  BY <1>1, <1>2, <1>3, <1>5, <1>6, SessionsStay DEF stays
<1>8. PlaceInv'
  BY <1>1, PlacesStay DEF CoreInv, stays
<1>9. use = "pipe" => port' = <<>> /\ \A u \in Workers : worker'[u].pc \notin {"set", "spin"}
  BY <1>1 DEF CoreInv, StopInv, StartSupport
<1>10. StopInv'
  BY <1>1, <1>2, <1>9, GoingStay DEF CoreInv, stays
<1>11. QED
  BY <1>7, <1>8, <1>10 DEF CoreInv

-----------------------------------------------------------------------------
(* The kernel ends an operation.                                           *)

LEMMA OperationEnds ==
  ASSUME CoreInv, NEW s \in Slots, NEW x, sess' = [sess EXCEPT ![s] = x], Goes,
         Holds(x, Hands(s)), Same(x, sess[s]), Silent(sess[s]) => Silent(x), x.refs = sess[s].refs, ~sess[s].dead,
         sess[s].sending => x.sending /\ (sess[s].send = "none" => x.send = "none"),
         UNCHANGED <<others, port, worker, refCnt, quit, free, calls, leavePosts, leaveQ>>
  PROVE  CoreInv'
<1>1. Leave(s, x, refCnt)
  <2>1. SessionSupport(s) /\ x.refs \in Nat
    BY SlotFacts DEF CoreInv, Holds, GoodRecord, Sessions
  <2>2. x.refs > 0
    BY <2>1 DEF SessionSupport
  <2>3. QED
    BY <2>1, <2>2, Stays
<1>2. QED
  BY <1>1, LeaveUnposted

LEMMA RecvEndsKeeps ==
  ASSUME CoreInv, NEW s \in Slots, RecvEnds(s)
  PROVE  CoreInv'
<1>1. PICK e \in {"data", "closed"} : sess' = [sess EXCEPT ![s].recv = e]
  BY DEF RecvEnds
<1>2. /\ sess[s].recv = "posted"
      /\ UNCHANGED <<others, port, worker, refCnt, quit, free, calls, leavePosts, leaveQ>>
  BY DEF RecvEnds, others, params, mainVars, idVars, pktVars, leftVars, pipeVars, pipeQs
<1> DEFINE r == sess[s]
<1> DEFINE x == [r EXCEPT !.recv = e]
<1>3. sess' = [sess EXCEPT ![s] = x]
  BY <1>1
<1>4. r \in Sessions /\ Holds(r, Hands(s)) /\ Goes /\ ~r.dead
  BY <1>2, SlotFacts, MustGo, UnderWay DEF CoreInv
<1>5. /\ x \in Sessions /\ x.refs = r.refs /\ Same(x, r) /\ x.jobQ = r.jobQ
      /\ x.canceled = r.canceled /\ x.recv = e /\ x.send = r.send
      /\ x.sending = r.sending /\ x.sendQ = r.sendQ /\ x.sentQ = r.sentQ
  BY <1>4 DEF Sessions, Same
<1> HIDE DEF x
<1>6. Ops(x) = Ops(r)
  BY <1>2, <1>5 DEF Ops, SendHolds, Same
<1>7. GoodRecord(x)
  BY <1>4, <1>5 DEF Holds, GoodRecord, Same
<1>8. Holds(x, Hands(s))
  BY <1>4, <1>5, <1>6, <1>7 DEF Holds
<1>9. Silent(r) => Silent(x)
  BY <1>5 DEF Silent
<1>10. QED
  BY <1>2, <1>3, <1>4, <1>5, <1>8, <1>9, OperationEnds

LEMMA SendEndsKeeps ==
  ASSUME CoreInv, NEW s \in Slots, SendEnds(s)
  PROVE  CoreInv'
<1>1. PICK e \in {"done", "reset"} : sess' = [sess EXCEPT ![s].send = e]
  BY DEF SendEnds
<1>2. /\ sess[s].send = "posted"
      /\ UNCHANGED <<others, port, worker, refCnt, quit, free, calls, leavePosts, leaveQ>>
  BY DEF SendEnds, others, params, mainVars, idVars, pktVars, leftVars, pipeVars, pipeQs
<1> DEFINE r == sess[s]
<1> DEFINE x == [r EXCEPT !.send = e]
<1>3. sess' = [sess EXCEPT ![s] = x]
  BY <1>1
<1>4. r \in Sessions /\ Holds(r, Hands(s)) /\ Goes /\ ~r.dead
  BY <1>2, SlotFacts, MustGo, UnderWay DEF CoreInv
<1>5. /\ x \in Sessions /\ x.refs = r.refs /\ Same(x, r) /\ x.jobQ = r.jobQ
      /\ x.canceled = r.canceled /\ x.send = e /\ x.recv = r.recv
      /\ x.sending = r.sending /\ x.sendQ = r.sendQ /\ x.sentQ = r.sentQ
  BY <1>4 DEF Sessions, Same
<1> HIDE DEF x
<1>6. isSendIOPending /\ r.sending
  BY <1>2, <1>4 DEF Holds, GoodRecord
<1>7. Ops(x) = Ops(r)
  BY <1>2, <1>5, <1>6 DEF Ops, SendHolds, Same
<1>8. GoodRecord(x)
  BY <1>4, <1>5, <1>6 DEF Holds, GoodRecord, Same
<1>9. Holds(x, Hands(s))
  BY <1>4, <1>5, <1>7, <1>8 DEF Holds
<1>10. Silent(r) => Silent(x)
  BY <1>2 DEF Silent
<1>11. QED
  BY <1>2, <1>3, <1>4, <1>5, <1>6, <1>9, <1>10, OperationEnds

-----------------------------------------------------------------------------
(* Start and Stop.                                                         *)

LEMMA DeadFacts ==
  /\ Dead \in Sessions /\ GoodRecord(Dead) /\ Destroyed(Dead) = Dead /\ Ops(Dead) = 0 /\ Holds(Dead, 0)
  /\ Dead.dead /\ Dead.refs = 0 /\ Dead.send = "none" /\ Dead.recv = "none" /\ Dead.sendQ = <<>>
  /\ ~Dead.moving /\ Dead.cur = NoPipe
<1>1. /\ <<>> \in Seq(Packets) /\ <<>> \in Seq(IDs) /\ 0 \in 0..MaxSessions
  BY LanAssumption
<1>2. /\ Dead \in Sessions
      /\ Dead.dead /\ Dead.refs = 0 /\ Dead.send = "none" /\ Dead.recv = "none" /\ Dead.sendQ = <<>>
      /\ Dead.jobQ = <<>> /\ ~Dead.moving /\ Dead.cur = NoPipe
  BY <1>1 DEF Dead, Sessions
<1>3. Destroyed(Dead) = Dead
  BY DEF Destroyed, Dead
<1>4. GoodRecord(Dead)
  BY <1>2, LanAssumption DEF GoodRecord
<1>5. Ops(Dead) = 0
  BY <1>2 DEF Ops, SendHolds
<1>6. QED
  BY <1>2, <1>3, <1>4, <1>5 DEF Holds

\* Every slot is as it should be.
LEMMA EverySlot ==
  ASSUME PostsFine, sess' \in [Slots -> Sessions], \A t \in Slots : SlotFine(t, sess'[t]),
         UNCHANGED isSendIOPending
  PROVE  LanRefsExact' /\ \A t \in Slots : SessionSupport(t)'
<1>1. ASSUME NEW t \in Slots
      PROVE  /\ SessionSupport(t)'
             /\ sess'[t].refs = (IF sess'[t].recv = "none" THEN 0 ELSE 1) + SendHolds(sess'[t])
                + 2 * Cardinality(Signs(t)') + 2 * Cardinality(InHand(t)') + (IF sess'[t].moving THEN 1 ELSE 0)
  <2>1. PICK y : y = sess'[t]
    OBVIOUS
  <2>2. SlotFine(t, y) /\ Holds(y, Hands(t)')
    BY <1>1, <2>1 DEF SlotFine
  <2>3. SendHolds(y) \in Nat
    BY DEF SendHolds
  <2>4. Cardinality(Signs(t)') \in Nat /\ Cardinality(InHand(t)') \in Nat
    BY NextHands DEF PostsFine
  <2>5. y.refs = (IF y.recv = "none" THEN 0 ELSE 1) + SendHolds(y)
                + 2 * Cardinality(Signs(t)') + 2 * Cardinality(InHand(t)') + (IF y.moving THEN 1 ELSE 0)
    <3>1. Hands(t)' = 2 * Cardinality(Signs(t)') + 2 * Cardinality(InHand(t)')
      BY DEF Hands
    <3>2. y.refs = Ops(y) + Hands(t)'
      BY <2>2 DEF Holds
    <3>3. QED
      BY <2>3, <2>4, <3>1, <3>2 DEF Ops
  <2>6. GoodRecord(y)'
    <3>1. GoodRecord(y)
      BY <2>2 DEF Holds
    <3>2. QED
      BY <3>1 DEF GoodRecord
  <2>7. SessionSupport(t)'
    <3>1. PICK d : d = Destroyed(y)
      OBVIOUS
    <3>2. /\ ResumeFine(t, y) /\ (y.dead <=> y.refs = 0)
          /\ ~y.dead => y.id # 0 /\ slotOf'[y.id] = t /\ t \notin free'
          /\ t \in free' => y = d
      BY <2>2, <3>1 DEF SlotFine
    <3>3. d.refs = 0
      BY <3>1 DEF Destroyed, Dead
    <3>4. t \in free' => y.recv = "none" /\ y.send = "none"
      BY <2>2, <3>2, <3>3, NothingHeld
    <3>5. QED
      BY <2>1, <2>6, <3>1, <3>2, <3>4 DEF SessionSupport, ResumeFine, Destroyed, NothingLate
  <2>8. QED
    BY <2>1, <2>5, <2>7
<1>2. QED
  BY <1>1 DEF LanRefsExact, SendHolds

LEMMA InitCore ==
  ASSUME LanInit
  PROVE  CoreInv
<1>1. /\ isSendIOPending \in BOOLEAN /\ isLogicMultithreaded \in BOOLEAN /\ use \in {"send", "pipe"}
      /\ main = "new" /\ isRunning = FALSE /\ quit = "none"
      /\ free = {} /\ sess = [s \in Slots |-> Dead] /\ slotOf = [i \in IDs |-> 0]
      /\ port = <<>> /\ worker = [w \in Workers |-> [Waiting EXCEPT !.pc = "none"]]
      /\ calls = [i \in IDs |-> 0] /\ leavePosts = {}
      /\ userMap = [p \in Pipes |-> {}]
      /\ joinQ = [p \in Pipes |-> <<>>] /\ moveInQ = [p \in Pipes |-> <<>>] /\ moveOutQ = [p \in Pipes |-> <<>>]
      /\ leaveQ = [p \in Pipes |-> <<>>] /\ phase = [p \in Pipes |-> "none"]
  BY DEF LanInit
<1>2. [Waiting EXCEPT !.pc = "none"] \in WorkerStates /\ [Waiting EXCEPT !.pc = "none"].slot = 0
      /\ [Waiting EXCEPT !.pc = "none"].pc = "none"
  BY WaitingState DEF WorkerStates
<1>3. SessionTypes
  <2>1. <<>> \in Seq(Posts)
    OBVIOUS
  <2>2. worker \in [Workers -> WorkerStates]
    BY <1>1, <1>2
  <2>3. sess \in [Slots -> Sessions] /\ slotOf \in [IDs -> Slots \cup {0}]
    BY <1>1, DeadFacts
  <2>4. QED
    BY <1>1, <2>1, <2>2, <2>3 DEF SessionTypes
<1>4. \A s \in Slots : Signs(s) = {} /\ InHand(s) = {} /\ Resuming(s) = {}
  <2>1. \A s : Signs(s) = {}
    BY <1>1 DEF Signs
  <2>2. \A s \in Slots : InHand(s) = {}
    BY <1>1, <1>2, LanAssumption DEF InHand
  <2>3. QED
    BY <2>1, <2>2 DEF Resuming
<1>5. LanRefsExact
  <2>1. Cardinality({}) = 0
    BY FS_EmptySet
  <2>2. \A s \in Slots : sess[s] = Dead
    BY <1>1
  <2>3. SendHolds(Dead) = 0
    BY DeadFacts DEF SendHolds
  <2>4. QED
    <3>1. ASSUME NEW s \in Slots
          PROVE  sess[s].refs = (IF sess[s].recv = "none" THEN 0 ELSE 1) + SendHolds(sess[s])
             + 2 * Cardinality(Signs(s)) + 2 * Cardinality(InHand(s)) + (IF sess[s].moving THEN 1 ELSE 0)
      <4>1. sess[s] = Dead /\ Cardinality(Signs(s)) = 0 /\ Cardinality(InHand(s)) = 0
        BY <1>4, <2>1, <2>2
      <4>2. 0 = (IF Dead.recv = "none" THEN 0 ELSE 1) + SendHolds(Dead) + 2 * 0 + 2 * 0 + (IF Dead.moving THEN 1 ELSE 0)
        BY <2>3, DeadFacts
      <4>3. QED
        BY <4>1, <4>2, DeadFacts
    <3>2. QED
      BY <3>1 DEF LanRefsExact
<1>6. LeftOnce /\ LeftSupport
  BY <1>1 DEF LeftOnce, LeftSupport
<1>7. \A s \in Slots : SessionSupport(s)
  <2>1. \A s \in Slots : sess[s] = Dead
    BY <1>1
  <2>2. QED
    BY <1>1, <1>4, <2>1, DeadFacts DEF SessionSupport
<1>8. (\A w \in Workers : WorkerSupport(w)) /\ SignSupport
  <2>1. ASSUME NEW w \in Workers
        PROVE  WorkerSupport(w)
    <3>1. worker[w] = [Waiting EXCEPT !.pc = "none"]
      BY <1>1
    <3>2. QED
      BY <1>2, <3>1 DEF WorkerSupport
  <2>2. SignSupport
    BY <1>1 DEF SignSupport
  <2>3. QED
    BY <2>1, <2>2
<1>9. SessionInv
  BY <1>1, <1>3, <1>5, <1>6, <1>7, <1>8 DEF SessionInv, LanNeverQuits
<1>10. PlaceInv
  <2>1. <<>> \in Seq(IDs) /\ Once(<<>>) /\ \A i : ~In(<<>>, i)
    BY DEF Once, In
  <2>2. PlaceTypes /\ QueuesOnce
    BY <1>1, <2>1 DEF PlaceTypes, QueuesOnce
  <2>3. \A s \in Slots : PlaceSupport(s)
    BY <1>1, DeadFacts DEF PlaceSupport
  <2>4. \A i \in IDs, p \in Pipes : UserSupport(i, p)
    BY <1>1, <2>1 DEF UserSupport
  <2>5. QED
    BY <2>2, <2>3, <2>4 DEF PlaceInv
<1>11. StopInv
  <2>1. StopTypes
    BY <1>1 DEF StopTypes, Phases
  <2>2. StartSupport
    BY <1>1, <1>2, DeadFacts DEF StartSupport, Begun
  <2>3. StopSupport
    BY <1>1 DEF StopSupport
  <2>4. QED
    BY <2>1, <2>2, <2>3 DEF StopInv
<1>12. QED
  BY <1>9, <1>10, <1>11 DEF CoreInv

\* A step of the main thread that changes no session.
LEMMA MainStep ==
  ASSUME CoreInv, StopInv',
         UNCHANGED <<sess, slotOf, free, isSendIOPending, isLogicMultithreaded, quit, use, port, worker,
                     calls, leavePosts, userMap, joinQ, moveInQ, moveOutQ, leaveQ>>
  PROVE  CoreInv'
<1>1. PostsFine /\ \A t : Hands(t)' = Hands(t) /\ Resuming(t)' = Resuming(t)
  BY HandsSame DEF CoreInv
<1>2. SessionInv'
  BY <1>1, SessionsStay DEF CoreInv, SessionInv, SessionTypes
<1>3. PlaceInv'
  BY PlacesStay DEF CoreInv
<1>4. QED
  BY <1>2, <1>3 DEF CoreInv

LEMMA StartKeeps ==
  ASSUME CoreInv, Start
  PROVE  CoreInv'
<1>1. StopInv /\ main = "new" /\ main' = "initiate" /\ isRunning' = TRUE
      /\ UNCHANGED <<sess, slotOf, free, isSendIOPending, isLogicMultithreaded, quit, use, port, worker,
                     calls, leavePosts, userMap, joinQ, moveInQ, moveOutQ, leaveQ, phase>>
  BY DEF CoreInv, Start, params, idVars, leftVars, pipeVars, pipeQs
<1>2. StopInv'
  BY <1>1 DEF StopInv, StopTypes, StartSupport, StopSupport, Begun
<1>3. QED
  BY <1>1, <1>2, MainStep

LEMMA ServerInitiateKeeps ==
  ASSUME CoreInv, ServerInitiate
  PROVE  CoreInv'
<1>1. StopInv /\ main = "initiate" /\ main' \in {"threads", "failed"} /\ isRunning' = isRunning
      /\ UNCHANGED <<sess, slotOf, free, isSendIOPending, isLogicMultithreaded, quit, use, port, worker,
                     calls, leavePosts, userMap, joinQ, moveInQ, moveOutQ, leaveQ, phase>>
  BY DEF CoreInv, ServerInitiate, params, idVars, leftVars, pipeVars, pipeQs
<1>2. StopInv'
  BY <1>1 DEF StopInv, StopTypes, StartSupport, StopSupport, Begun
<1>3. QED
  BY <1>1, <1>2, MainStep

LEMMA PostQuitKeeps ==
  ASSUME CoreInv, PostQuit
  PROVE  CoreInv'
<1>1. StopInv /\ main = "sleeping" /\ main' = "waiting" /\ isRunning' = isRunning /\ SleptLongEnough
      /\ UNCHANGED <<sess, slotOf, free, isSendIOPending, isLogicMultithreaded, quit, use, port, worker,
                     calls, leavePosts, userMap, joinQ, moveInQ, moveOutQ, leaveQ, phase>>
  BY DEF CoreInv, PostQuit, params, idVars, leftVars, pipeVars, pipeQs
<1>2. isRunning /\ StopTypes' /\ StartSupport'
  BY <1>1 DEF StopInv, StopTypes, StartSupport, Begun
<1>3. StopSupport'
  BY <1>1, <1>2 DEF StopInv, StartSupport, StopSupport, SleptLongEnough
<1>4. QED
  BY <1>1, <1>2, <1>3, MainStep DEF StopInv

LEMMA StopRunningKeeps ==
  ASSUME CoreInv, StopRunning
  PROVE  CoreInv'
<1>1. StopInv /\ main = "waiting" /\ isRunning' = FALSE /\ (\A w \in Workers : worker[w].pc = "ended")
      /\ UNCHANGED <<sess, slotOf, free, isSendIOPending, isLogicMultithreaded, quit, use, port, worker, main,
                     calls, leavePosts, userMap, joinQ, moveInQ, moveOutQ, leaveQ, phase>>
  BY DEF CoreInv, StopRunning, params, idVars, leftVars, pipeVars, pipeQs
<1>2. StopTypes' /\ StartSupport'
  BY <1>1 DEF StopInv, StopTypes, StartSupport, Begun
<1>3. StopSupport'
  BY <1>1 DEF StopInv, StopSupport
<1>4. QED
  BY <1>1, <1>2, <1>3, MainStep DEF StopInv

LEMMA StopDoneKeeps ==
  ASSUME CoreInv, StopDone
  PROVE  CoreInv'
<1>1. /\ StopInv /\ main = "waiting" /\ ~isRunning /\ main' = "stopped"
      /\ \A p \in Pipes : use = "pipe" => phase[p] = "ended"
      /\ UNCHANGED <<sess, slotOf, free, isSendIOPending, isLogicMultithreaded, quit, use, port, worker, isRunning,
                     calls, leavePosts, userMap, joinQ, moveInQ, moveOutQ, leaveQ, phase>>
  BY DEF CoreInv, StopDone, params, idVars, leftVars, pipeVars, pipeQs
<1>2. StopTypes' /\ StartSupport'
  BY <1>1 DEF StopInv, StopTypes, StartSupport, Begun
<1>3. StopSupport'
  BY <1>1 DEF StopInv, StopSupport
<1>4. QED
  BY <1>1, <1>2, <1>3, MainStep DEF StopInv

LEMMA RunThreadsKeeps ==
  ASSUME CoreInv, RunThreads
  PROVE  CoreInv'
<1>1. /\ main = "threads" /\ main' = "running" /\ worker' = [w \in Workers |-> Waiting] /\ free' = Slots
      /\ phase' = [p \in Pipes |-> "join"]
      /\ UNCHANGED <<sess, slotOf, isSendIOPending, isLogicMultithreaded, quit, use, port, isRunning,
                     calls, leavePosts, userMap, joinQ, moveInQ, moveOutQ, leaveQ>>
  BY DEF RunThreads, params, leftVars, pipeQs
<1>2. /\ sess = [s \in Slots |-> Dead] /\ slotOf = [i \in IDs |-> 0] /\ port = <<>> /\ isRunning
      /\ SessionInv /\ SessionTypes /\ StopInv /\ PlaceInv
  BY <1>1 DEF CoreInv, StopInv, StartSupport, Begun, SessionInv
<1>3. PostsFine
  <2>1. \A w \in Workers : worker'[w] = Waiting
    BY <1>1
  <2>2. worker' \in [Workers -> WorkerStates] /\ \A w \in Workers : WorkerSupport(w)'
    BY <1>1, <2>1, WaitingState DEF WorkerSupport
  <2>3. port' \in Seq(Posts) /\ SignSupport'
    BY <1>1, <1>2, PortSame
  <2>4. QED
    BY <2>2, <2>3 DEF PostsFine
<1>4. \A t \in Slots : Hands(t)' = 0 /\ Resuming(t)' = {}
  <2>1. ASSUME NEW t \in Slots
        PROVE  Signs(t)' = {} /\ InHand(t)' = {} /\ Resuming(t)' = {}
    <3>1. Signs(t)' = {}
      BY <1>1, <1>2 DEF Signs
    <3>2. \A w \in Workers : worker'[w].slot # t
      BY <1>1, WaitingState, LanAssumption
    <3>3. InHand(t)' = {}
      BY <3>2 DEF InHand
    <3>4. QED
      BY <3>1, <3>3 DEF Resuming
  <2>2. QED
    BY <2>1, FS_EmptySet DEF Hands
<1>5. \A t \in Slots : SlotFine(t, sess'[t])
  <2>1. ASSUME NEW t \in Slots
        PROVE  SlotFine(t, Dead)
    <3>1. Hands(t)' = 0 /\ Resuming(t)' = {}
      BY <1>4
    <3>2. QED
      BY <3>1, DeadFacts DEF SlotFine, ResumeFine
  <2>2. QED
    BY <1>1, <1>2, <2>1
<1>6. LanRefsExact' /\ \A t \in Slots : SessionSupport(t)'
  BY <1>1, <1>2, <1>3, <1>5, EverySlot DEF SessionTypes
<1>7. LeftOnce' /\ LeftSupport'
  BY <1>1, <1>2 DEF LeftOnce, LeftSupport, SessionInv
<1>8. SessionInv'
  BY <1>1, <1>2, <1>3, <1>6, <1>7 DEF SessionInv, SessionTypes, PostsFine, LanNeverQuits
<1>9. PlaceInv'
  BY <1>1, <1>2, PlacesStay
<1>10. StopInv'
  <2>1. StopTypes' /\ Begun' /\ \A p \in Pipes : phase'[p] = "join"
    BY <1>1, <1>2 DEF StopInv, StopTypes, Begun, Phases
  <2>2. \A w \in Workers : worker'[w].pc = "waiting"
    BY <1>1, WaitingState
  <2>3. StartSupport'
    BY <1>1, <1>2, <2>1, <2>2, DeadFacts DEF StopInv, StartSupport
  <2>4. StopSupport'
    BY <1>1, <2>1 DEF StopSupport
  <2>5. QED
    BY <2>1, <2>3, <2>4 DEF StopInv
<1>11. QED
  BY <1>8, <1>9, <1>10 DEF CoreInv

\* Invalidate disconnects whoever is alive.
LEMMA StopKeeps ==
  ASSUME CoreInv, Stop
  PROVE  CoreInv'
<1>1. /\ main = "running" /\ main' = "sleeping"
      /\ sess' = [s \in Slots |-> IF sess[s].dead THEN sess[s] ELSE Disconnected(sess[s])]
      /\ UNCHANGED <<slotOf, isSendIOPending, isLogicMultithreaded, quit, use, port, worker, isRunning, free,
                     calls, leavePosts, userMap, joinQ, moveInQ, moveOutQ, leaveQ, phase>>
  BY DEF Stop, params, idVars, leftVars, pipeVars, pipeQs
<1>2. /\ SessionInv /\ SessionTypes /\ StopInv /\ PlaceInv
  BY DEF CoreInv, SessionInv
<1>3. PostsFine /\ \A t : Hands(t)' = Hands(t) /\ Resuming(t)' = Resuming(t)
  BY <1>1, <1>2, HandsSame
<1>4. ASSUME NEW t \in Slots
      PROVE  /\ Holds(sess'[t], Hands(t)) /\ Same(sess'[t], sess[t]) /\ sess'[t].sending = sess[t].sending
             /\ (sess[t].send = "none" => sess'[t].send = "none") /\ sess'[t].sendQ = sess[t].sendQ
             /\ sess'[t].refs = sess[t].refs /\ (sess[t].dead => sess'[t] = sess[t])
             /\ sess'[t] \in Sessions /\ SessionSupport(t)
  <2>1. Holds(sess[t], Hands(t)) /\ SessionSupport(t) /\ sess[t] \in Sessions
    BY <1>2, SlotFacts
  <2>2. CASE sess[t].dead
    BY <1>1, <2>1, <2>2 DEF Same
  <2>3. CASE ~sess[t].dead
    <3> DEFINE x == Disconnected(sess[t])
    <3>1. /\ Holds(x, Hands(t)) /\ Same(x, sess[t]) /\ x.sending = sess[t].sending
          /\ (sess[t].send = "none" => x.send = "none") /\ x.sendQ = sess[t].sendQ
      BY <2>1, DisconnectedHolds
    <3>2. x.refs = sess[t].refs /\ x \in Sessions
      BY <2>1, DisconnectedFields
    <3>3. sess'[t] = x
      BY <1>1, <2>3
    <3> HIDE DEF x
    <3>4. QED
      BY <2>1, <2>3, <3>1, <3>2, <3>3
  <2>4. QED
    BY <2>2, <2>3
<1>5. ASSUME NEW t \in Slots
      PROVE  SlotFine(t, sess'[t])
  <2>1. PICK y : y = sess'[t]
    OBVIOUS
  <2>2. /\ Holds(y, Hands(t)) /\ Same(y, sess[t]) /\ y.sending = sess[t].sending
        /\ (sess[t].send = "none" => y.send = "none")
        /\ y.refs = sess[t].refs /\ (sess[t].dead => y = sess[t]) /\ SessionSupport(t)
    BY <1>4, <2>1
  <2>3. Hands(t)' = Hands(t) /\ Resuming(t)' = Resuming(t)
    BY <1>3
  <2>4. Holds(y, Hands(t)')
    BY <2>2, <2>3
  <2>5. y.dead = sess[t].dead /\ y.id = sess[t].id
    BY <2>2 DEF Same
  <2>6. t \in free => sess[t].dead
    BY <2>2 DEF SessionSupport
  <2>7. SlotFine(t, y)
    BY <1>1, <2>2, <2>3, <2>4, <2>5, <2>6 DEF SlotFine, SessionSupport, ResumeFine
  <2>8. QED
    BY <2>1, <2>7
<1>6. sess' \in [Slots -> Sessions]
  BY <1>1, <1>4
<1>7. LanRefsExact' /\ \A t \in Slots : SessionSupport(t)'
  BY <1>1, <1>3, <1>5, <1>6, EverySlot
<1>8. LeftOnce' /\ LeftSupport'
  <2>1. \A i \in IDs : Found(i)' <=> Found(i)
    BY <1>1, <1>2, <1>4 DEF Found, Same, SessionTypes
  <2>2. QED
    BY <1>1, <1>2, <2>1 DEF LeftOnce, LeftSupport, SessionInv
<1>9. SessionInv'
  BY <1>1, <1>2, <1>3, <1>6, <1>7, <1>8 DEF SessionInv, SessionTypes, PostsFine, LanNeverQuits
<1>10. PlaceInv'
  BY <1>1, <1>2, <1>4, PlacesAllSame
<1>11. StopInv'
  <2>1. StopTypes' /\ Begun' /\ Begun /\ isRunning
    BY <1>1, <1>2 DEF StopInv, StopTypes, StartSupport, Begun
  <2>2. StartSupport'
    <3>1. \A t \in Slots : sess[t].dead => t \in free \/ sess[t].cur # NoPipe
      BY <1>2, <2>1 DEF StopInv, StartSupport
    <3>2. \A t \in Slots : sess'[t].dead => t \in free' \/ sess'[t].cur # NoPipe
      BY <1>1, <1>4, <3>1 DEF Same
    <3>3. use = "pipe" => \A t \in Slots : sess'[t].sendQ = <<>> /\ sess'[t].send = "none"
      BY <1>2, <1>4 DEF StopInv, StartSupport
    <3>4. QED
      BY <1>1, <1>2, <2>1, <3>2, <3>3 DEF StopInv, StartSupport
  <2>3. StopSupport'
    BY <1>1, <1>2, <2>1 DEF StopInv, StartSupport, StopSupport
  <2>4. QED
    BY <2>1, <2>2, <2>3 DEF StopInv
<1>12. QED
  BY <1>9, <1>10, <1>11 DEF CoreInv

LEMMA WorkerEndsKeeps ==
  ASSUME CoreInv, NEW w \in Workers, WorkerEnds(w)
  PROVE  CoreInv'
<1> DEFINE v == [worker[w] EXCEPT !.pc = "ended"]
<1>1. /\ main = "waiting" /\ worker[w].pc = "waiting" /\ worker' = [worker EXCEPT ![w] = v]
      /\ UNCHANGED <<stays, calls, leavePosts, port>>
  BY DEF WorkerEnds, stays, params, mainVars, idVars, leftVars, pipeVars, pipeQs
<1>2. /\ SessionInv /\ PlaceInv /\ StopInv /\ worker[w] \in WorkerStates /\ worker[w].slot = 0
      /\ worker \in [Workers -> WorkerStates]
  BY <1>1, WorkerFacts DEF CoreInv, SessionInv, SessionTypes
<1>3. v \in WorkerStates /\ v.pc = "ended" /\ v.slot = 0
  BY <1>2 DEF WorkerStates
<1> HIDE DEF v
<1>4. \A x : InHand(x)' = InHand(x) /\ Resuming(x)' = Resuming(x)
  BY <1>1, <1>2, <1>3, NoSessionMoves
<1>5. port' \in Seq(Posts) /\ SignSupport' /\ \A t : Signs(t)' = Signs(t)
  BY <1>1, <1>2, PortSame DEF stays
<1>6. \A t \in Slots : Hands(t)' = Hands(t)
  BY <1>4, <1>5 DEF Hands
<1>7. PostsFine
  BY <1>1, <1>2, <1>3, <1>5, WorkerFine
<1>8. SessionInv'
  BY <1>1, <1>2, <1>4, <1>6, <1>7, SessionsStay DEF SessionInv, SessionTypes, stays
<1>9. PlaceInv'
  BY <1>1, <1>2, PlacesStay DEF stays
<1>10. StopInv'
  <2>1. \A u \in Workers : worker'[u] = worker[u] \/ worker'[u].pc = "ended"
    BY <1>1, <1>2, <1>3
  <2>2. StopTypes' /\ Begun /\ Begun'
    BY <1>1, <1>2 DEF StopInv, StopTypes, Begun, stays
  <2>3. StartSupport'
    BY <1>1, <1>2, <2>1, <2>2 DEF StopInv, StartSupport, stays
  <2>4. StopSupport'
    <3>1. \A u \in Workers : worker'[u].pc \in {"waiting", "spin", "ended"}
                            /\ (worker'[u].pc = "spin" => sess'[worker'[u].slot].sending)
      BY <1>1, <1>2, <2>1 DEF StopInv, StopSupport, stays
    <3>2. ~isRunning => \A u \in Workers : worker'[u].pc = "ended"
      BY <1>1, <1>2, <2>1 DEF StopInv, StopSupport
    <3>3. QED
      BY <1>1, <1>2, <3>1, <3>2 DEF StopInv, StopSupport, stays
  <2>5. QED
    BY <2>2, <2>3, <2>4 DEF StopInv
<1>11. QED
  BY <1>8, <1>9, <1>10 DEF CoreInv

-----------------------------------------------------------------------------
(* Accept.                                                                 *)

\* what stays when a connection joins
accepts == <<isSendIOPending, isLogicMultithreaded, use, main, isRunning, quit, userMap, moveInQ, moveOutQ, leaveQ,
             phase, port, worker>>

\* Session i takes slot s of the stack, with record y.
Joined(s, i, y) ==
  /\ main = "running" /\ s \in free /\ slotOf[i] = 0 /\ slotOf' = [slotOf EXCEPT ![i] = s]
  /\ sess' = [sess EXCEPT ![s] = y] /\ Holds(y, 0) /\ y.id = i /\ y.cur = NoPipe /\ Silent(y)
  /\ y.dead <=> y.refs = 0
  /\ y.dead => s \in free' /\ y = Destroyed(y)
  /\ ~y.dead => s \notin free'
  /\ \A t \in Slots : t # s => (t \in free' <=> t \in free)
  /\ calls' \in [IDs -> 0..1] /\ leavePosts' \subseteq IDs
  /\ \A j \in IDs : j # i => calls'[j] = calls[j] /\ (j \in leavePosts' <=> j \in leavePosts)
  /\ calls'[i] + (IF i \in leavePosts' THEN 1 ELSE 0) = (IF y.dead THEN 1 ELSE 0)
  /\ IF y.moving
     THEN use = "pipe" /\ y.dest \in Pipes /\ joinQ' = [joinQ EXCEPT ![y.dest] = Append(@, i)]
     ELSE use = "send" /\ UNCHANGED joinQ
  /\ free' \subseteq Slots /\ UNCHANGED accepts

\* what a slot of the stack holds
LEMMA FreeFacts ==
  ASSUME SessionInv, NEW s \in Slots, s \in free
  PROVE  /\ sess[s].dead /\ sess[s].refs = 0 /\ sess[s].recv = "none" /\ sess[s].send = "none"
         /\ ~sess[s].moving /\ sess[s].cur = NoPipe /\ sess[s].sendQ = <<>> /\ sess[s].jobQ = <<>>
         /\ ~sess[s].sending /\ sess[s] \in Sessions
         /\ Hands(s) = 0 /\ InHand(s) = {} /\ Resuming(s) = {}
<1>1. /\ Holds(sess[s], Hands(s)) /\ sess[s] \in Sessions /\ SessionSupport(s)
      /\ Hands(s) \in Nat /\ (InHand(s) # {} => Hands(s) >= 2)
  BY SlotFacts
<1>2. PICK y : y = sess[s]
  OBVIOUS
<1>3. y = Destroyed(y) /\ y \in Sessions /\ y.recv = "none" /\ y.send = "none"
  BY <1>1, <1>2 DEF SessionSupport, NothingLate
<1>4. /\ y.dead /\ y.refs = 0 /\ y.recv = "none" /\ y.send = "none" /\ ~y.sending /\ ~y.moving
      /\ y.sendQ = <<>> /\ y.jobQ = <<>> /\ y.cur = NoPipe
  <2>1. PICK x : x = Destroyed(y)
    OBVIOUS
  <2>2. /\ x.dead /\ x.refs = 0 /\ x.recv = "none" /\ x.send = "none" /\ ~x.sending /\ ~x.moving
        /\ x.sendQ = <<>> /\ x.jobQ = <<>> /\ x.cur = NoPipe
    BY <1>3, <2>1, DestroyedFields
  <2>3. QED
    BY <1>3, <2>1, <2>2
<1>5. Hands(s) = 0
  BY <1>1, <1>2, <1>4, OpsRange DEF Holds
<1>6. InHand(s) = {} /\ Resuming(s) = {}
  BY <1>1, <1>5 DEF Resuming
<1>7. QED
  BY <1>1, <1>2, <1>4, <1>5, <1>6

LEMMA JoinedSessions ==
  ASSUME CoreInv, NEW s \in Slots, NEW i \in IDs, NEW y, Joined(s, i, y)
  PROVE  SessionInv'
<1>1. /\ SessionInv /\ SessionTypes /\ LeftOnce /\ LeftSupport /\ SignSupport /\ quit = "none"
  BY DEF CoreInv, SessionInv, LanNeverQuits
<1>2. /\ s \in free /\ slotOf[i] = 0 /\ slotOf' = [slotOf EXCEPT ![i] = s] /\ s # 0 /\ i # 0
      /\ sess' = [sess EXCEPT ![s] = y] /\ Holds(y, 0) /\ y.id = i
      /\ (y.dead <=> y.refs = 0)
      /\ (y.dead => s \in free' /\ y = Destroyed(y))
      /\ (~y.dead => s \notin free')
      /\ free' \subseteq Slots /\ UNCHANGED <<isSendIOPending, isLogicMultithreaded, quit, port, worker>>
  BY LanAssumption DEF Joined, accepts, IDs
<1>3. sess[s].dead /\ Hands(s) = 0 /\ Resuming(s) = {}
  BY <1>1, <1>2, FreeFacts
<1>4. slotOf' \in [IDs -> Slots \cup {0}] /\ \A j \in IDs : slotOf[j] # 0 => slotOf'[j] = slotOf[j]
  BY <1>1, <1>2 DEF SessionTypes
<1>5. /\ sess \in [Slots -> Sessions] /\ slotOf \in [IDs -> Slots \cup {0}] /\ port \in Seq(Posts)
      /\ calls \in [IDs -> 0..1]
  BY <1>1 DEF SessionTypes
<1>6. SignSupport'
  BY <1>1, <1>2, <1>4, <1>5 DEF SignSupport, Posts
<1>7. \A t \in Slots : Signs(t)' = Signs(t)
  <2>1. ASSUME NEW k \in DOMAIN port, port[k].key = "sign"
        PROVE  slotOf'[port[k].ids[1]] = slotOf[port[k].ids[1]]
    <3>1. Len(port[k].ids) = 1 /\ slotOf[port[k].ids[1]] # 0 /\ port[k] \in Posts
      BY <1>1, <1>5, <2>1 DEF SignSupport
    <3>2. port[k].ids[1] \in IDs
      BY <3>1 DEF Posts
    <3>3. QED
      BY <1>4, <3>1, <3>2
  <2>2. QED
    BY <1>2, <2>1 DEF Signs
<1>8. \A t \in Slots : InHand(t)' = InHand(t) /\ Resuming(t)' = Resuming(t)
  BY <1>2 DEF InHand, Resuming
<1>9. \A t \in Slots : Hands(t)' = Hands(t)
  BY <1>7, <1>8 DEF Hands
<1>10. PostsFine
  BY <1>1, <1>2, <1>6 DEF PostsFine, SessionInv, SessionTypes, WorkerSupport
<1>11. SlotFine(s, y)
  <2>1. Hands(s)' = 0 /\ Resuming(s)' = {}
    BY <1>3, <1>8, <1>9
  <2>2. slotOf'[i] = s
    BY <1>2, <1>5
  <2>3. Holds(y, Hands(s)')
    BY <1>2, <2>1
  <2>4. QED
    BY <1>2, <2>1, <2>2, <2>3 DEF SlotFine, ResumeFine
<1>12. HandsKept(s)
  BY <1>8, <1>9 DEF HandsKept
<1>13. /\ sess' \in [Slots -> Sessions] /\ LanRefsExact' /\ \A t \in Slots : SessionSupport(t)'
  <2>1. \A t \in Slots : t # s => (t \in free' <=> t \in free)
    BY DEF Joined
  <2>2. QED
    BY <1>1, <1>2, <1>4, <1>10, <1>11, <1>12, <2>1, OneSlot
<1>14. LeftOnce'
  <2>1. ASSUME NEW j \in IDs, slotOf'[j] # 0
        PROVE  calls'[j] + (IF j \in leavePosts' THEN 1 ELSE 0) + (IF Found(j)' THEN 1 ELSE 0) = 1
    <3>1. CASE j = i
      <4>1. Found(i)' <=> ~y.dead
        BY <1>2, <1>5 DEF Found
      <4>2. calls'[i] + (IF i \in leavePosts' THEN 1 ELSE 0) = (IF y.dead THEN 1 ELSE 0)
        BY DEF Joined
      <4>3. QED
        BY <3>1, <4>1, <4>2
    <3>2. CASE j # i
      <4>1. Found(j)' <=> Found(j)
        BY <1>2, <1>3, <1>5, <3>2 DEF Found
      <4>2. calls'[j] = calls[j] /\ (j \in leavePosts' <=> j \in leavePosts) /\ slotOf[j] # 0
        BY <1>2, <1>5, <2>1, <3>2 DEF Joined
      <4>3. calls[j] + (IF j \in leavePosts THEN 1 ELSE 0) + (IF Found(j) THEN 1 ELSE 0) = 1
        BY <1>1, <4>2 DEF LeftOnce
      <4>4. QED
        BY <4>1, <4>2, <4>3
    <3>3. QED
      BY <3>1, <3>2
  <2>2. QED
    BY <2>1 DEF LeftOnce
<1>15. LeftSupport'
  <2>1. ASSUME NEW j \in IDs, slotOf'[j] = 0
        PROVE  calls'[j] = 0 /\ j \notin leavePosts'
    <3>1. j # i /\ slotOf[j] = 0
      BY <1>2, <1>5, <2>1
    <3>2. QED
      BY <1>1, <3>1 DEF LeftSupport, Joined
  <2>2. QED
    BY <2>1 DEF LeftSupport
<1>16. QED
  <2>1. calls' \in [IDs -> 0..1] /\ leavePosts' \subseteq IDs
    BY DEF Joined
  <2>2. QED
    BY <1>1, <1>2, <1>4, <1>10, <1>13, <1>14, <1>15, <2>1 DEF SessionInv, SessionTypes, PostsFine, LanNeverQuits

LEMMA JoinedKeeps ==
  ASSUME CoreInv, NEW s \in Slots, NEW i \in IDs, NEW y, Joined(s, i, y)
  PROVE  CoreInv'
<1>1. /\ SessionInv /\ SessionTypes /\ PlaceInv /\ StopInv /\ PlaceTypes /\ QueuesOnce
  BY DEF CoreInv, SessionInv, PlaceInv
<1>2. /\ s \in free /\ slotOf[i] = 0 /\ slotOf' = [slotOf EXCEPT ![i] = s] /\ s # 0
      /\ sess' = [sess EXCEPT ![s] = y] /\ y.id = i /\ y.cur = NoPipe /\ NoPipe \notin Pipes
      /\ UNCHANGED <<use, userMap, moveInQ, moveOutQ, leaveQ>>
  BY LanAssumption DEF Joined, accepts
<1>3. /\ sess[s].dead /\ ~sess[s].moving /\ sess[s].cur = NoPipe
  BY <1>1, <1>2, FreeFacts
<1>4. /\ sess \in [Slots -> Sessions] /\ slotOf \in [IDs -> Slots \cup {0}]
      /\ sess'[s] = y /\ (\A t \in Slots : t # s => sess'[t] = sess[t])
      /\ slotOf'[i] = s /\ \A j \in IDs : j # i => slotOf'[j] = slotOf[j]
  BY <1>1, <1>2 DEF SessionTypes
\* nobody is anywhere under the new ID, or by the slot's old one
<1>5. ASSUME NEW j \in IDs, NEW p \in Pipes, j = i \/ slotOf[j] = s
      PROVE  /\ ~In(joinQ[p], j) /\ ~In(moveInQ[p], j) /\ ~In(moveOutQ[p], j) /\ ~In(leaveQ[p], j)
             /\ j \notin userMap[p]
  <2>1. UserSupport(j, p)
    BY <1>1 DEF PlaceInv
  <2>2. CASE j = i
    BY <1>2, <2>1, <2>2 DEF UserSupport, Has
  <2>3. CASE slotOf[j] = s
    BY <1>2, <1>3, <2>1, <2>3 DEF UserSupport
  <2>4. QED
    BY <1>5, <2>2, <2>3
\* the queues of joins
<1>6. /\ joinQ' \in [Pipes -> Seq(IDs)] /\ \A p \in Pipes : Once(joinQ'[p])
      /\ \A p \in Pipes : \A j : In(joinQ'[p], j) <=> In(joinQ[p], j) \/ (y.moving /\ j = i /\ p = y.dest)
  <2>1. CASE ~y.moving
    BY <1>1, <2>1 DEF Joined, PlaceTypes, QueuesOnce
  <2>2. CASE y.moving
    <3>1. PICK d \in Pipes : d = y.dest /\ joinQ' = [joinQ EXCEPT ![d] = Append(joinQ[d], i)]
      BY <2>2 DEF Joined
    <3>2. joinQ[d] \in Seq(IDs) /\ Once(joinQ[d]) /\ ~In(joinQ[d], i) /\ joinQ \in [Pipes -> Seq(IDs)]
      BY <1>1, <1>5 DEF PlaceTypes, QueuesOnce
    <3>3. /\ Append(joinQ[d], i) \in Seq(IDs)
          /\ \A j : In(Append(joinQ[d], i), j) <=> In(joinQ[d], j) \/ j = i
          /\ Once(Append(joinQ[d], i))
      BY <3>2, InAppend
    <3>4. QED
      BY <1>1, <2>2, <3>1, <3>2, <3>3 DEF QueuesOnce
  <2>3. QED
    BY <2>1, <2>2
<1>7. PlaceTypes' /\ QueuesOnce'
  BY <1>1, <1>2, <1>6 DEF PlaceTypes, QueuesOnce
<1>8. /\ y.moving => y.dest \in Pipes
      /\ y.dead => ~y.moving
      /\ ~y.moving => use = "send"
  <2>1. y.dead => ~y.moving
    <3>1. PICK d : d = Destroyed(y)
      OBVIOUS
    <3>2. y \in Sessions
      BY DEF Joined, Holds, GoodRecord
    <3>3. ~d.moving
      BY <3>1, <3>2, DestroyedRecord
    <3>4. QED
      BY <3>1, <3>3 DEF Joined
  <2>2. QED
    BY <2>1 DEF Joined
<1>9. ASSUME NEW t \in Slots
      PROVE  PlaceSupport(t)'
  <2>1. CASE t = s
    <3>1. y.moving => In(joinQ'[y.dest], y.id)
      BY <1>2, <1>6, <1>8
    <3>2. QED
      BY <1>2, <1>4, <1>8, <2>1, <3>1 DEF PlaceSupport
  <2>2. CASE t # s
    <3>1. /\ PlaceSupport(t) /\ sess'[t] = sess[t] /\ sess[t].dest \in Pipes \cup {NoPipe}
          /\ sess[t].cur \in Pipes \cup {NoPipe}
      BY <1>1, <1>4, <2>2, UserFacts DEF PlaceInv
    <3>2. sess[t].dest # NoPipe /\ In(joinQ[sess[t].dest], sess[t].id) => In(joinQ'[sess[t].dest], sess[t].id)
      BY <1>6, <3>1
    <3>3. sess[t].dead /\ sess[t].cur # NoPipe => slotOf'[sess[t].id] = t
      <4>1. sess[t].dead /\ sess[t].cur # NoPipe => In(leaveQ[sess[t].cur], sess[t].id) /\ slotOf[sess[t].id] = t
        BY <3>1 DEF PlaceSupport
      <4>2. sess[t].cur \in Pipes => leaveQ[sess[t].cur] \in Seq(IDs)
        BY <1>1 DEF PlaceTypes
      <4>3. sess[t].dead /\ sess[t].cur # NoPipe => sess[t].id \in IDs
        BY <3>1, <4>1, <4>2 DEF In
      <4>4. sess[t].dead /\ sess[t].cur # NoPipe => sess[t].id # i
        BY <1>2, <2>2, <4>1, LanAssumption
      <4>5. QED
        BY <1>4, <4>1, <4>3, <4>4
    <3>4. QED
      BY <1>2, <3>1, <3>2, <3>3 DEF PlaceSupport
  <2>3. QED
    BY <2>1, <2>2
<1>10. ASSUME NEW j \in IDs, NEW p \in Pipes
       PROVE  UserSupport(j, p)'
  <2>1. UserSupport(j, p)
    BY <1>1 DEF PlaceInv
  <2>2. CASE j = i
    <3>1. /\ ~In(moveInQ[p], j) /\ ~In(moveOutQ[p], j) /\ ~In(leaveQ[p], j) /\ j \notin userMap[p]
          /\ (In(joinQ'[p], j) => y.moving /\ p = y.dest)
      BY <1>5, <1>6, <2>2
    <3>2. Has(i)'
      BY <1>2, <1>4 DEF Has
    <3>3. QED
      BY <1>2, <1>4, <2>2, <3>1, <3>2 DEF UserSupport
  <2>3. CASE j # i /\ slotOf[j] = s
    <3>1. /\ ~In(moveInQ[p], j) /\ ~In(moveOutQ[p], j) /\ ~In(leaveQ[p], j) /\ j \notin userMap[p]
          /\ ~In(joinQ'[p], j)
      BY <1>5, <1>6, <2>3
    <3>2. QED
      BY <1>2, <3>1 DEF UserSupport
  <2>4. CASE j # i /\ slotOf[j] # s
    <3>1. /\ (In(joinQ'[p], j) <=> In(joinQ[p], j)) /\ slotOf'[j] = slotOf[j]
          /\ (slotOf[j] # 0 => sess'[slotOf[j]] = sess[slotOf[j]])
      BY <1>4, <1>6, <2>4
    <3>2. Has(j)' <=> Has(j)
      BY <3>1 DEF Has
    <3>3. Has(j) => slotOf[j] # 0
      BY DEF Has
    <3>4. QED
      BY <1>2, <2>1, <3>1, <3>2, <3>3 DEF UserSupport
  <2>5. QED
    BY <2>2, <2>3, <2>4
<1>11. StopInv'
  <2>1. Goes /\ Quiet(y)
    BY <1>1 DEF Joined, Goes, Quiet, Silent, StopInv, StartSupport, accepts
  <2>2. /\ y.dead => y.cur # NoPipe \/ s \in free'
        /\ \A t \in Slots : t # s => (t \in free' <=> t \in free)
        /\ UNCHANGED <<use, main, isRunning, phase>>
        /\ use = "send" => UNCHANGED <<userMap, joinQ, moveInQ, moveOutQ, leaveQ>>
    BY DEF Joined, accepts
  <2>3. QED
    BY <1>1, <1>2, <2>1, <2>2, GoingKeepsStop
<1>12. QED
  BY <1>7, <1>9, <1>10, <1>11, JoinedSessions DEF CoreInv, PlaceInv

\* the session that AllocSession and Initialize make
LEMMA NewSession ==
  ASSUME SessionInv, NEW s \in Slots, s \in free, NEW i \in IDs
  PROVE  LET r == [sess[s] EXCEPT !.id = i, !.refs = 1, !.dead = FALSE, !.canceled = FALSE] IN
         /\ r \in Sessions /\ Holds(r, 1) /\ r.id = i /\ r.cur = NoPipe /\ Silent(r) /\ ~r.dead /\ ~r.moving
         /\ r.recv = "none" /\ r.refs = 1
<1>1. PICK y \in Sessions : y = sess[s]
  BY FreeFacts
<1>2. /\ y.recv = "none" /\ y.send = "none" /\ ~y.moving /\ y.cur = NoPipe /\ y.sendQ = <<>> /\ y.jobQ = <<>>
  BY <1>1, FreeFacts
<1>3. i \in 0..MaxSessions /\ 1 \in Nat
  BY LanAssumption DEF IDs
<1> DEFINE a == [y EXCEPT !.id = i]
<1> DEFINE b == [a EXCEPT !.refs = 1]
<1> DEFINE c == [b EXCEPT !.dead = FALSE]
<1> DEFINE r == [c EXCEPT !.canceled = FALSE]
<1>4. a \in Sessions /\ a.id = i /\ a.recv = "none" /\ a.send = "none" /\ ~a.moving /\ a.cur = NoPipe
      /\ a.sendQ = <<>> /\ a.jobQ = <<>>
  BY <1>2, <1>3 DEF Sessions
<1> HIDE DEF a
<1>5. b \in Sessions /\ b.id = i /\ b.recv = "none" /\ b.send = "none" /\ ~b.moving /\ b.cur = NoPipe
      /\ b.sendQ = <<>> /\ b.jobQ = <<>> /\ b.refs = 1
  BY <1>3, <1>4 DEF Sessions
<1> HIDE DEF b
<1>6. c \in Sessions /\ c.id = i /\ c.recv = "none" /\ c.send = "none" /\ ~c.moving /\ c.cur = NoPipe
      /\ c.sendQ = <<>> /\ c.jobQ = <<>> /\ c.refs = 1 /\ ~c.dead
  BY <1>5 DEF Sessions
<1> HIDE DEF c
<1>7. r \in Sessions /\ r.id = i /\ r.recv = "none" /\ r.send = "none" /\ ~r.moving /\ r.cur = NoPipe
      /\ r.sendQ = <<>> /\ r.jobQ = <<>> /\ r.refs = 1 /\ ~r.dead
  BY <1>6 DEF Sessions
<1>8. [sess[s] EXCEPT !.id = i, !.refs = 1, !.dead = FALSE, !.canceled = FALSE] = r
  BY <1>1 DEF a, b, c
<1> HIDE DEF r
<1>9. GoodRecord(r)
  BY <1>7, LanAssumption DEF GoodRecord
<1>10. Ops(r) = 0
  BY <1>7 DEF Ops, SendHolds
<1>11. Holds(r, 1)
  BY <1>7, <1>9, <1>10 DEF Holds
<1>12. QED
  BY <1>7, <1>8, <1>11 DEF Silent

LEMMA MovedHolds ==
  ASSUME NEW r, NEW n, Holds(r, n), NEW p \in Pipes, ~r.moving
  PROVE  /\ MovedTo(r, p) \in Sessions /\ Holds(MovedTo(r, p), n) /\ MovedTo(r, p).moving /\ MovedTo(r, p).dest = p
         /\ MovedTo(r, p).id = r.id /\ MovedTo(r, p).cur = r.cur /\ MovedTo(r, p).dead = r.dead
         /\ MovedTo(r, p).recv = r.recv /\ MovedTo(r, p).send = r.send /\ MovedTo(r, p).sending = r.sending
         /\ MovedTo(r, p).sendQ = r.sendQ /\ MovedTo(r, p).sentQ = r.sentQ
         /\ MovedTo(r, p).refs = r.refs + 1
<1>1. r \in Sessions /\ r.refs + 1 \in Nat /\ <<>> \in Seq(IDs)
  BY DEF Holds, GoodRecord, Sessions
<1>2. PICK k \in Nat : k = r.refs + 1
  BY <1>1
<1> DEFINE a == [r EXCEPT !.refs = k]
<1> DEFINE b == [a EXCEPT !.moving = TRUE]
<1> DEFINE c == [b EXCEPT !.jobQ = <<>>]
<1> DEFINE x == [c EXCEPT !.dest = p]
<1>3. /\ a \in Sessions /\ a.refs = k /\ a.id = r.id /\ a.cur = r.cur /\ a.dead = r.dead /\ a.recv = r.recv
      /\ a.send = r.send /\ a.sending = r.sending /\ a.sendQ = r.sendQ /\ a.sentQ = r.sentQ /\ a.canceled = r.canceled
  BY <1>1 DEF Sessions
<1> HIDE DEF a
<1>4. /\ b \in Sessions /\ b.refs = k /\ b.id = r.id /\ b.cur = r.cur /\ b.dead = r.dead /\ b.recv = r.recv
      /\ b.send = r.send /\ b.sending = r.sending /\ b.sendQ = r.sendQ /\ b.sentQ = r.sentQ /\ b.canceled = r.canceled
      /\ b.moving
  BY <1>3 DEF Sessions
<1> HIDE DEF b
<1>5. /\ c \in Sessions /\ c.refs = k /\ c.id = r.id /\ c.cur = r.cur /\ c.dead = r.dead /\ c.recv = r.recv
      /\ c.send = r.send /\ c.sending = r.sending /\ c.sendQ = r.sendQ /\ c.sentQ = r.sentQ /\ c.canceled = r.canceled
      /\ c.moving /\ c.jobQ = <<>>
  BY <1>1, <1>4 DEF Sessions
<1> HIDE DEF c
<1>6. /\ x \in Sessions /\ x.refs = k /\ x.id = r.id /\ x.cur = r.cur /\ x.dead = r.dead /\ x.recv = r.recv
      /\ x.send = r.send /\ x.sending = r.sending /\ x.sendQ = r.sendQ /\ x.sentQ = r.sentQ /\ x.canceled = r.canceled
      /\ x.moving /\ x.jobQ = <<>> /\ x.dest = p
  BY <1>5 DEF Sessions
<1>7. MovedTo(r, p) = x
  BY <1>2 DEF MovedTo, a, b, c
<1> HIDE DEF x
<1>8. GoodRecord(x)
  BY <1>6, LanAssumption DEF Holds, GoodRecord
<1>9. Ops(x) = Ops(r) + 1 /\ Ops(r) \in Nat
  BY <1>1, <1>6, OpsRange DEF Ops, SendHolds
<1>10. Holds(x, n)
  BY <1>2, <1>6, <1>8, <1>9 DEF Holds
<1>11. QED
  BY <1>2, <1>6, <1>7, <1>10

LEMMA AcceptKeeps ==
  ASSUME CoreInv, NEW s \in Slots, NEW i \in IDs, Accept(s, i)
  PROVE  CoreInv'
<1> DEFINE r == [sess[s] EXCEPT !.id = i, !.refs = 1, !.dead = FALSE, !.canceled = FALSE]
<1>1. /\ main = "running" /\ s \in free /\ slotOf[i] = 0 /\ slotOf' = [slotOf EXCEPT ![i] = s]
      /\ UNCHANGED <<isSendIOPending, isLogicMultithreaded, use, main, isRunning, userMap, moveInQ, moveOutQ,
                     phase, port, worker>>
      /\ \/ /\ use = "pipe"
            /\ \E c \in Codes : \E p \in FindPipe(c) : \E r2 \in RecvPosted(MovedTo(r, p)) :
                 /\ sess' = [sess EXCEPT ![s] = r2]
                 /\ joinQ' = [joinQ EXCEPT ![p] = Append(@, i)]
                 /\ free' = free \ {s}
                 /\ UNCHANGED <<quit, refCnt, leftVars, leaveQ>>
         \/ /\ use # "pipe"
            /\ \E r2 \in RecvPosted(r) :
                 /\ UNCHANGED joinQ
                 /\ IF r2.refs > 0
                    THEN /\ sess' = [sess EXCEPT ![s] = r2] /\ free' = free \ {s}
                         /\ UNCHANGED <<quit, refCnt, leftVars, leaveQ>>
                    ELSE Leave(s, r2, refCnt)
  BY DEF Accept, params, mainVars
<1>2. /\ SessionInv /\ use \in {"send", "pipe"} /\ free \subseteq Slots /\ calls \in [IDs -> 0..1] /\ leavePosts \subseteq IDs
      /\ calls[i] = 0 /\ i \notin leavePosts
  BY <1>1 DEF CoreInv, SessionInv, SessionTypes, LeftSupport, PlaceInv, PlaceTypes
<1>3. /\ r \in Sessions /\ Holds(r, 1) /\ r.id = i /\ r.cur = NoPipe /\ Silent(r) /\ ~r.dead /\ ~r.moving
      /\ r.recv = "none" /\ r.refs = 1
  BY <1>1, <1>2, NewSession, ZenonT(40), ZenonT(40)
<1> HIDE DEF r
<1>4. CASE /\ use = "pipe"
           /\ \E c \in Codes : \E p \in FindPipe(c) : \E r2 \in RecvPosted(MovedTo(r, p)) :
                 /\ sess' = [sess EXCEPT ![s] = r2]
                 /\ joinQ' = [joinQ EXCEPT ![p] = Append(@, i)]
                 /\ free' = free \ {s}
                 /\ UNCHANGED <<quit, refCnt, leftVars, leaveQ>>
  <2>1. PICK p, y :
                 /\ p \in Pipes
                 /\ y \in RecvPosted(MovedTo(r, p))
                 /\ sess' = [sess EXCEPT ![s] = y]
                 /\ joinQ' = [joinQ EXCEPT ![p] = Append(@, i)]
                 /\ free' = free \ {s}
                 /\ UNCHANGED <<quit, calls, leavePosts, leaveQ>>
    BY <1>4 DEF FindPipe, leftVars
  <2> DEFINE m == MovedTo(r, p)
  <2>2. /\ Holds(m, 1) /\ m.moving /\ m.dest = p /\ m.id = i /\ m.cur = NoPipe /\ ~m.dead /\ m.recv = "none"
        /\ Silent(m)
    BY <1>3, <2>1, MovedHolds DEF Silent
  <2> HIDE DEF m
  <2>3. Holds(y, 0) /\ Same(y, m) /\ (Silent(m) => Silent(y))
    <3>1. Holds(m, 0 + 1) /\ y \in RecvPosted(m)
      BY <2>1, <2>2 DEF m
    <3>2. QED
      BY <2>2, <3>1, RecvPostedHolds
  <2>4. y.refs # 0 /\ ~y.dead /\ y.id = i /\ y.cur = NoPipe /\ y.moving /\ y.dest = p /\ Silent(y)
    <3>1. y.moving /\ y \in Sessions /\ y.refs = Ops(y) + 0
      BY <2>2, <2>3 DEF Same, Holds, GoodRecord
    <3>2. Ops(y) # 0
      BY <3>1 DEF Ops, SendHolds
    <3>3. QED
      BY <2>2, <2>3, <3>1, <3>2, OpsRange DEF Same
  <2>5. Joined(s, i, y)
    <3>1. UNCHANGED accepts /\ free' \subseteq Slots /\ s \notin free'
          /\ \A t \in Slots : t # s => (t \in free' <=> t \in free)
      BY <1>1, <1>2, <2>1 DEF accepts
    <3>2. calls'[i] + (IF i \in leavePosts' THEN 1 ELSE 0) = (IF y.dead THEN 1 ELSE 0)
      BY <1>2, <2>1, <2>4
    <3>3. /\ calls' \in [IDs -> 0..1] /\ leavePosts' \subseteq IDs
          /\ \A j \in IDs : j # i => calls'[j] = calls[j] /\ (j \in leavePosts' <=> j \in leavePosts)
      BY <1>2, <2>1
    <3>4. joinQ' = [joinQ EXCEPT ![y.dest] = Append(@, i)]
      BY <2>1, <2>4
    <3>5. sess' = [sess EXCEPT ![s] = y]
      BY <2>1
    <3>6. QED
      BY <1>1, <1>4, <2>1, <2>3, <2>4, <3>1, <3>2, <3>3, <3>4, <3>5 DEF Joined
  <2>6. QED
    BY <2>5, JoinedKeeps
<1>5. CASE /\ use # "pipe"
            /\ \E r2 \in RecvPosted(r) :
                 /\ UNCHANGED joinQ
                 /\ IF r2.refs > 0
                    THEN /\ sess' = [sess EXCEPT ![s] = r2] /\ free' = free \ {s}
                         /\ UNCHANGED <<quit, refCnt, leftVars, leaveQ>>
                    ELSE Leave(s, r2, refCnt)
  <2>1. PICK y \in RecvPosted(r) :
                 /\ UNCHANGED joinQ
                 /\ IF y.refs > 0
                    THEN /\ sess' = [sess EXCEPT ![s] = y] /\ free' = free \ {s}
                         /\ UNCHANGED <<quit, refCnt, leftVars, leaveQ>>
                    ELSE Leave(s, y, refCnt)
    BY <1>5
  <2>2. Holds(y, 0) /\ Same(y, r) /\ (Silent(r) => Silent(y))
    <3>1. Holds(r, 0 + 1)
      BY <1>3
    <3>2. QED
      BY <1>3, <2>1, <3>1, RecvPostedHolds
  <2>3. ~y.dead /\ y.id = i /\ y.cur = NoPipe /\ ~y.moving /\ Silent(y) /\ y \in Sessions /\ y.refs \in Nat
    BY <1>3, <2>2 DEF Same, Holds, GoodRecord, Sessions
  <2>4. CASE y.refs > 0
    <3>1. Joined(s, i, y)
      BY <1>1, <1>2, <1>5, <2>1, <2>2, <2>3, <2>4 DEF Joined, accepts, leftVars
    <3>2. QED
      BY <3>1, JoinedKeeps
  <2>5. CASE ~(y.refs > 0)
    <3> DEFINE d == Destroyed(y)
    <3>0. y.recv = "none" /\ y.send = "none"
      <4>1. y.refs = 0 /\ y.refs = Ops(y)
        BY <2>2, <2>3, <2>5, OpsRange DEF Holds
      <4>2. QED
        BY <2>3, <4>1 DEF Ops, SendHolds, Sessions
    <3>1. /\ d \in Sessions /\ d.id = i /\ d.dead /\ d.refs = 0 /\ d.send = "none" /\ ~d.moving
          /\ d.sendQ = <<>> /\ d.cur = NoPipe /\ Destroyed(d) = d /\ Holds(d, 0)
      BY <2>3, <3>0, DestroyedFields
    <3> HIDE DEF d
    <3>2. /\ UNCHANGED quit
          /\ \/ leavePosts' = leavePosts \cup {i} /\ UNCHANGED calls
             \/ calls' = [calls EXCEPT ![i] = @ + 1] /\ UNCHANGED leavePosts
          /\ sess' = [sess EXCEPT ![s] = d] /\ free' = free \cup {s} /\ UNCHANGED <<leaveQ, joinQ>>
      <4>1. ~(y.refs < 0) /\ Leave(s, y, refCnt)
        BY <2>1, <2>3, <2>5
      <4>2. QED
        BY <2>1, <2>3, <2>5, <4>1 DEF Leave, d
    <3>3. calls' \in [IDs -> 0..1] /\ leavePosts' \subseteq IDs
          /\ calls'[i] + (IF i \in leavePosts' THEN 1 ELSE 0) = 1
          /\ \A j \in IDs : j # i => calls'[j] = calls[j] /\ (j \in leavePosts' <=> j \in leavePosts)
      BY <1>2, <3>2
    <3>4. Joined(s, i, d)
      BY <1>1, <1>2, <1>5, <3>1, <3>2, <3>3 DEF Joined, accepts, Silent
    <3>5. QED
      BY <3>4, JoinedKeeps
  <2>6. QED
    BY <2>4, <2>5
<1>6. QED
  BY <1>1, <1>4, <1>5

-----------------------------------------------------------------------------
(* Pipes: phases.                                                          *)

\* what a phase that ends leaves alone
phaseRest == <<sess, slotOf, free, isSendIOPending, isLogicMultithreaded, quit, use, main, isRunning, port, worker,
               calls, leavePosts, userMap, joinQ, moveInQ, moveOutQ, leaveQ>>

LEMMA NextPhaseKeeps ==
  ASSUME CoreInv, use = "pipe", NEW p \in Pipes, NextPhase(p), phase[p] \notin {"none", "ended"},
         phase[p] = "last leave" => leaveQ[p] = <<>>, UNCHANGED phaseRest
  PROVE  CoreInv'
<1>1. /\ StopInv /\ StopTypes /\ StartSupport /\ StopSupport
      /\ phase' = [phase EXCEPT ![p] = After(phase[p])]
      /\ UNCHANGED <<sess, slotOf, free, isSendIOPending, isLogicMultithreaded, quit, use, main, isRunning, port, worker,
                     calls, leavePosts, userMap, joinQ, moveInQ, moveOutQ, leaveQ>>
  BY DEF CoreInv, StopInv, NextPhase, phaseRest
<1>2. PICK v : v = After(phase[p])
  OBVIOUS
<1>3. phase \in [Pipes -> Phases] /\ phase[p] \in Phases
  BY <1>1 DEF StopTypes
<1>4. /\ v \in Phases
      /\ isRunning => v \in {"join", "in", "out", "leave", "message"}
      /\ v = "ended" => ~isRunning /\ leaveQ[p] = <<>>
  <2>1. isRunning => phase[p] \in {"none", "join", "in", "out", "leave", "message"}
    BY <1>1 DEF StartSupport
  <2>2. CASE phase[p] \in {"join", "in", "out", "leave", "message"}
    BY <1>2, <2>2 DEF After, Phases
  <2>3. CASE phase[p] \in {"last in", "last out", "last leave"}
    BY <1>2, <2>1, <2>3 DEF After, Phases
  <2>4. QED
    BY <1>3, <2>2, <2>3 DEF Phases
<1>5. phase'[p] = v /\ \A q \in Pipes : q # p => phase'[q] = phase[q]
  BY <1>1, <1>2, <1>3
<1>6. Begun /\ main # "stopped"
  BY <1>1 DEF StartSupport, StopSupport
<1>7. StopTypes'
  BY <1>1, <1>2, <1>3, <1>4 DEF StopTypes
<1>8. StartSupport'
  <2>1. Begun'
    BY <1>1, <1>6 DEF Begun
  <2>2. isRunning' => \A q \in Pipes : phase'[q] \in {"none", "join", "in", "out", "leave", "message"}
    BY <1>1, <1>4, <1>5 DEF StartSupport
  <2>3. QED
    BY <1>1, <1>6, <2>1, <2>2 DEF StartSupport
<1>9. StopSupport'
  <2>1. \A q \in Pipes : phase'[q] = "ended" => ~isRunning' /\ leaveQ'[q] = <<>>
    BY <1>1, <1>4, <1>5 DEF StopSupport
  <2>2. main' # "stopped"
    BY <1>1, <1>6
  <2>3. QED
    BY <1>1, <2>1, <2>2 DEF StopSupport
<1>10. StopInv'
  BY <1>7, <1>8, <1>9 DEF StopInv
<1>11. QED
  BY <1>1, <1>10, MainStep

LEMMA EndFrameKeeps ==
  ASSUME CoreInv, use = "pipe", NEW p \in Pipes, EndFrame(p)
  PROVE  CoreInv'
<1>1. phase[p] = "message" /\ NextPhase(p) /\ UNCHANGED phaseRest
  BY DEF EndFrame, phaseRest, pipeRest, pipeQs, params, mainVars, leftVars
<1>2. QED
  BY <1>1, NextPhaseKeeps

-----------------------------------------------------------------------------
(* Pipes: a user arrives.                                                  *)

LEMMA EnteredHolds ==
  ASSUME NEW r, NEW n, Holds(r, n), n \in Nat, r.moving
  PROVE  /\ Holds(Entered(r), n) /\ Entered(r) \in Sessions /\ Entered(r).id = r.id /\ Entered(r).dead = r.dead
         /\ Entered(r).cur = r.dest /\ Entered(r).dest = NoPipe /\ ~Entered(r).moving
         /\ Entered(r).recv = r.recv /\ Entered(r).send = r.send /\ Entered(r).sending = r.sending
         /\ Entered(r).sendQ = r.sendQ /\ Entered(r).sentQ = r.sentQ
<1>1. r \in Sessions /\ r.dest \in Pipes \cup {NoPipe} /\ r.refs \in Nat
  BY DEF Holds, GoodRecord, Sessions
<1> DEFINE a == [r EXCEPT !.cur = r.dest]
<1> DEFINE b == [a EXCEPT !.dest = NoPipe]
<1> DEFINE c == [b EXCEPT !.moving = FALSE]
<1>2. /\ a \in Sessions /\ a.refs = r.refs /\ a.id = r.id /\ a.cur = r.dest /\ a.dead = r.dead /\ a.recv = r.recv
      /\ a.send = r.send /\ a.sending = r.sending /\ a.sendQ = r.sendQ /\ a.sentQ = r.sentQ
      /\ a.canceled = r.canceled /\ a.moving = r.moving /\ a.jobQ = r.jobQ
  BY <1>1 DEF Sessions
<1> HIDE DEF a
<1>3. /\ b \in Sessions /\ b.refs = r.refs /\ b.id = r.id /\ b.cur = r.dest /\ b.dead = r.dead /\ b.recv = r.recv
      /\ b.send = r.send /\ b.sending = r.sending /\ b.sendQ = r.sendQ /\ b.sentQ = r.sentQ
      /\ b.canceled = r.canceled /\ b.dest = NoPipe /\ b.jobQ = r.jobQ
  BY <1>2 DEF Sessions
<1> HIDE DEF b
<1>4. /\ c \in Sessions /\ c.refs = r.refs /\ c.id = r.id /\ c.cur = r.dest /\ c.dead = r.dead /\ c.recv = r.recv
      /\ c.send = r.send /\ c.sending = r.sending /\ c.sendQ = r.sendQ /\ c.sentQ = r.sentQ
      /\ c.canceled = r.canceled /\ c.dest = NoPipe /\ c.jobQ = r.jobQ /\ ~c.moving
  BY <1>3 DEF Sessions
<1>5. Entered(r) = Drop(c, 1)
  BY DEF Entered, a, b, c
<1> HIDE DEF c
<1>6. GoodRecord(c)
  BY <1>4 DEF Holds, GoodRecord
<1>7. Ops(r) = Ops(c) + 1 /\ Ops(c) \in Nat
  BY <1>1, <1>4, OpsRange DEF Ops, SendHolds
<1>8. Holds(c, n + 1)
  BY <1>4, <1>6, <1>7 DEF Holds
<1>9. Holds(Drop(c, 1), n) /\ Kept(Drop(c, 1), c)
  BY <1>8, DropKeeps
<1>10. /\ Drop(c, 1).recv = c.recv /\ Drop(c, 1).send = c.send /\ Drop(c, 1) \in Sessions
  <2>1. PICK m \in Nat : m = 1
    OBVIOUS
  <2>2. Holds(c, n + m)
    BY <1>8, <2>1
  <2>3. Drop(c, m).recv = c.recv /\ Drop(c, m).send = c.send
    BY <2>2, DropHolds
  <2>4. QED
    BY <1>9, <2>1, <2>3 DEF Holds, GoodRecord
<1>11. QED
  BY <1>4, <1>5, <1>9, <1>10 DEF Kept, Same

\* User i, of slot s, is come to pipe p, with record y.
Arrived(s, i, p, y) ==
  /\ slotOf[i] = s /\ sess[s].id = i /\ sess[s].moving /\ sess[s].dest = p
  /\ \A q \in Pipes : i \notin userMap[q]
  /\ sess' = [sess EXCEPT ![s] = y] /\ y.id = i /\ y.cur = p /\ ~y.moving
  /\ UNCHANGED <<slotOf, use, moveOutQ>> /\ userMap' = [userMap EXCEPT ![p] = @ \cup {i}]
  /\ PlaceTypes' /\ QueuesOnce'
  /\ \A q \in Pipes : \A j : /\ In(joinQ'[q], j) <=> In(joinQ[q], j) /\ j # i
                             /\ In(moveInQ'[q], j) <=> In(moveInQ[q], j) /\ j # i
                             /\ In(leaveQ'[q], j) <=> In(leaveQ[q], j) \/ (y.dead /\ j = i /\ q = p)

LEMMA PlacesArrived ==
  ASSUME SessionInv, PlaceInv, NEW s \in Slots, NEW i \in IDs, NEW p \in Pipes, NEW y, Arrived(s, i, p, y)
  PROVE  PlaceInv'
<1> USE DEF Arrived
<1>1. /\ SessionTypes /\ PlaceTypes /\ ~sess[s].dead /\ NoPipe \notin Pipes /\ s # 0
      /\ \A q \in Pipes : UserSupport(i, q)
  BY UnderWay, LanAssumption DEF SessionInv, PlaceInv
<1>2. /\ sess'[s] = y /\ \A t \in Slots : t # s => sess'[t] = sess[t]
  BY <1>1 DEF SessionTypes
<1>3. \A q \in Pipes : ~In(moveOutQ[q], i) /\ ~In(leaveQ[q], i)
  BY <1>1 DEF UserSupport
<1>4. \A q \in Pipes : \A j \in IDs : j \in userMap'[q] <=> j \in userMap[q] \/ (q = p /\ j = i)
  BY <1>1 DEF PlaceTypes
<1>5. ASSUME NEW t \in Slots
      PROVE  PlaceSupport(t)'
  <2>1. PlaceSupport(t) /\ sess[t].cur \in Pipes \cup {NoPipe} /\ sess[t].dest \in Pipes \cup {NoPipe}
        /\ (~sess[t].dead => sess[t].id \in IDs /\ slotOf[sess[t].id] = t)
    BY UserFacts DEF PlaceInv
  <2>2. CASE t = s
    <3>1. i \in userMap'[p]
      BY <1>4
    <3>2. y.dead => In(leaveQ'[p], i)
      OBVIOUS
    <3>3. QED
      BY <1>1, <1>2, <2>2, <3>1, <3>2 DEF PlaceSupport
  <2>3. CASE t # s
    <3>1. sess'[t] = sess[t]
      BY <1>2, <2>3
    <3>2. sess[t].moving => ~sess[t].dead
      BY UnderWay
    <3>3. sess[t].moving => sess[t].id # i
      BY <2>1, <2>3, <3>2
    <3>4. sess[t].cur # NoPipe /\ sess[t].id \in userMap[sess[t].cur] => sess[t].id \in userMap'[sess[t].cur]
      BY <1>1, <1>4, <2>1 DEF PlaceTypes
    <3>5. /\ sess[t].moving /\ sess[t].dest # NoPipe /\ In(joinQ[sess[t].dest], sess[t].id)
                => In(joinQ'[sess[t].dest], sess[t].id)
          /\ sess[t].moving /\ sess[t].dest # NoPipe /\ In(moveInQ[sess[t].dest], sess[t].id)
                => In(moveInQ'[sess[t].dest], sess[t].id)
          /\ sess[t].cur # NoPipe /\ In(leaveQ[sess[t].cur], sess[t].id) => In(leaveQ'[sess[t].cur], sess[t].id)
      BY <2>1, <3>3
    <3>6. QED
      BY <2>1, <3>1, <3>4, <3>5 DEF PlaceSupport
  <2>4. QED
    BY <2>2, <2>3
<1>6. ASSUME NEW j \in IDs, NEW q \in Pipes
      PROVE  UserSupport(j, q)'
  <2>1. UserSupport(j, q)
    BY DEF PlaceInv
  <2>2. CASE j = i
    <3>1. /\ ~In(joinQ'[q], j) /\ ~In(moveInQ'[q], j) /\ ~In(moveOutQ'[q], j)
          /\ (In(leaveQ'[q], j) => y.dead /\ q = p) /\ (j \in userMap'[q] <=> q = p)
      BY <1>3, <1>4, <2>2
    <3>2. Has(j)' /\ slotOf'[j] = s
      BY <1>1, <1>2, <2>2 DEF Has
    <3>3. QED
      BY <1>2, <3>1, <3>2 DEF UserSupport
  <2>3. CASE j # i
    <3>1. /\ In(joinQ'[q], j) <=> In(joinQ[q], j)
          /\ In(moveInQ'[q], j) <=> In(moveInQ[q], j)
          /\ In(leaveQ'[q], j) <=> In(leaveQ[q], j)
          /\ moveOutQ' = moveOutQ
          /\ \A d \in Pipes : j \in userMap'[d] <=> j \in userMap[d]
      BY <1>4, <2>3
    <3>2. CASE slotOf[j] = s
      <4>1. ~Has(j) /\ ~Has(j)'
        BY <1>2, <2>3, <3>2 DEF Has
      <4>2. QED
        BY <2>1, <3>1, <4>1 DEF UserSupport
    <3>3. CASE slotOf[j] # s
      <4>1. Has(j)' <=> Has(j)
        BY <1>1, <1>2, <3>3 DEF Has, SessionTypes
      <4>2. Has(j) => sess'[slotOf[j]] = sess[slotOf[j]] /\ sess[slotOf[j]].cur \in Pipes \cup {NoPipe}
        BY <1>1, <1>2, <3>3, UserFacts DEF Has, SessionTypes
      <4>3. QED
        BY <2>1, <3>1, <4>1, <4>2 DEF UserSupport
    <3>4. QED
      BY <3>2, <3>3
  <2>4. QED
    BY <2>2, <2>3
<1>7. QED
  BY <1>5, <1>6 DEF PlaceInv

\* User i, on the way to pipe p, is taken from the queue by AfterPipeEnter.
LEMMA ArrivedKeeps ==
  ASSUME CoreInv, use = "pipe", NEW i \in IDs, NEW p \in Pipes, Has(i), sess[slotOf[i]].moving,
         sess[slotOf[i]].dest = p, \A q \in Pipes : i \notin userMap[q],
         AfterPipeEnter(p, i), userMap' = [userMap EXCEPT ![p] = @ \cup {i}],
         UNCHANGED <<pipeRest, phase, moveOutQ>>,
         joinQ' \in [Pipes -> Seq(IDs)], moveInQ' \in [Pipes -> Seq(IDs)],
         \A q \in Pipes : Once(joinQ'[q]) /\ Once(moveInQ'[q]),
         \A q \in Pipes : \A j : /\ In(joinQ'[q], j) <=> In(joinQ[q], j) /\ j # i
                                 /\ In(moveInQ'[q], j) <=> In(moveInQ[q], j) /\ j # i
  PROVE  CoreInv'
<1>1. /\ SessionInv /\ SessionTypes /\ PlaceInv /\ StopInv /\ PlaceTypes /\ QueuesOnce /\ NoPipe \notin Pipes
      /\ UNCHANGED <<isSendIOPending, isLogicMultithreaded, use, main, isRunning, slotOf, port, worker, phase, moveOutQ>>
  BY LanAssumption DEF CoreInv, SessionInv, PlaceInv, pipeRest, params, mainVars
<1>2. PICK s \in Slots : s = slotOf[i]
  BY <1>1 DEF Has, SessionTypes
<1> DEFINE x == Entered(sess[s])
<1>3. Leave(s, x, refCnt) /\ sess[s].moving /\ sess[s].id = i /\ sess[s].dest = p
  BY <1>2 DEF AfterPipeEnter, Has
<1>4. /\ ~sess[s].dead /\ Holds(sess[s], Hands(s)) /\ Hands(s) \in Nat /\ SessionSupport(s)
      /\ Goes
  <2>1. ~sess[s].dead /\ Holds(sess[s], Hands(s)) /\ Hands(s) \in Nat /\ SessionSupport(s)
    BY <1>1, <1>3, UnderWay, SlotFacts
  <2>2. QED
    BY <2>1, MustGo
<1>5. /\ Holds(x, Hands(s)) /\ x \in Sessions /\ x.id = i /\ ~x.dead /\ x.cur = p /\ ~x.moving
      /\ x.send = sess[s].send /\ x.sending = sess[s].sending /\ x.sendQ = sess[s].sendQ /\ x.refs \in Nat
  BY <1>3, <1>4, EnteredHolds DEF Sessions
<1> HIDE DEF x
<1>6. /\ PostsFine /\ \A t : Hands(t)' = Hands(t) /\ Resuming(t)' = Resuming(t)
  BY <1>1, HandsSame
<1>7. ResumeFine(s, x)
  BY <1>1, <1>5, <1>6, ResumeKept
<1>8. Handled(s, x, refCnt)
  <2>1. Hands(s)' = Hands(s) /\ HandsKept(s)
    BY <1>6 DEF HandsKept
  <2>2. Holds(x, Hands(s)')
    BY <1>5, <2>1
  <2>3. QED
    BY <1>1, <1>3, <1>4, <1>5, <1>6, <1>7, <2>1, <2>2 DEF Handled
<1>9. SessionInv'
  BY <1>1, <1>8, HandledKeepsSessions
<1>10. Quiet(x)
  BY <1>1, <1>5 DEF Quiet, StopInv, StartSupport
<1>11. ASSUME NEW y, sess' = [sess EXCEPT ![s] = y], y.id = i, y.cur = p, ~y.moving, Quiet(y), free' = free,
              leaveQ' \in [Pipes -> Seq(IDs)], \A q \in Pipes : Once(leaveQ'[q]),
              \A q \in Pipes : \A j : In(leaveQ'[q], j) <=> In(leaveQ[q], j) \/ (y.dead /\ j = i /\ q = p)
       PROVE  CoreInv'
  <2>1. PlaceTypes' /\ QueuesOnce'
    BY <1>1, <1>11 DEF PlaceTypes, QueuesOnce
  <2>2. PlaceInv'
    <3>1. /\ slotOf[i] = s /\ UNCHANGED <<slotOf, use, moveOutQ>>
          /\ \A q \in Pipes : \A j : /\ In(joinQ'[q], j) <=> In(joinQ[q], j) /\ j # i
                                     /\ In(moveInQ'[q], j) <=> In(moveInQ[q], j) /\ j # i
                                     /\ In(leaveQ'[q], j) <=> In(leaveQ[q], j) \/ (y.dead /\ j = i /\ q = p)
      BY <1>1, <1>2, <1>11
    <3>2. Arrived(s, i, p, y)
      BY <1>3, <1>11, <2>1, <3>1 DEF Arrived
    <3>3. QED
      BY <1>1, <3>2, PlacesArrived
  <2>3. StopInv'
    BY <1>1, <1>4, <1>11, GoingKeepsStop
  <2>4. QED
    BY <1>9, <2>2, <2>3 DEF CoreInv
<1>12. CASE x.refs > 0
  <2>1. ~(x.refs < 0)
    BY <1>5
  <2>2. sess' = [sess EXCEPT ![s] = x] /\ free' = free /\ leaveQ' = leaveQ
    BY <1>3, <1>12, <2>1 DEF Leave
  <2>3. leaveQ' \in [Pipes -> Seq(IDs)] /\ \A q \in Pipes : Once(leaveQ'[q])
    BY <1>1, <2>2 DEF PlaceTypes, QueuesOnce
  <2>4. \A q \in Pipes : \A j : In(leaveQ'[q], j) <=> In(leaveQ[q], j) \/ (x.dead /\ j = i /\ q = p)
    BY <1>5, <2>2
  <2>5. QED
    BY <1>5, <1>10, <1>11, <2>2, <2>3, <2>4
<1>13. CASE x.refs = 0
  <2>1. ~(x.refs < 0) /\ ~(x.refs > 0) /\ p # NoPipe
    BY <1>1, <1>13
  <2> DEFINE y == [x EXCEPT !.dead = TRUE]
  <2>2. leaveQ' = [leaveQ EXCEPT ![p] = Append(leaveQ[p], i)] /\ sess' = [sess EXCEPT ![s] = y] /\ free' = free
    BY <1>3, <1>5, <2>1 DEF Leave
  <2>3. y.id = i /\ y.cur = p /\ ~y.moving /\ y.dead /\ y.sendQ = x.sendQ /\ y.send = x.send
    BY <1>5 DEF Sessions
  <2> HIDE DEF y
  <2>4. Quiet(y)
    BY <1>10, <2>3 DEF Quiet
  <2>5. leaveQ \in [Pipes -> Seq(IDs)] /\ Once(leaveQ[p]) /\ leaveQ[p] \in Seq(IDs) /\ ~In(leaveQ[p], i)
    <3>1. UserSupport(i, p)
      BY <1>1 DEF PlaceInv
    <3>2. QED
      BY <1>1, <3>1 DEF PlaceTypes, QueuesOnce, UserSupport
  <2>6. /\ Append(leaveQ[p], i) \in Seq(IDs)
        /\ \A j : In(Append(leaveQ[p], i), j) <=> In(leaveQ[p], j) \/ j = i
        /\ Once(Append(leaveQ[p], i))
    BY <2>5, InAppend
  <2>7. /\ \A q \in Pipes : \A j : In(leaveQ'[q], j) <=> In(leaveQ[q], j) \/ (y.dead /\ j = i /\ q = p)
        /\ leaveQ' \in [Pipes -> Seq(IDs)]
    BY <2>2, <2>3, <2>5, <2>6
  <2>8. \A q \in Pipes : Once(leaveQ'[q])
    BY <1>1, <2>2, <2>5, <2>6 DEF QueuesOnce
  <2>9. QED
    BY <1>11, <2>2, <2>3, <2>4, <2>7, <2>8
<1>14. QED
  BY <1>5, <1>12, <1>13

\* a queue of pipe p loses its first entry, i
Queues(Q) == Q \in [Pipes -> Seq(IDs)] /\ \A q \in Pipes : Once(Q[q])
Popped(R, Q, p, i) ==
  /\ Queues(R) /\ i \in IDs /\ In(Q[p], i)
  /\ \A q \in Pipes : \A j : In(R[q], j) <=> In(Q[q], j) /\ ~(q = p /\ j = i)

LEMMA QueueTail ==
  ASSUME NEW Q, Queues(Q), NEW p \in Pipes, Q[p] # <<>>, NEW R, R = [Q EXCEPT ![p] = Tail(@)]
  PROVE  Popped(R, Q, p, Head(Q[p]))
<1>1. /\ Q[p] \in Seq(IDs) /\ Once(Q[p]) /\ Q \in [Pipes -> Seq(IDs)]
      /\ \A q \in Pipes : Once(Q[q])
  BY DEF Queues
<1>2. /\ Tail(Q[p]) \in Seq(IDs) /\ Head(Q[p]) \in IDs /\ In(Q[p], Head(Q[p]))
      /\ \A j : In(Tail(Q[p]), j) <=> In(Q[p], j) /\ j # Head(Q[p])
      /\ Once(Tail(Q[p]))
  BY <1>1, InTail
<1>3. R[p] = Tail(Q[p]) /\ \A q \in Pipes : q # p => R[q] = Q[q]
  BY <1>1
<1>4. R \in [Pipes -> Seq(IDs)]
  BY <1>1, <1>2
<1>5. \A q \in Pipes : Once(R[q])
  BY <1>1, <1>2, <1>3
<1>6. QED
  BY <1>2, <1>3, <1>4, <1>5 DEF Popped, Queues

LEMMA JoinKeeps ==
  ASSUME CoreInv, use = "pipe", NEW p \in Pipes, Join(p)
  PROVE  CoreInv'
<1>1. CASE joinQ[p] = <<>>
  <2>1. phase[p] = "join" /\ NextPhase(p) /\ UNCHANGED phaseRest
    BY <1>1 DEF Join, phaseRest, pipeRest, pipeQs, params, mainVars, leftVars
  <2>2. QED
    BY <2>1, NextPhaseKeeps
<1>2. CASE joinQ[p] # <<>>
  <2>1. PICK i : i = Head(joinQ[p])
    OBVIOUS
  <2>2. /\ joinQ' = [joinQ EXCEPT ![p] = Tail(@)] /\ userMap' = [userMap EXCEPT ![p] = @ \cup {i}]
        /\ AfterPipeEnter(p, i) /\ UNCHANGED <<pipeRest, phase, moveInQ, moveOutQ>>
    BY <1>2, <2>1 DEF Join
  <2>3. /\ PlaceInv /\ NoPipe \notin Pipes /\ moveInQ \in [Pipes -> Seq(IDs)] /\ joinQ \in [Pipes -> Seq(IDs)]
        /\ \A q \in Pipes : Once(joinQ[q]) /\ Once(moveInQ[q])
    BY LanAssumption DEF CoreInv, PlaceInv, PlaceTypes, QueuesOnce
  <2>4. /\ joinQ' \in [Pipes -> Seq(IDs)] /\ (\A q \in Pipes : Once(joinQ'[q]))
        /\ i \in IDs /\ In(joinQ[p], i)
        /\ \A q \in Pipes : \A j : In(joinQ'[q], j) <=> In(joinQ[q], j) /\ ~(q = p /\ j = i)
    <3>1. PICK R : R = joinQ'
      OBVIOUS
    <3>2. R = [joinQ EXCEPT ![p] = Tail(@)]
      BY <2>2, <3>1
    <3>3. Queues(joinQ)
      BY <2>3 DEF Queues
    <3>4. Popped(R, joinQ, p, i)
      BY <1>2, <2>1, <3>2, <3>3, QueueTail
    <3>5. QED
      BY <3>1, <3>4 DEF Popped, Queues
  <2>5. \A q \in Pipes : UserSupport(i, q)
    BY <2>3, <2>4 DEF PlaceInv
  <2>6. Has(i) /\ sess[slotOf[i]].moving /\ sess[slotOf[i]].cur = NoPipe /\ sess[slotOf[i]].dest = p
    BY <2>4, <2>5 DEF UserSupport
  <2>7. \A q \in Pipes : /\ i \notin userMap[q] /\ ~In(moveInQ[q], i) /\ (In(joinQ[q], i) => q = p)
    BY <2>3, <2>5, <2>6 DEF UserSupport
  <2>8. \A q \in Pipes : \A j : /\ In(joinQ'[q], j) <=> In(joinQ[q], j) /\ j # i
                                /\ In(moveInQ'[q], j) <=> In(moveInQ[q], j) /\ j # i
    BY <2>2, <2>4, <2>7
  <2>9. QED
    BY <2>2, <2>3, <2>4, <2>6, <2>7, <2>8, ArrivedKeeps
<1>3. QED
  BY <1>1, <1>2

LEMMA MoveInKeeps ==
  ASSUME CoreInv, use = "pipe", NEW p \in Pipes, MoveIn(p)
  PROVE  CoreInv'
<1>1. CASE moveInQ[p] = <<>>
  <2>1. phase[p] \in {"in", "last in"} /\ NextPhase(p) /\ UNCHANGED phaseRest
    BY <1>1 DEF MoveIn, phaseRest, pipeRest, pipeQs, params, mainVars, leftVars
  <2>2. QED
    BY <2>1, NextPhaseKeeps
<1>2. CASE moveInQ[p] # <<>>
  <2>1. PICK i : i = Head(moveInQ[p])
    OBVIOUS
  <2>2. /\ moveInQ' = [moveInQ EXCEPT ![p] = Tail(@)] /\ userMap' = [userMap EXCEPT ![p] = @ \cup {i}]
        /\ AfterPipeEnter(p, i) /\ UNCHANGED <<pipeRest, phase, joinQ, moveOutQ>>
    BY <1>2, <2>1 DEF MoveIn
  <2>3. /\ SessionInv /\ PlaceInv /\ NoPipe \notin Pipes /\ moveInQ \in [Pipes -> Seq(IDs)] /\ joinQ \in [Pipes -> Seq(IDs)]
        /\ \A q \in Pipes : Once(joinQ[q]) /\ Once(moveInQ[q])
    BY LanAssumption DEF CoreInv, PlaceInv, PlaceTypes, QueuesOnce
  <2>4. /\ moveInQ' \in [Pipes -> Seq(IDs)] /\ (\A q \in Pipes : Once(moveInQ'[q]))
        /\ i \in IDs /\ In(moveInQ[p], i)
        /\ \A q \in Pipes : \A j : In(moveInQ'[q], j) <=> In(moveInQ[q], j) /\ ~(q = p /\ j = i)
    <3>1. PICK R : R = moveInQ'
      OBVIOUS
    <3>2. R = [moveInQ EXCEPT ![p] = Tail(@)]
      BY <2>2, <3>1
    <3>3. Queues(moveInQ)
      BY <2>3 DEF Queues
    <3>4. Popped(R, moveInQ, p, i)
      BY <1>2, <2>1, <3>2, <3>3, QueueTail
    <3>5. QED
      BY <3>1, <3>4 DEF Popped, Queues
  <2>5. \A q \in Pipes : UserSupport(i, q)
    BY <2>3, <2>4 DEF PlaceInv
  <2>6. /\ Has(i) /\ sess[slotOf[i]].moving /\ sess[slotOf[i]].cur # NoPipe /\ sess[slotOf[i]].dest = p
        /\ i \notin userMap[sess[slotOf[i]].cur]
    BY <2>4, <2>5 DEF UserSupport
  <2>7. \A q \in Pipes : /\ i \notin userMap[q] /\ ~In(joinQ[q], i) /\ (In(moveInQ[q], i) => q = p)
    BY <2>3, <2>5, <2>6 DEF UserSupport
  <2>8. \A q \in Pipes : \A j : /\ In(joinQ'[q], j) <=> In(joinQ[q], j) /\ j # i
                                /\ In(moveInQ'[q], j) <=> In(moveInQ[q], j) /\ j # i
    BY <2>2, <2>4, <2>7
  <2>9. QED
    BY <2>2, <2>3, <2>4, <2>6, <2>7, <2>8, ArrivedKeeps
<1>3. QED
  BY <1>1, <1>2

-----------------------------------------------------------------------------
(* Pipes: a user goes.                                                     *)

\* User i of slot s is on the way from pipe p to pipe d: out of the one, in the queue of the other.
MovedOut(s, i, p, d) ==
  /\ slotOf[i] = s /\ sess[s].id = i /\ sess[s].moving /\ sess[s].dest = d /\ i \in userMap[p]
  /\ UNCHANGED <<sess, slotOf, use, joinQ, leaveQ>> /\ userMap' = [userMap EXCEPT ![p] = @ \ {i}]
  /\ Queues(moveOutQ') /\ Queues(moveInQ')
  /\ \A q \in Pipes : \A j : /\ In(moveOutQ'[q], j) <=> In(moveOutQ[q], j) /\ ~(q = p /\ j = i)
                             /\ In(moveInQ'[q], j) <=> In(moveInQ[q], j) \/ (q = d /\ j = i)

LEMMA PlacesMovedOut ==
  ASSUME SessionInv, PlaceInv, NEW s \in Slots, NEW i \in IDs, NEW p \in Pipes, NEW d \in Pipes, MovedOut(s, i, p, d)
  PROVE  PlaceInv'
<1> USE DEF MovedOut
<1>1. /\ SessionTypes /\ PlaceTypes /\ QueuesOnce /\ ~sess[s].dead /\ NoPipe \notin Pipes /\ s # 0
      /\ \A q \in Pipes : UserSupport(i, q)
  BY UnderWay, LanAssumption DEF SessionInv, PlaceInv
<1>2. sess[s].cur = p
  BY <1>1 DEF UserSupport
<1>3. \A q \in Pipes : /\ ~In(joinQ[q], i) /\ ~In(leaveQ[q], i) /\ ~In(moveInQ[q], i)
                       /\ (In(moveOutQ[q], i) => q = p)
                       /\ (i \in userMap[q] => q = p)
  BY <1>1, <1>2 DEF UserSupport
<1>4. \A q \in Pipes : \A j \in IDs : j \in userMap'[q] <=> j \in userMap[q] /\ ~(q = p /\ j = i)
  BY <1>1 DEF PlaceTypes
<1>5. PlaceTypes' /\ QueuesOnce'
  BY <1>1 DEF PlaceTypes, QueuesOnce, Queues
<1>6. ASSUME NEW t \in Slots
      PROVE  PlaceSupport(t)'
  <2>1. /\ PlaceSupport(t) /\ sess[t].cur \in Pipes \cup {NoPipe} /\ sess[t].dest \in Pipes \cup {NoPipe}
        /\ (~sess[t].dead => sess[t].id \in IDs /\ slotOf[sess[t].id] = t)
    BY UserFacts DEF PlaceInv
  <2>2. CASE t = s
    <3>1. In(moveInQ'[d], i)
      OBVIOUS
    <3>2. QED
      BY <1>1, <1>2, <2>2, <3>1 DEF PlaceSupport
  <2>3. CASE t # s
    <3>1. sess[t].moving => ~sess[t].dead
      BY UnderWay
    <3>2. sess[t].cur # NoPipe => sess[t].id # i
      BY <1>1, <2>1, <2>3 DEF PlaceSupport
    <3>3. sess[t].moving => sess[t].id # i
      BY <2>1, <2>3, <3>1
    <3>4. sess[t].cur # NoPipe /\ sess[t].id \in userMap[sess[t].cur] => sess[t].id \in userMap'[sess[t].cur]
      BY <1>1, <1>4, <2>1, <3>2, SMTT(30), SMTT(30) DEF PlaceTypes
    <3>5. /\ sess[t].dest # NoPipe /\ In(moveInQ[sess[t].dest], sess[t].id) => In(moveInQ'[sess[t].dest], sess[t].id)
          /\ sess[t].cur # NoPipe /\ In(moveOutQ[sess[t].cur], sess[t].id) => In(moveOutQ'[sess[t].cur], sess[t].id)
      BY <2>1, <3>2
    <3>6. QED
      BY <2>1, <3>4, <3>5 DEF PlaceSupport
  <2>4. QED
    BY <2>2, <2>3
<1>7. ASSUME NEW j \in IDs, NEW q \in Pipes
      PROVE  UserSupport(j, q)'
  <2>1. UserSupport(j, q) /\ (Has(j)' <=> Has(j))
    BY DEF PlaceInv, Has
  <2>2. CASE j = i
    <3>1. /\ ~In(joinQ'[q], j) /\ ~In(leaveQ'[q], j) /\ ~In(moveOutQ'[q], j)
          /\ (In(moveInQ'[q], j) => q = d) /\ j \notin userMap'[q] /\ j \notin userMap'[p]
      BY <1>3, <1>4, <2>2
    <3>2. Has(j)'
      BY <1>1, <2>2 DEF Has
    <3>3. QED
      BY <1>1, <1>2, <2>2, <3>1, <3>2 DEF UserSupport
  <2>3. CASE j # i
    <3>1. /\ In(moveInQ'[q], j) <=> In(moveInQ[q], j)
          /\ In(moveOutQ'[q], j) <=> In(moveOutQ[q], j)
          /\ \A e \in Pipes : j \in userMap'[e] <=> j \in userMap[e]
      BY <1>4, <2>3
    <3>2. Has(j) => sess[slotOf[j]].cur \in Pipes \cup {NoPipe}
      BY <1>1, UserFacts DEF Has, SessionTypes
    <3>3. QED
      BY <2>1, <3>1, <3>2 DEF UserSupport
  <2>4. QED
    BY <2>2, <2>3
<1>8. QED
  BY <1>5, <1>6, <1>7 DEF PlaceInv

\* an entry at the end of a queue
Pushed(R, Q, p, i) ==
  /\ Queues(R)
  /\ \A q \in Pipes : \A j : In(R[q], j) <=> In(Q[q], j) \/ (q = p /\ j = i)

LEMMA QueueAppend ==
  ASSUME NEW Q, Queues(Q), NEW p \in Pipes, NEW i \in IDs, ~In(Q[p], i), NEW R, R = [Q EXCEPT ![p] = Append(@, i)]
  PROVE  Pushed(R, Q, p, i)
<1>1. /\ Q[p] \in Seq(IDs) /\ Once(Q[p]) /\ Q \in [Pipes -> Seq(IDs)]
      /\ \A q \in Pipes : Once(Q[q])
  BY DEF Queues
<1>2. /\ Append(Q[p], i) \in Seq(IDs)
      /\ \A j : In(Append(Q[p], i), j) <=> In(Q[p], j) \/ j = i
      /\ Once(Append(Q[p], i))
  BY <1>1, InAppend
<1>3. R[p] = Append(Q[p], i) /\ \A q \in Pipes : q # p => R[q] = Q[q]
  BY <1>1
<1>4. R \in [Pipes -> Seq(IDs)]
  BY <1>1, <1>2
<1>5. \A q \in Pipes : Once(R[q])
  BY <1>1, <1>2, <1>3
<1>6. QED
  BY <1>2, <1>3, <1>4, <1>5 DEF Pushed, Queues

LEMMA MoveOutKeeps ==
  ASSUME CoreInv, use = "pipe", NEW p \in Pipes, MoveOut(p)
  PROVE  CoreInv'
<1>1. CASE moveOutQ[p] = <<>>
  <2>1. phase[p] \in {"out", "last out"} /\ NextPhase(p) /\ UNCHANGED phaseRest
    BY <1>1 DEF MoveOut, phaseRest, pipeRest, pipeQs, params, mainVars, leftVars
  <2>2. QED
    BY <2>1, NextPhaseKeeps
<1>2. CASE moveOutQ[p] # <<>>
  <2>1. PICK i, d : i = Head(moveOutQ[p]) /\ d = sess[slotOf[i]].dest
    BY SMTT(30)
  <2>2. /\ moveOutQ' = [moveOutQ EXCEPT ![p] = Tail(@)] /\ userMap' = [userMap EXCEPT ![p] = @ \ {i}]
        /\ moveInQ' = [moveInQ EXCEPT ![d] = Append(@, i)]
        /\ UNCHANGED <<isSendIOPending, isLogicMultithreaded, use, main, isRunning, slotOf, port, worker, phase, joinQ,
                       quit, sess, free, calls, leavePosts, leaveQ>>
    BY <1>2, <2>1, ZenonT(40) DEF MoveOut, pipeRest, params, mainVars, leftVars
  <2>3. SessionInv /\ SessionTypes /\ PlaceInv /\ StopInv /\ NoPipe \notin Pipes /\ Queues(moveInQ) /\ Queues(moveOutQ)
    BY LanAssumption DEF CoreInv, SessionInv, PlaceInv, PlaceTypes, QueuesOnce, Queues
  <2>4. Popped(moveOutQ', moveOutQ, p, i)
    <3>1. PICK R : R = moveOutQ'
      OBVIOUS
    <3>2. Popped(R, moveOutQ, p, i)
      BY <1>2, <2>1, <2>2, <2>3, <3>1, QueueTail
    <3>3. QED
      BY <3>1, <3>2, SMTT(30), SMTT(30)
  <2>5. i \in IDs /\ In(moveOutQ[p], i)
    BY <2>4 DEF Popped
  <2>6. \A q \in Pipes : UserSupport(i, q)
    BY <2>3, <2>5 DEF PlaceInv
  <2>7. /\ Has(i) /\ sess[slotOf[i]].moving /\ sess[slotOf[i]].dest # NoPipe /\ i \in userMap[p]
        /\ sess[slotOf[i]].cur = p
    BY <2>5, <2>6 DEF UserSupport
  <2>8. PICK s \in Slots : s = slotOf[i]
    BY <2>3, <2>5, <2>7 DEF Has, SessionTypes
  <2>9. d \in Pipes /\ ~sess[s].dead /\ Goes
    BY <2>1, <2>3, <2>7, <2>8, UserFacts, UnderWay, MustGo
  <2>10. Pushed(moveInQ', moveInQ, d, i)
    <3>1. ~In(moveInQ[d], i)
      BY <2>6, <2>7, <2>9 DEF UserSupport
    <3>2. PICK R : R = moveInQ'
      OBVIOUS
    <3>3. Pushed(R, moveInQ, d, i)
      BY <2>2, <2>3, <2>5, <2>9, <3>1, <3>2, QueueAppend
    <3>4. QED
      BY <3>2, <3>3
  <2>11. PlaceInv'
    <3>1. slotOf[i] = s /\ sess[s].id = i /\ sess[s].moving /\ sess[s].dest = d
      BY <2>1, <2>7, <2>8 DEF Has
    <3>2. /\ Queues(moveOutQ') /\ Queues(moveInQ')
          /\ \A q \in Pipes : \A j : /\ In(moveOutQ'[q], j) <=> In(moveOutQ[q], j) /\ ~(q = p /\ j = i)
                                     /\ In(moveInQ'[q], j) <=> In(moveInQ[q], j) \/ (q = d /\ j = i)
      BY <2>4, <2>10 DEF Popped, Pushed
    <3>3. MovedOut(s, i, p, d)
      BY <2>2, <2>7, <3>1, <3>2 DEF MovedOut
    <3>4. QED
      BY <2>3, <2>5, <2>9, <3>3, PlacesMovedOut
  <2>12. SessionInv'
    <3>1. /\ PostsFine /\ \A t : Hands(t)' = Hands(t) /\ Resuming(t)' = Resuming(t)
      BY <2>2, <2>3, HandsSame
    <3>2. QED
      BY <2>2, <2>3, <3>1, SessionsStay DEF SessionTypes
  <2>13. StopInv'
    <3>1. sess' = [sess EXCEPT ![s] = sess[s]] /\ free' = free
      BY <2>2, <2>3 DEF SessionTypes
    <3>2. Quiet(sess[s]) /\ (sess[s].dead => sess[s].cur # NoPipe \/ s \in free')
      BY <2>2, <2>3, <2>9 DEF Quiet, StopInv, StartSupport
    <3>3. QED
      BY <2>2, <2>3, <2>9, <3>1, <3>2, GoingKeepsStop
  <2>14. QED
    BY <2>11, <2>12, <2>13 DEF CoreInv
<1>3. QED
  BY <1>1, <1>2

\* A session is released: nobody holds it.
LEMMA ReleasedFacts ==
  ASSUME SessionInv, NEW s \in Slots, sess[s].dead
  PROVE  /\ sess[s].refs = 0 /\ Hands(s) = 0 /\ InHand(s) = {} /\ Resuming(s) = {} /\ sess[s] \in Sessions
         /\ sess[s].recv = "none" /\ sess[s].send = "none" /\ ~sess[s].moving /\ GoodRecord(sess[s])
<1>1. /\ Holds(sess[s], Hands(s)) /\ sess[s] \in Sessions /\ SessionSupport(s)
      /\ Hands(s) \in Nat /\ (InHand(s) # {} => Hands(s) >= 2)
  BY SlotFacts
<1>2. PICK y : y = sess[s]
  OBVIOUS
<1>3. y.refs = 0 /\ y \in Sessions /\ GoodRecord(y) /\ Holds(y, Hands(s))
  BY <1>1, <1>2 DEF SessionSupport
<1>4. Ops(y) \in Nat /\ Ops(y) = 0 /\ Hands(s) = 0
  BY <1>1, <1>3, OpsRange DEF Holds
<1>5. y.recv = "none" /\ y.send = "none" /\ ~y.moving
  BY <1>3, <1>4 DEF Ops, SendHolds, Sessions
<1>6. InHand(s) = {} /\ Resuming(s) = {}
  BY <1>1, <1>4 DEF Resuming
<1>7. QED
  BY <1>2, <1>3, <1>4, <1>5, <1>6

\* A step changes the record of a session nobody holds, in any phase of Stop.
LEMMA ReleasedKeepsStop ==
  ASSUME SessionInv, StopInv, use = "pipe", Begun, NEW s \in Slots, NEW y, InHand(s) = {},
         sess' = [sess EXCEPT ![s] = y], y.recv = "none", y.send = "none", y.sendQ = <<>>,
         y.dead => s \in free' \/ y.cur # NoPipe,
         \A t \in Slots : t # s => (t \in free' <=> t \in free),
         UNCHANGED <<use, main, isRunning, phase, port, worker, leavePosts, joinQ, moveInQ, moveOutQ>>,
         \A q \in Pipes : phase[q] = "ended" => leaveQ'[q] = <<>>
  PROVE  StopInv'
<1>1. /\ sess \in [Slots -> Sessions] /\ StopTypes /\ StartSupport /\ StopSupport
      /\ worker \in [Workers -> WorkerStates]
      /\ \A w \in Workers : WorkerSupport(w)
  BY DEF SessionInv, SessionTypes, StopInv
<1>2. sess'[s] = y /\ \A t \in Slots : t # s => sess'[t] = sess[t]
  BY <1>1
<1>3. StopTypes'
  BY <1>1 DEF StopTypes
<1>4. StartSupport'
  <2>1. Begun'
    BY DEF Begun
  <2>2. \A t \in Slots : sess'[t].dead => t \in free' \/ sess'[t].cur # NoPipe
    BY <1>1, <1>2 DEF StartSupport
  <2>3. \A t \in Slots : sess'[t].sendQ = <<>> /\ sess'[t].send = "none"
    BY <1>1, <1>2 DEF StartSupport
  <2>4. port' = <<>> /\ \A w \in Workers : worker'[w].pc \notin {"set", "spin"}
    BY <1>1 DEF StartSupport
  <2>5. isRunning' => \A p \in Pipes : phase'[p] \in {"none", "join", "in", "out", "leave", "message"}
    BY <1>1 DEF StartSupport
  <2>6. main' \in {"initiate", "threads", "running", "sleeping"} => isRunning'
    BY <1>1 DEF StartSupport
  <2>7. QED
    BY <2>1, <2>2, <2>3, <2>4, <2>5, <2>6 DEF StartSupport
<1>5. StopSupport'
  <2>1. \A t \in Slots : sess[t].recv = "none" /\ sess[t].send = "none" => sess'[t].recv = "none" /\ sess'[t].send = "none"
    BY <1>2
  <2>2. ASSUME NEW w \in Workers
        PROVE  worker'[w].pc # "spin"
    BY <1>1 DEF StartSupport
  <2>3. QED
    BY <1>1, <2>1, <2>2 DEF StopSupport
<1>6. QED
  BY <1>3, <1>4, <1>5 DEF StopInv

\* User i, released, has left pipe p: its slot s is destroyed.
LEMMA PlacesLeft ==
  ASSUME SessionInv, PlaceInv, NEW s \in Slots, NEW i \in IDs, NEW p \in Pipes, NEW y,
         slotOf[i] = s, sess[s].id = i, sess[s].dead, i \in userMap[p],
         sess' = [sess EXCEPT ![s] = y], y.id = i, y.dead, y.cur = NoPipe, ~y.moving,
         UNCHANGED <<slotOf, use, joinQ, moveInQ, moveOutQ>>, userMap' = [userMap EXCEPT ![p] = @ \ {i}],
         Popped(leaveQ', leaveQ, p, i)
  PROVE  PlaceInv'
<1>1. /\ SessionTypes /\ PlaceTypes /\ QueuesOnce /\ ~sess[s].moving /\ NoPipe \notin Pipes /\ s # 0
      /\ \A q \in Pipes : UserSupport(i, q)
  BY UnderWay, LanAssumption DEF SessionInv, PlaceInv
<1>2. sess[s].cur = p
  BY <1>1 DEF UserSupport
<1>3. \A q \in Pipes : /\ ~In(joinQ[q], i) /\ ~In(moveInQ[q], i) /\ ~In(moveOutQ[q], i)
                       /\ (In(leaveQ[q], i) => q = p)
                       /\ (i \in userMap[q] => q = p)
  BY <1>1, <1>2 DEF UserSupport
<1>4. \A q \in Pipes : \A j \in IDs : j \in userMap'[q] <=> j \in userMap[q] /\ ~(q = p /\ j = i)
  BY <1>1 DEF PlaceTypes
<1>5. PlaceTypes' /\ QueuesOnce' /\ \A q \in Pipes : \A j : In(leaveQ'[q], j) <=> In(leaveQ[q], j) /\ ~(q = p /\ j = i)
  BY <1>1 DEF PlaceTypes, QueuesOnce, Popped, Queues
<1>6. sess'[s] = y /\ \A t \in Slots : t # s => sess'[t] = sess[t]
  BY <1>1 DEF SessionTypes
<1>7. ASSUME NEW t \in Slots
      PROVE  PlaceSupport(t)'
  <2>1. /\ PlaceSupport(t) /\ sess[t].cur \in Pipes \cup {NoPipe} /\ sess[t].dest \in Pipes \cup {NoPipe}
        /\ (~sess[t].dead => sess[t].id \in IDs /\ slotOf[sess[t].id] = t)
    BY UserFacts DEF PlaceInv
  <2>2. CASE t = s
    BY <1>6, <2>2 DEF PlaceSupport
  <2>3. CASE t # s
    <3>1. sess[t].moving => ~sess[t].dead
      BY UnderWay
    <3>2. sess[t].cur # NoPipe => sess[t].id # i
      BY <2>1, <2>3 DEF PlaceSupport
    <3>3. sess[t].cur # NoPipe /\ sess[t].id \in userMap[sess[t].cur] => sess[t].id \in userMap'[sess[t].cur]
      BY <1>1, <1>4, <2>1, <3>2 DEF PlaceTypes
    <3>4. sess[t].cur # NoPipe /\ In(leaveQ[sess[t].cur], sess[t].id) => In(leaveQ'[sess[t].cur], sess[t].id)
      BY <1>5, <2>1, <3>2
    <3>5. QED
      BY <1>6, <2>1, <2>3, <3>3, <3>4 DEF PlaceSupport
  <2>4. QED
    BY <2>2, <2>3
<1>8. ASSUME NEW j \in IDs, NEW q \in Pipes
      PROVE  UserSupport(j, q)'
  <2>1. UserSupport(j, q)
    BY DEF PlaceInv
  <2>2. CASE j = i
    <3>1. /\ ~In(joinQ'[q], j) /\ ~In(moveInQ'[q], j) /\ ~In(moveOutQ'[q], j) /\ ~In(leaveQ'[q], j) /\ j \notin userMap'[q]
      BY <1>3, <1>4, <1>5, <2>2
    <3>2. QED
      BY <3>1 DEF UserSupport
  <2>3. CASE j # i
    <3>1. /\ In(leaveQ'[q], j) <=> In(leaveQ[q], j)
          /\ \A e \in Pipes : j \in userMap'[e] <=> j \in userMap[e]
      BY <1>4, <1>5, <2>3
    <3>2. CASE slotOf[j] = s
      <4>1. ~Has(j) /\ ~Has(j)'
        BY <1>6, <2>3, <3>2 DEF Has
      <4>2. QED
        BY <2>1, <3>1, <4>1 DEF UserSupport
    <3>3. CASE slotOf[j] # s
      <4>1. Has(j)' <=> Has(j)
        BY <1>1, <1>6, <3>3 DEF Has, SessionTypes
      <4>2. Has(j) => sess'[slotOf[j]] = sess[slotOf[j]] /\ sess[slotOf[j]].cur \in Pipes \cup {NoPipe}
        BY <1>1, <1>6, <3>3, UserFacts DEF Has, SessionTypes
      <4>3. QED
        BY <2>1, <3>1, <4>1, <4>2 DEF UserSupport
    <3>4. QED
      BY <3>2, <3>3
  <2>4. QED
    BY <2>2, <2>3
<1>9. QED
  BY <1>5, <1>7, <1>8 DEF PlaceInv

\* A step gives a released session another record, of the same ID.
LEMMA ReleasedKeepsSessions ==
  ASSUME SessionInv, NEW s \in Slots, NEW y, sess[s].dead, y.dead, y.id = sess[s].id, Holds(y, 0), y.refs = 0,
         sess' = [sess EXCEPT ![s] = y], s \in free' => y = Destroyed(y), free' \subseteq Slots,
         \A t \in Slots : t # s => (t \in free' <=> t \in free),
         UNCHANGED <<isSendIOPending, isLogicMultithreaded, slotOf, quit, port, worker, calls, leavePosts>>
  PROVE  SessionInv'
<1>1. SessionTypes /\ quit = "none"
  BY DEF SessionInv, LanNeverQuits
<1>2. PostsFine /\ \A t : Hands(t)' = Hands(t) /\ Resuming(t)' = Resuming(t)
  BY HandsSame
<1>3. Hands(s) = 0 /\ Resuming(s) = {}
  BY ReleasedFacts
<1>4. SlotFine(s, y)
  <2>1. Hands(s)' = 0 /\ Resuming(s)' = {}
    BY <1>2, <1>3
  <2>2. Holds(y, Hands(s)')
    BY <2>1
  <2>3. QED
    BY <2>1, <2>2 DEF SlotFine, ResumeFine
<1>5. HandsKept(s)
  BY <1>2 DEF HandsKept
<1>6. /\ sess' \in [Slots -> Sessions] /\ LanRefsExact' /\ \A t \in Slots : SessionSupport(t)'
  <2>1. slotOf' \in [IDs -> Slots \cup {0}] /\ \A j \in IDs : slotOf[j] # 0 => slotOf'[j] = slotOf[j]
    BY <1>1 DEF SessionTypes
  <2>2. QED
    BY <1>2, <1>4, <1>5, <2>1, OneSlot
<1>7. LeftOnce' /\ LeftSupport'
  BY LeftSame
<1>8. QED
  BY <1>1, <1>2, <1>6, <1>7 DEF SessionInv, SessionTypes, PostsFine, LanNeverQuits

LEMMA LeavePipeKeeps ==
  ASSUME CoreInv, use = "pipe", NEW p \in Pipes, LeavePipe(p)
  PROVE  CoreInv'
<1>1. CASE leaveQ[p] = <<>>
  <2>1. phase[p] \in {"leave", "last leave"} /\ NextPhase(p) /\ UNCHANGED phaseRest
    BY <1>1 DEF LeavePipe, phaseRest, pipeRest, params, mainVars, leftVars
  <2>2. QED
    BY <1>1, <2>1, NextPhaseKeeps
<1>2. CASE leaveQ[p] # <<>>
  <2>1. PICK i : i = Head(leaveQ[p])
    OBVIOUS
  <2>2. /\ phase[p] \in {"leave", "last leave"} /\ leaveQ' = [leaveQ EXCEPT ![p] = Tail(@)]
        /\ userMap' = [userMap EXCEPT ![p] = @ \ {i}]
        /\ i \in userMap[p] => /\ sess' = [sess EXCEPT ![slotOf[i]] = Destroyed(sess[slotOf[i]])]
                               /\ free' = free \cup {slotOf[i]} /\ UNCHANGED quit
        /\ UNCHANGED <<isSendIOPending, isLogicMultithreaded, use, main, isRunning, slotOf, port, worker, phase,
                       joinQ, moveInQ, moveOutQ, calls, leavePosts>>
    BY <1>2, <2>1 DEF LeavePipe, pipeRest, params, mainVars, leftVars
  <2>3. SessionInv /\ SessionTypes /\ PlaceInv /\ StopInv /\ Queues(leaveQ)
    BY DEF CoreInv, SessionInv, PlaceInv, PlaceTypes, QueuesOnce, Queues
  <2>4. Popped(leaveQ', leaveQ, p, i)
    <3>1. PICK R : R = leaveQ'
      OBVIOUS
    <3>2. Popped(R, leaveQ, p, i)
      BY <1>2, <2>1, <2>2, <2>3, <3>1, QueueTail
    <3>3. QED
      BY <3>1, <3>2
  <2>5. i \in IDs /\ In(leaveQ[p], i) /\ UserSupport(i, p)
    BY <2>3, <2>4 DEF Popped, PlaceInv
  <2>6. Has(i) /\ sess[slotOf[i]].dead /\ i \in userMap[p]
    BY <2>5 DEF UserSupport
  <2>7. PICK s \in Slots : s = slotOf[i]
    BY <2>3, <2>5, <2>6 DEF Has, SessionTypes
  <2>8. sess[s].id = i /\ sess[s].dead
    BY <2>6, <2>7 DEF Has
  <2>9. InHand(s) = {} /\ sess[s] \in Sessions /\ sess[s].recv = "none" /\ sess[s].send = "none"
    BY <2>3, <2>8, ReleasedFacts
  <2> DEFINE y == Destroyed(sess[s])
  <2>10. /\ y \in Sessions /\ y.id = i /\ y.dead /\ y.refs = 0 /\ y.recv = "none" /\ y.send = "none" /\ ~y.moving
         /\ y.sendQ = <<>> /\ y.cur = NoPipe /\ Destroyed(y) = y /\ Holds(y, 0)
    BY <2>8, <2>9, DestroyedFields
  <2>11. sess' = [sess EXCEPT ![s] = y] /\ free' = free \cup {s} /\ UNCHANGED quit
    BY <2>2, <2>6, <2>7
  <2> HIDE DEF y
  <2>12. SessionInv'
    BY <2>2, <2>3, <2>8, <2>10, <2>11, ReleasedKeepsSessions DEF SessionTypes
  <2>13. PlaceInv'
    BY <2>2, <2>3, <2>4, <2>5, <2>6, <2>7, <2>8, <2>10, <2>11, PlacesLeft
  <2>14. StopInv'
    <3>1. Begun
      BY <2>3, <2>6 DEF StopInv, StartSupport
    <3>2. ASSUME NEW q \in Pipes, phase[q] = "ended"
          PROVE  leaveQ'[q] = <<>>
      <4>1. leaveQ[q] = <<>> /\ q # p
        BY <2>2, <2>3, <3>2 DEF StopInv, StopSupport
      <4>2. QED
        BY <2>2, <2>3, <4>1 DEF Queues
    <3>3. y.dead => s \in free' \/ y.cur # NoPipe
      BY <2>11
    <3>4. \A t \in Slots : t # s => (t \in free' <=> t \in free)
      BY <2>11
    <3>5. QED
      BY <2>2, <2>3, <2>9, <2>10, <2>11, <3>1, <3>2, <3>3, <3>4, ReleasedKeepsStop
  <2>15. QED
    BY <2>12, <2>13, <2>14 DEF CoreInv
<1>3. QED
  BY <1>1, <1>2

\* a job is taken
LEMMA JobTaken ==
  ASSUME NEW r, NEW n, Holds(r, n), r.jobQ # <<>>
  PROVE  LET x == [r EXCEPT !.jobQ = Tail(@)] IN
         /\ Holds(x, n) /\ Kept(x, r) /\ x.refs = r.refs /\ x \in Sessions
         /\ x.send = r.send /\ x.recv = r.recv /\ x.canceled = r.canceled
<1> DEFINE x == [r EXCEPT !.jobQ = Tail(@)]
<1>1. r \in Sessions /\ r.jobQ \in Seq(IDs)
  BY DEF Holds, GoodRecord, Sessions
<1>2. PICK q : q = r.jobQ
  OBVIOUS
<1>3. /\ Tail(q) \in Seq(IDs) /\ Len(Tail(q)) = Len(q) - 1 /\ Len(q) \in Nat
      /\ \A k \in DOMAIN Tail(q) : k + 1 \in DOMAIN q /\ Tail(q)[k] = q[k + 1]
  <2>1. q \in Seq(IDs) /\ q # <<>>
    BY <1>1, <1>2
  <2>2. QED
    BY <2>1, HeadTailProperties
<1>4. /\ x \in Sessions /\ x.jobQ = Tail(q) /\ x.refs = r.refs /\ Same(x, r)
      /\ x.canceled = r.canceled /\ x.recv = r.recv /\ x.send = r.send /\ x.sending = r.sending
      /\ x.sendQ = r.sendQ /\ x.sentQ = r.sentQ
  BY <1>1, <1>2, <1>3 DEF Sessions, Same
<1> HIDE DEF x
<1>5. GoodRecord(x)
  <2>1. GoodRecord(r) /\ MaxJobs \in Nat
    BY LanAssumption DEF Holds
  <2>2. Len(x.jobQ) <= MaxJobs
    BY <1>2, <1>3, <1>4, <2>1 DEF GoodRecord
  <2>3. \A k \in DOMAIN x.jobQ : x.jobQ[k] = x.id
    BY <1>2, <1>3, <1>4, <2>1 DEF GoodRecord, Same
  <2>4. QED
    BY <1>4, <2>1, <2>2, <2>3 DEF GoodRecord
<1>6. Ops(x) = Ops(r)
  BY <1>4 DEF Ops, SendHolds, Same
<1>7. Holds(x, n)
  BY <1>4, <1>5, <1>6 DEF Holds
<1>8. Kept(x, r)
  BY <1>4 DEF Kept
<1>9. QED
  BY <1>4, <1>7, <1>8 DEF x

LEMMA DequeueJobKeeps ==
  ASSUME CoreInv, use = "pipe", NEW p \in Pipes, NEW i \in IDs, DequeueJob(p, i)
  PROVE  CoreInv'
<1>1. /\ SessionInv /\ SessionTypes /\ PlaceInv /\ StopInv /\ UserSupport(i, p) /\ i \in userMap[p]
      /\ sess[slotOf[i]].jobQ # <<>> /\ NoPipe \notin Pipes
  BY LanAssumption DEF CoreInv, SessionInv, PlaceInv, DequeueJob
<1>2. Has(i) /\ sess[slotOf[i]].cur = p
  BY <1>1 DEF UserSupport
<1>3. PICK s \in Slots : s = slotOf[i]
  BY <1>1, <1>2 DEF Has, SessionTypes
<1>4. sess[s].id = i /\ sess[s].cur = p /\ sess[s].jobQ # <<>>
  BY <1>1, <1>2, <1>3 DEF Has
<1>5. /\ Holds(sess[s], Hands(s)) /\ Hands(s) \in Nat /\ GoodRecord(sess[s]) /\ sess[s] \in Sessions
      /\ SessionSupport(s)
  BY <1>1, SlotFacts DEF Holds
<1>6. Head(sess[s].jobQ) = i
  <2>1. sess[s].jobQ \in Seq(IDs)
    BY <1>5 DEF Sessions
  <2>2. Head(sess[s].jobQ) = sess[s].jobQ[1] /\ 1 \in DOMAIN sess[s].jobQ
    BY <1>4, <2>1, EmptySeq
  <2>3. QED
    BY <1>4, <1>5, <2>2 DEF GoodRecord
<1> DEFINE x == [sess[s] EXCEPT !.jobQ = Tail(@)]
<1>7. /\ UNCHANGED <<others, port, worker>>
      /\ \/ Leave(s, x, refCnt)
         \/ Found(i) /\ Leave(s, Disconnected(x), refCnt)
  BY <1>3, <1>6 DEF DequeueJob, others, pipeRest, params, mainVars, pipeQs
<1>8. /\ Holds(x, Hands(s)) /\ Kept(x, sess[s]) /\ x.refs = sess[s].refs /\ x \in Sessions
      /\ x.send = sess[s].send /\ x.recv = sess[s].recv
  BY <1>4, <1>5, JobTaken
<1> HIDE DEF x
<1>9. CASE ~sess[s].dead
  <2>1. Goes
    BY <1>9, MustGo
  <2>2. CASE Leave(s, x, refCnt)
    BY <1>7, <1>8, <1>9, <2>1, <2>2, LeaveKept
  <2>3. CASE Leave(s, Disconnected(x), refCnt)
    <3>1. Holds(Disconnected(x), Hands(s)) /\ Kept(Disconnected(x), x)
      BY <1>8, DisconnectedHolds DEF Kept
    <3>2. Kept(Disconnected(x), sess[s])
      BY <1>8, <3>1, KeptTrans
    <3>3. QED
      BY <1>7, <1>9, <2>1, <2>3, <3>1, <3>2, LeaveKept
  <2>4. QED
    BY <1>7, <2>2, <2>3
<1>10. CASE sess[s].dead
  <2>1. ~Found(i) /\ Leave(s, x, refCnt)
    BY <1>3, <1>7, <1>10 DEF Found
  <2>2. /\ sess[s].refs = 0 /\ Hands(s) = 0 /\ InHand(s) = {} /\ sess[s].recv = "none" /\ sess[s].send = "none"
    BY <1>1, <1>10, ReleasedFacts
  <2>3. x.dead /\ x.id = i /\ x.cur = p /\ x.refs = 0 /\ Same(x, sess[s]) /\ x.sendQ = sess[s].sendQ
    BY <1>4, <1>8, <1>10, <2>2 DEF Kept, Same
  <2>4. /\ sess' = [sess EXCEPT ![s] = x] /\ UNCHANGED <<quit, free, calls, leavePosts, leaveQ>>
    <3>1. ~(x.refs < 0)
      BY <2>3
    <3>2. QED
      BY <2>1, <2>3, <3>1 DEF Leave, leftVars
  <2>5. s \notin free
    <3>1. s \in free => sess[s].cur = NoPipe
      BY <1>1, FreeFacts
    <3>2. QED
      BY <1>1, <1>4, <3>1
  <2>6. SessionInv'
    <3>1. Holds(x, 0)
      BY <1>8, <2>2
    <3>2. QED
      BY <1>1, <1>4, <1>7, <1>10, <2>3, <2>4, <2>5, <3>1, ReleasedKeepsSessions DEF others, SessionTypes
  <2>7. PlaceInv'
    BY <1>1, <1>7, <2>3, <2>4, PlacesSame DEF others
  <2>8. StopInv'
    <3>1. Begun /\ sess[s].sendQ = <<>>
      BY <1>1 DEF StopInv, StartSupport
    <3>2. \A q \in Pipes : phase[q] = "ended" => leaveQ'[q] = <<>>
      BY <1>1, <2>4 DEF StopInv, StopSupport
    <3>3. x.cur # NoPipe
      BY <1>1, <2>3
    <3>4. x.recv = "none" /\ x.send = "none" /\ x.sendQ = <<>>
      BY <1>8, <2>2, <2>3, <3>1
    <3>5. UNCHANGED <<use, main, isRunning, phase, port, worker, leavePosts, joinQ, moveInQ, moveOutQ>>
      BY <1>7, <2>4 DEF others
    <3>6. QED
      BY <1>1, <2>2, <2>4, <3>1, <3>2, <3>3, <3>4, <3>5, ReleasedKeepsStop
  <2>9. QED
    BY <2>6, <2>7, <2>8 DEF CoreInv
<1>11. QED
  BY <1>9, <1>10

\* User i of slot s, at pipe p and at rest, is to go to pipe y.dest: y is its new record.
MovesOut(s, i, p, y) ==
  /\ slotOf[i] = s /\ sess[s].id = i /\ ~sess[s].dead /\ ~sess[s].moving /\ i \in userMap[p]
  /\ sess' = [sess EXCEPT ![s] = y] /\ y.id = i /\ y.cur = p /\ y.moving /\ y.dest \in Pipes /\ ~y.dead
  /\ UNCHANGED <<slotOf, use, userMap, joinQ, moveInQ, leaveQ>>
  /\ Pushed(moveOutQ', moveOutQ, p, i)

LEMMA PlacesMoving ==
  ASSUME SessionInv, PlaceInv, NEW s \in Slots, NEW i \in IDs, NEW p \in Pipes, NEW y, MovesOut(s, i, p, y)
  PROVE  PlaceInv'
<1> USE DEF MovesOut
<1>1. /\ SessionTypes /\ PlaceTypes /\ QueuesOnce /\ NoPipe \notin Pipes /\ s # 0
      /\ \A q \in Pipes : UserSupport(i, q)
  BY LanAssumption DEF SessionInv, PlaceInv
<1>2. sess[s].cur = p
  BY <1>1 DEF UserSupport
<1>3. \A q \in Pipes : /\ ~In(joinQ[q], i) /\ ~In(moveInQ[q], i) /\ ~In(moveOutQ[q], i) /\ ~In(leaveQ[q], i)
                       /\ (i \in userMap[q] => q = p)
  BY <1>1, <1>2 DEF UserSupport
<1>4. PlaceTypes' /\ QueuesOnce' /\ \A q \in Pipes : \A j : In(moveOutQ'[q], j) <=> In(moveOutQ[q], j) \/ (q = p /\ j = i)
  BY <1>1 DEF PlaceTypes, QueuesOnce, Pushed, Queues
<1>5. sess'[s] = y /\ \A t \in Slots : t # s => sess'[t] = sess[t]
  BY <1>1 DEF SessionTypes
<1>6. ASSUME NEW t \in Slots
      PROVE  PlaceSupport(t)'
  <2>1. PlaceSupport(t) /\ sess[t].cur \in Pipes \cup {NoPipe}
    BY UserFacts DEF PlaceInv
  <2>2. CASE t = s
    <3>1. In(moveOutQ'[p], i)
      BY <1>4
    <3>2. QED
      BY <1>1, <1>5, <2>2, <3>1 DEF PlaceSupport
  <2>3. CASE t # s
    <3>1. sess[t].cur # NoPipe /\ In(moveOutQ[sess[t].cur], sess[t].id) => In(moveOutQ'[sess[t].cur], sess[t].id)
      BY <1>4, <2>1
    <3>2. QED
      BY <1>5, <2>1, <2>3, <3>1 DEF PlaceSupport
  <2>4. QED
    BY <2>2, <2>3
<1>7. ASSUME NEW j \in IDs, NEW q \in Pipes
      PROVE  UserSupport(j, q)'
  <2>1. UserSupport(j, q)
    BY DEF PlaceInv
  <2>2. CASE j = i
    <3>1. /\ ~In(joinQ'[q], j) /\ ~In(moveInQ'[q], j) /\ ~In(leaveQ'[q], j)
          /\ (In(moveOutQ'[q], j) => q = p) /\ (j \in userMap'[q] => q = p)
      BY <1>3, <1>4, <2>2
    <3>2. Has(j)' /\ slotOf'[j] = s /\ i \in userMap'[p] /\ y.dest # NoPipe
      BY <1>1, <1>5, <2>2 DEF Has
    <3>3. QED
      BY <1>5, <2>2, <3>1, <3>2 DEF UserSupport
  <2>3. CASE j # i
    <3>1. In(moveOutQ'[q], j) <=> In(moveOutQ[q], j)
      BY <1>4, <2>3
    <3>2. CASE slotOf[j] = s
      <4>1. ~Has(j) /\ ~Has(j)'
        BY <1>5, <2>3, <3>2 DEF Has
      <4>2. QED
        BY <2>1, <3>1, <4>1 DEF UserSupport
    <3>3. CASE slotOf[j] # s
      <4>1. Has(j)' <=> Has(j)
        BY <1>1, <1>5, <3>3 DEF Has, SessionTypes
      <4>2. Has(j) => sess'[slotOf[j]] = sess[slotOf[j]]
        BY <1>1, <1>5, <3>3 DEF Has, SessionTypes
      <4>3. QED
        BY <2>1, <3>1, <4>1, <4>2 DEF UserSupport
    <3>4. QED
      BY <3>2, <3>3
  <2>4. QED
    BY <2>2, <2>3
<1>8. QED
  BY <1>4, <1>6, <1>7 DEF PlaceInv

LEMMA MovePipeKeeps ==
  ASSUME CoreInv, use = "pipe", NEW p \in Pipes, NEW i \in IDs, NEW c \in Codes, MovePipe(p, i, c)
  PROVE  CoreInv'
<1>1. /\ SessionInv /\ SessionTypes /\ PlaceInv /\ StopInv /\ UserSupport(i, p) /\ i \in userMap[p]
      /\ NoPipe \notin Pipes /\ Found(i) /\ ~sess[slotOf[i]].moving
      /\ Queues(moveOutQ)
  BY LanAssumption DEF CoreInv, SessionInv, PlaceInv, MovePipe, PlaceTypes, QueuesOnce, Queues
<1>2. PICK s : s = slotOf[i]
  OBVIOUS
<1>3. /\ s \in Slots /\ ~sess[s].dead /\ sess[s].id = i /\ Holds(sess[s], Hands(s)) /\ Hands(s) \in Nat
      /\ SessionSupport(s) /\ ~sess[s].moving
  BY <1>1, <1>2, FoundFacts
<1>4. sess[s].cur = p /\ Goes
  BY <1>1, <1>2, <1>3, MustGo DEF UserSupport
<1>5. PICK d \in Pipes : sess' = [sess EXCEPT ![s] = MovedTo(sess[s], d)]
  BY <1>2 DEF MovePipe, FindPipe
<1> DEFINE y == MovedTo(sess[s], d)
<1>6. /\ y \in Sessions /\ Holds(y, Hands(s)) /\ y.moving /\ y.dest = d /\ y.id = i /\ y.cur = p /\ ~y.dead
      /\ y.send = sess[s].send /\ y.sending = sess[s].sending /\ y.sendQ = sess[s].sendQ
      /\ y.refs = sess[s].refs + 1 /\ sess[s].refs \in Nat
  BY <1>3, <1>4, MovedHolds DEF Holds, GoodRecord, Sessions
<1>7. sess' = [sess EXCEPT ![s] = y]
  BY <1>5
<1> HIDE DEF y
<1>8. /\ moveOutQ' = [moveOutQ EXCEPT ![p] = Append(@, i)]
      /\ UNCHANGED <<isSendIOPending, isLogicMultithreaded, use, main, isRunning, slotOf, port, worker, phase,
                     userMap, joinQ, moveInQ, quit, free, refCnt, calls, leavePosts, leaveQ>>
  BY DEF MovePipe, pipeRest, params, mainVars, leftVars
<1>9. /\ PostsFine /\ \A t : Hands(t)' = Hands(t) /\ Resuming(t)' = Resuming(t)
  BY <1>1, <1>8, HandsSame
<1>10. SessionInv'
  <2>1. ResumeFine(s, y)
    BY <1>1, <1>3, <1>6, <1>9, ResumeKept
  <2>2. Leave(s, y, refCnt)
    <3>1. y.refs \in Nat /\ y.refs > 0
      BY <1>6
    <3>2. QED
      BY <1>3, <1>7, <1>8, <3>1, Stays
  <2>3. Hands(s)' = Hands(s) /\ HandsKept(s)
    BY <1>9 DEF HandsKept
  <2>4. Holds(y, Hands(s)')
    BY <1>6, <2>3
  <2>5. Handled(s, y, refCnt)
    BY <1>3, <1>6, <1>8, <1>9, <2>1, <2>2, <2>3, <2>4 DEF Handled
  <2>6. QED
    BY <1>1, <1>3, <2>5, HandledKeepsSessions
<1>11. PlaceInv'
  <2>1. ~In(moveOutQ[p], i)
    BY <1>1, <1>2, <1>3 DEF UserSupport
  <2>2. Pushed(moveOutQ', moveOutQ, p, i)
    <3>1. PICK R : R = moveOutQ'
      OBVIOUS
    <3>2. Pushed(R, moveOutQ, p, i)
      BY <1>1, <1>8, <2>1, <3>1, QueueAppend
    <3>3. QED
      BY <3>1, <3>2
  <2>3. MovesOut(s, i, p, y)
    BY <1>1, <1>2, <1>3, <1>6, <1>7, <1>8, <2>2 DEF MovesOut
  <2>4. QED
    BY <1>1, <1>3, <2>3, PlacesMoving
<1>12. StopInv'
  <2>1. Quiet(y)
    BY <1>1, <1>3, <1>6, <1>8 DEF Quiet, StopInv, StartSupport
  <2>2. QED
    BY <1>1, <1>3, <1>4, <1>6, <1>7, <1>8, <2>1, GoingKeepsStop
<1>13. QED
  BY <1>10, <1>11, <1>12 DEF CoreInv

LEMMA PipeStepKeeps ==
  ASSUME CoreInv, use = "pipe", NEW p \in Pipes, PipeStep(p)
  PROVE  CoreInv'
<1>1. CASE \E i \in IDs : DequeueJob(p, i)
  BY <1>1, DequeueJobKeeps
<1>2. CASE \E i \in IDs, c \in Codes : MovePipe(p, i, c)
  BY <1>2, MovePipeKeeps
<1>3. QED
  BY <1>1, <1>2, JoinKeeps, MoveInKeeps, MoveOutKeeps, LeavePipeKeeps, EndFrameKeeps DEF PipeStep

-----------------------------------------------------------------------------
(* The server: its sessions, users and threads.                            *)

LEMMA ControlKeeps ==
  ASSUME CoreInv, Control
  PROVE  CoreInv'
BY StartKeeps, ServerInitiateKeeps, RunThreadsKeeps, StopKeeps, PostQuitKeeps, StopRunningKeeps, StopDoneKeeps
   DEF Control

LEMMA WorkerStepKeeps ==
  ASSUME SendsFitMode, CoreInv, NEW w \in Workers, WorkerStep(w)
  PROVE  CoreInv'
<1>1. CASE \E s \in Slots : TakeRecv(w, s) \/ TakeSend(w, s)
  BY <1>1, TakeRecvKeeps, TakeSendKeeps
<1>2. CASE \E i \in IDs : TakeLeave(w, i)
  BY <1>2, TakeLeaveKeeps
<1>3. CASE OnSendComplete(w) \/ TakeSign(w) \/ TakeSet(w)
  BY <1>3, OnSendCompleteKeeps, TakeSignKeeps, TakeSetKeeps
<1>4. CASE SetWithoutID(w) \/ SetOneID(w) \/ SendAndDisconnectPost(w)
  BY <1>4, SetWithoutIDKeeps, SetOneIDKeeps, SendAndDisconnectPostKeeps
<1>5. CASE EndSet(w) \/ WorkerEnds(w)
  BY <1>5, EndSetKeeps, WorkerEndsKeeps
<1>6. QED
  BY <1>1, <1>2, <1>3, <1>4, <1>5 DEF WorkerStep

LEMMA ApplicationKeeps ==
  ASSUME SendsFitMode, CoreInv, Application
  PROVE  CoreInv'
<1>1. CASE \E i \in IDs : Disconnect(i)
  BY <1>1, DisconnectKeepsCore
<1>2. CASE \E i \in IDs, p \in Packets : SendPacket(i, p) \/ AsyncSendPacket(i, p)
  BY <1>2, SendPacketKeeps, AsyncSendPacketKeeps
<1>3. CASE \E ids \in Broadcasts, key \in {"send", "last"}, p \in Packets : SendToSet(ids, key, p)
  BY <1>3, SendToSetKeeps
<1>4. QED
  BY <1>1, <1>2, <1>3 DEF Application

LEMMA NothingChanges ==
  ASSUME CoreInv, UNCHANGED lanVars
  PROVE  CoreInv'
<1>1. UNCHANGED <<isSendIOPending, isLogicMultithreaded, use, main, isRunning, quit, free, slotOf, sess, port, worker,
                  calls, leavePosts, userMap, joinQ, moveInQ, moveOutQ, leaveQ, phase>>
  BY DEF lanVars, params, mainVars, idVars, leftVars, pipeVars, pipeQs
<1>2. StopInv'
  BY <1>1 DEF CoreInv, StopInv, StopTypes, StartSupport, StopSupport, Begun
<1>3. QED
  BY <1>1, <1>2, MainStep

LEMMA LanStep ==
  ASSUME SendsFitMode, CoreInv, LanNext
  PROVE  CoreInv'
<1>1. CASE Control
  BY <1>1, ControlKeeps
<1>2. CASE \E s \in Slots : RecvEnds(s) \/ SendEnds(s)
  BY <1>2, RecvEndsKeeps, SendEndsKeeps
<1>3. CASE \E s \in Slots : \E i \in IDs : Accept(s, i)
  BY <1>3, AcceptKeeps
<1>4. CASE \E w \in Workers : WorkerStep(w)
  BY <1>4, WorkerStepKeeps
<1>5. CASE Application
  BY <1>5, ApplicationKeeps
<1>6. CASE use = "pipe" /\ \E p \in Pipes : PipeStep(p)
  BY <1>6, PipeStepKeeps
<1>7. QED
  BY <1>1, <1>2, <1>3, <1>4, <1>5, <1>6 DEF LanNext

\* References, flags and places, where sends fit the mode (SendsFitMode: none pends
\* without isSendIOPending_, and none succeeds at once with it; without it the count
\* is wrong, run lan_last_message): every session has just the references of those
\* that use it, and a user is in one place, where Start and Stop find it
\* (LanServer.h 424-445, LanServer.cpp 41-104, 505-620, 1117-1255, LanPipe.cpp 127-205).
THEOREM Core == SendsFitMode => (LanSpec => []CoreInv)
<1> SUFFICES ASSUME SendsFitMode
    PROVE  LanSpec => []CoreInv
  OBVIOUS
<1>1. LanInit => CoreInv
  BY InitCore
<1>2. CoreInv /\ [LanNext]_lanVars => CoreInv'
  BY LanStep, NothingChanges
<1>3. QED
  BY <1>1, <1>2, PTL DEF LanSpec

-----------------------------------------------------------------------------
(* What follows for the sessions and users.                                *)

LEMMA AtMostOne ==
  ASSUME NEW S, NEW a, S \subseteq {a}
  PROVE  IsFiniteSet(S) /\ Cardinality(S) \in Nat /\ Cardinality(S) <= 1 /\ (S # {} => S = {a})
<1>1. IsFiniteSet({a}) /\ Cardinality({a}) = 1
  BY FS_Singleton
<1>2. IsFiniteSet(S) /\ Cardinality(S) <= 1
  BY <1>1, FS_Subset
<1>3. QED
  BY <1>2, FS_CardinalityType

LEMMA UsersInOnePlace ==
  ASSUME CoreInv, NEW i \in IDs
  PROVE  LET at == {p \in Pipes : i \in userMap[p]}
             coming == {p \in Pipes : \E k \in DOMAIN moveInQ[p] : moveInQ[p][k] = i}
         IN /\ Cardinality(at) + Cardinality(coming) <= 1
            /\ at \cup coming # {} => sess[slotOf[i]].id = i /\ sess[slotOf[i]].cur # NoPipe
            /\ \A p \in Pipes : (\E k \in DOMAIN leaveQ[p] : leaveQ[p][k] = i) => at = {p}
<1> DEFINE at == {p \in Pipes : i \in userMap[p]}
           coming == {p \in Pipes : \E k \in DOMAIN moveInQ[p] : moveInQ[p][k] = i}
           r == sess[slotOf[i]]
<1>1. \A p \in Pipes : /\ UserSupport(i, p)
                       /\ (\E k \in DOMAIN leaveQ[p] : leaveQ[p][k] = i) <=> In(leaveQ[p], i)
                       /\ p \in coming <=> In(moveInQ[p], i)
  BY DEF CoreInv, PlaceInv, In
<1>2. NoPipe \notin Pipes
  BY LanAssumption
<1>3. at \subseteq {r.cur} /\ (at # {} => r.id = i /\ r.cur # NoPipe)
  BY <1>1, <1>2 DEF UserSupport, Has
<1>4. coming \subseteq {r.dest} /\ (coming # {} => r.id = i /\ r.cur # NoPipe)
  BY <1>1 DEF UserSupport, Has
<1>5. coming # {} => at = {}
  BY <1>1, <1>3 DEF UserSupport
<1>6. Cardinality({}) = 0
  BY FS_EmptySet
<1> HIDE DEF at, coming, r
<1>7. Cardinality(at) + Cardinality(coming) <= 1
  <2>1. CASE coming = {}
    <3>1. Cardinality(at) \in Nat /\ Cardinality(at) <= 1
      BY <1>3, AtMostOne
    <3>2. QED
      BY <1>6, <2>1, <3>1
  <2>2. CASE coming # {}
    <3>1. Cardinality(coming) \in Nat /\ Cardinality(coming) <= 1
      BY <1>4, AtMostOne
    <3>2. Cardinality(at) = 0
      BY <1>5, <1>6, <2>2
    <3>3. QED
      BY <3>1, <3>2
  <2>3. QED
    BY <2>1, <2>2
<1> USE DEF at, coming, r
<1>8. at \cup coming # {} => r.id = i /\ r.cur # NoPipe
  BY <1>3, <1>4
<1>9. ASSUME NEW p \in Pipes, In(leaveQ[p], i)
      PROVE  at = {p}
  <2>1. i \in userMap[p]
    BY <1>1, <1>9 DEF UserSupport
  <2>2. p \in at
    BY <2>1
  <2> HIDE DEF at, r
  <2>3. at = {r.cur} /\ at # {}
    BY <1>3, <2>2, AtMostOne
  <2>4. QED
    BY <2>2, <2>3
<1>10. \A p \in Pipes : (\E k \in DOMAIN leaveQ[p] : leaveQ[p][k] = i) => at = {p}
  BY <1>1, <1>9
<1> QED
  BY <1>7, <1>8, <1>10

\* Where sends fit the mode (SendsFitMode; not otherwise, run lan_last_message) no
\* check of the server ends the process, for any number of slots, workers,
\* packets, pipes and sessions (LanServer.h 424-445, LanServer.cpp 1117-1255, LanPipe.cpp).
THEOREM NeverQuits == SendsFitMode => (LanSpec => []LanNeverQuits)
<1>1. CoreInv => LanNeverQuits
  BY DEF CoreInv, SessionInv
<1>2. QED
  BY <1>1, Core, PTL

LEMMA SessionsEndOnce ==
  ASSUME CoreInv
  PROVE  LeftOnce /\ UsersKeepTheirSlot
<1>1. LeftOnce
  BY DEF CoreInv, SessionInv
<1>2. UsersKeepTheirSlot
  BY UsersInOnePlace DEF UsersKeepTheirSlot
<1>3. QED
  BY <1>1, <1>2

-----------------------------------------------------------------------------
(* How many members the sets of a family have together.                    *)

Pairs(f) == UNION {{x} \X f[x] : x \in DOMAIN f}
Finite(f) == IsFiniteSet(DOMAIN f) /\ \A x \in DOMAIN f : IsFiniteSet(f[x])
Without(f, x) == [y \in DOMAIN f \ {x} |-> f[y]]

LEMMA PairsOf ==
  ASSUME NEW f
  PROVE  /\ \A x, y : <<x, y>> \in Pairs(f) <=> x \in DOMAIN f /\ y \in f[x]
         /\ \A z \in Pairs(f) : \E x \in DOMAIN f : \E y \in f[x] : z = <<x, y>>
BY DEF Pairs

LEMMA PairsFinite ==
  ASSUME NEW f, Finite(f)
  PROVE  /\ IsFiniteSet(Pairs(f)) /\ Total(f) = Cardinality(Pairs(f)) /\ Total(f) \in Nat
<1> DEFINE T == {{x} \X f[x] : x \in DOMAIN f}
           part == [x \in DOMAIN f |-> {x} \X f[x]]
<1>1. part \in Surjection(DOMAIN f, T)
  BY DEF Surjection
<1>2. IsFiniteSet(T)
  BY <1>1, FS_Surjection DEF Finite
<1>3. \A t \in T : IsFiniteSet(t)
  <2>1. ASSUME NEW x \in DOMAIN f
        PROVE  IsFiniteSet({x} \X f[x])
    <3>1. IsFiniteSet({x}) /\ IsFiniteSet(f[x])
      BY FS_Singleton DEF Finite
    <3>2. QED
      BY <3>1, FS_Product
  <2>2. QED
    BY <2>1
<1>4. IsFiniteSet(UNION T)
  <2> HIDE DEF T
  <2> QED
    BY <1>2, <1>3, FS_UNION
<1>5. IsFiniteSet(Pairs(f)) /\ Total(f) = Cardinality(Pairs(f))
  BY <1>4 DEF Pairs, Total
<1>6. QED
  BY <1>5, FS_CardinalityType

LEMMA SameSize ==
  ASSUME NEW S, NEW T, IsFiniteSet(S), NEW g \in Bijection(S, T)
  PROVE  IsFiniteSet(T) /\ Cardinality(T) = Cardinality(S)
<1>1. ExistsBijection(S, T)
  BY DEF ExistsBijection
<1>2. QED
  BY <1>1, FS_Bijection

LEMMA TotalOne ==
  ASSUME NEW f, Finite(f), NEW x \in DOMAIN f
  PROVE  /\ Finite(Without(f, x)) /\ Cardinality(f[x]) \in Nat
         /\ Total(f) = Total(Without(f, x)) + Cardinality(f[x])
<1> DEFINE g == Without(f, x)
           one == {x} \X f[x]
<1>1. DOMAIN g = DOMAIN f \ {x} /\ \A y \in DOMAIN g : g[y] = f[y]
  BY DEF Without
<1>2. Finite(g)
  BY <1>1, FS_RemoveElement DEF Finite
<1>3. IsFiniteSet(f[x]) /\ Cardinality(f[x]) \in Nat
  BY FS_CardinalityType DEF Finite
<1>4. IsFiniteSet(one) /\ Cardinality(one) = Cardinality(f[x])
  <2> DEFINE h == [y \in f[x] |-> <<x, y>>]
  <2>1. h \in [f[x] -> one] /\ \A y \in f[x] : h[y] = <<x, y>>
    OBVIOUS
  <2>2. \A z \in one : \E y \in f[x] : h[y] = z
    OBVIOUS
  <2>3. \A y, z \in f[x] : h[y] = h[z] => y = z
    BY <2>1
  <2> HIDE DEF one, h
  <2>4. h \in Bijection(f[x], one)
    BY <2>1, <2>2, <2>3 DEF Bijection, Injection, Surjection, IsInjective
  <2>5. QED
    BY <1>3, <2>4, SameSize
<1>5. Pairs(f) = Pairs(g) \cup one /\ Pairs(g) \cap one = {}
  <2> HIDE DEF g
  <2>1. ASSUME NEW z \in Pairs(f)
        PROVE  z \in Pairs(g) \cup one
    <3>1. PICK u, v : u \in DOMAIN f /\ v \in f[u] /\ z = <<u, v>>
      BY PairsOf
    <3>2. QED
      BY <1>1, <3>1, PairsOf
  <2>2. ASSUME NEW z \in Pairs(g)
        PROVE  z \in Pairs(f) /\ z \notin one
    <3>1. PICK u, v : u \in DOMAIN g /\ v \in g[u] /\ z = <<u, v>>
      BY PairsOf
    <3>2. u \in DOMAIN f /\ u # x /\ v \in f[u]
      BY <1>1, <3>1
    <3>3. QED
      BY <3>1, <3>2, PairsOf
  <2>3. ASSUME NEW z \in one
        PROVE  z \in Pairs(f)
    BY PairsOf
  <2>4. QED
    BY <2>1, <2>2, <2>3
<1>6. Total(f) = Cardinality(Pairs(f)) /\ Total(g) = Cardinality(Pairs(g)) /\ IsFiniteSet(Pairs(g))
      /\ Total(g) \in Nat
  <2> HIDE DEF g
  <2> QED
    BY <1>2, PairsFinite
<1> HIDE DEF g, one
<1>7. Cardinality(Pairs(g) \cup one) = Cardinality(Pairs(g)) + Cardinality(one) - Cardinality({})
  BY <1>4, <1>5, <1>6, FS_Union
<1>8. Total(f) = Total(g) + Cardinality(f[x])
  <2>1. Cardinality({}) = 0
    BY FS_EmptySet
  <2>2. QED
    BY <1>3, <1>4, <1>5, <1>6, <1>7, <2>1
<1>9. QED
  BY <1>2, <1>3, <1>8 DEF g

\* the family changes at x only
LEMMA TotalExcept ==
  ASSUME NEW f, NEW g, Finite(f), NEW x \in DOMAIN f, DOMAIN g = DOMAIN f, IsFiniteSet(g[x]),
         \A y \in DOMAIN f : y # x => g[y] = f[y]
  PROVE  /\ Finite(g) /\ Total(f) \in Nat /\ Total(g) \in Nat
         /\ Cardinality(f[x]) \in Nat /\ Cardinality(g[x]) \in Nat
         /\ Total(g) = Total(f) - Cardinality(f[x]) + Cardinality(g[x])
<1>1. Without(f, x) = Without(g, x)
  BY DEF Without
<1>2. Finite(g)
  <2>1. ASSUME NEW y \in DOMAIN g
        PROVE  IsFiniteSet(g[y])
    BY DEF Finite
  <2>2. QED
    BY <2>1 DEF Finite
<1>3. /\ Total(f) = Total(Without(f, x)) + Cardinality(f[x]) /\ Cardinality(f[x]) \in Nat
      /\ Finite(Without(f, x))
  BY TotalOne
<1>4. Total(g) = Total(Without(g, x)) + Cardinality(g[x]) /\ Cardinality(g[x]) \in Nat
  BY <1>2, TotalOne
<1>5. Total(Without(f, x)) \in Nat /\ Total(f) \in Nat /\ Total(g) \in Nat
  BY <1>2, <1>3, PairsFinite
<1> DEFINE a == Total(Without(f, x))
           b == Total(Without(g, x))
<1>6. a = b
  BY <1>1
<1>7. Total(f) = a + Cardinality(f[x]) /\ Total(g) = b + Cardinality(g[x]) /\ a \in Nat
  BY <1>3, <1>4, <1>5
<1> HIDE DEF a, b
<1>8. Total(g) = Total(f) - Cardinality(f[x]) + Cardinality(g[x])
  BY <1>3, <1>4, <1>6, <1>7
<1>9. QED
  BY <1>2, <1>3, <1>4, <1>5, <1>8

\* the same sets under other names
LEMMA TotalRenamed ==
  ASSUME NEW f, NEW g, Finite(f), NEW m \in Bijection(DOMAIN f, DOMAIN g),
         \A x \in DOMAIN f : g[m[x]] = f[x]
  PROVE  Total(g) = Total(f) /\ Finite(g)
<1>1. /\ \A x \in DOMAIN f : m[x] \in DOMAIN g
      /\ \A x, y \in DOMAIN f : m[x] = m[y] => x = y
      /\ \A z \in DOMAIN g : \E x \in DOMAIN f : m[x] = z
  BY DEF Bijection, Injection, Surjection, IsInjective
<1>2. Finite(g)
  <2>1. IsFiniteSet(DOMAIN g)
    BY SameSize DEF Finite
  <2>2. \A z \in DOMAIN g : IsFiniteSet(g[z])
    BY <1>1 DEF Finite
  <2>3. QED
    BY <2>1, <2>2 DEF Finite
<1> DEFINE h == [z \in Pairs(f) |-> <<m[z[1]], z[2]>>]
<1>3. ASSUME NEW z \in Pairs(f)
      PROVE  /\ z = <<z[1], z[2]>> /\ z[1] \in DOMAIN f /\ z[2] \in f[z[1]]
             /\ h[z] = <<m[z[1]], z[2]>> /\ h[z] \in Pairs(g)
  <2>1. PICK u, v : u \in DOMAIN f /\ v \in f[u] /\ z = <<u, v>>
    BY PairsOf
  <2>2. z = <<z[1], z[2]>> /\ z[1] = u /\ z[2] = v
    BY <2>1
  <2>3. <<m[u], v>> \in Pairs(g)
    BY <1>1, <2>1, PairsOf
  <2>4. QED
    BY <2>1, <2>2, <2>3
<1>4. ASSUME NEW y \in Pairs(f), NEW z \in Pairs(f), h[y] = h[z]
      PROVE  y = z
  <2>1. m[y[1]] = m[z[1]] /\ y[2] = z[2]
    BY <1>3, <1>4
  <2>2. y[1] = z[1]
    <3>1. y[1] \in DOMAIN f /\ z[1] \in DOMAIN f
      BY <1>3
    <3> HIDE DEF h
    <3>2. QED
      BY <1>1, <2>1, <3>1
  <2>3. y = <<y[1], y[2]>> /\ z = <<z[1], z[2]>>
    BY <1>3
  <2>4. QED
    BY <2>1, <2>2, <2>3
<1>5. ASSUME NEW z \in Pairs(g)
      PROVE  \E y \in Pairs(f) : h[y] = z
  <2>1. PICK u, v : u \in DOMAIN g /\ v \in g[u] /\ z = <<u, v>>
    BY PairsOf
  <2>2. PICK x \in DOMAIN f : m[x] = u
    BY <1>1, <2>1
  <2>3. <<x, v>> \in Pairs(f)
    BY <2>1, <2>2, PairsOf
  <2>4. h[<<x, v>>] = z
    BY <2>1, <2>2, <2>3
  <2>5. QED
    BY <2>3, <2>4
<1>6. h \in Bijection(Pairs(f), Pairs(g))
  <2>1. h \in [Pairs(f) -> Pairs(g)]
    BY <1>3
  <2> HIDE DEF h
  <2>2. QED
    BY <1>4, <1>5, <2>1 DEF Bijection, Injection, Surjection, IsInjective
<1>7. IsFiniteSet(Pairs(f)) /\ Total(f) = Cardinality(Pairs(f)) /\ Total(g) = Cardinality(Pairs(g))
  BY <1>2, PairsFinite
<1>8. Cardinality(Pairs(g)) = Cardinality(Pairs(f))
  <2> HIDE DEF h
  <2> QED
    BY <1>6, <1>7, SameSize
<1>9. QED
  BY <1>2, <1>7, <1>8

LEMMA TotalTail ==
  ASSUME NEW f, NEW g, NEW n \in Nat, Finite(f), DOMAIN f = 1 .. n + 1, DOMAIN g = 1 .. n,
         \A k \in 1 .. n : g[k] = f[k + 1]
  PROVE  /\ Total(f) \in Nat /\ Total(g) \in Nat /\ Cardinality(f[1]) \in Nat
         /\ Total(g) = Total(f) - Cardinality(f[1]) /\ Finite(g)
<1> DEFINE r == Without(f, 1)
           m == [k \in 2 .. n + 1 |-> k - 1]
<1>1. 1 \in DOMAIN f
  OBVIOUS
<1>2. Finite(r) /\ Cardinality(f[1]) \in Nat /\ Total(f) = Total(r) + Cardinality(f[1])
  BY <1>1, TotalOne
<1>3. DOMAIN r = 2 .. n + 1 /\ \A k \in 2 .. n + 1 : r[k] = f[k]
  BY DEF Without
<1>4. m \in Bijection(2 .. n + 1, 1 .. n)
  <2>1. m \in [2 .. n + 1 -> 1 .. n]
    OBVIOUS
  <2>2. \A k \in 1 .. n : k + 1 \in 2 .. n + 1 /\ m[k + 1] = k
    OBVIOUS
  <2>3. \A j, k \in 2 .. n + 1 : m[j] = m[k] => j = k
    OBVIOUS
  <2> HIDE DEF m
  <2>4. QED
    BY <2>1, <2>2, <2>3 DEF Bijection, Injection, Surjection, IsInjective
<1>5. \A k \in 2 .. n + 1 : g[m[k]] = r[k]
  BY <1>3
<1> HIDE DEF r, m
<1>6. Total(g) = Total(r) /\ Finite(g)
  <2>1. m \in Bijection(DOMAIN r, DOMAIN g)
    BY <1>3, <1>4
  <2>2. \A x \in DOMAIN r : g[m[x]] = r[x]
    BY <1>3, <1>5
  <2>3. Finite(r)
    BY <1>2
  <2>4. QED
    BY <2>1, <2>2, <2>3, TotalRenamed
<1>7. Total(f) \in Nat /\ Total(g) \in Nat
  BY <1>6, PairsFinite
<1>8. QED
  BY <1>2, <1>6, <1>7

LEMMA TotalJoined ==
  ASSUME NEW f, NEW g, NEW h, Finite(g), Finite(h), DOMAIN f = DOMAIN g \cup DOMAIN h,
         DOMAIN g \cap DOMAIN h = {},
         \A x \in DOMAIN g : f[x] = g[x], \A x \in DOMAIN h : f[x] = h[x]
  PROVE  /\ Total(f) = Total(g) + Total(h) /\ Finite(f)
         /\ Total(g) \in Nat /\ Total(h) \in Nat
<1>1. Finite(f)
  <2>1. IsFiniteSet(DOMAIN g \cup DOMAIN h)
    BY FS_Union DEF Finite
  <2>2. \A x \in DOMAIN f : IsFiniteSet(f[x])
    BY DEF Finite
  <2>3. QED
    BY <2>1, <2>2 DEF Finite
<1>2. /\ Total(f) = Cardinality(Pairs(f)) /\ Total(g) = Cardinality(Pairs(g)) /\ Total(h) = Cardinality(Pairs(h))
      /\ IsFiniteSet(Pairs(g)) /\ IsFiniteSet(Pairs(h)) /\ Total(g) \in Nat /\ Total(h) \in Nat
  BY <1>1, PairsFinite
<1>3. Pairs(f) = Pairs(g) \cup Pairs(h)
  <2>1. ASSUME NEW z \in Pairs(f)
        PROVE  z \in Pairs(g) \cup Pairs(h)
    <3>1. PICK u, v : u \in DOMAIN f /\ v \in f[u] /\ z = <<u, v>>
      BY PairsOf
    <3>2. QED
      BY <3>1, PairsOf
  <2>2. ASSUME NEW z \in Pairs(g)
        PROVE  z \in Pairs(f)
    <3>1. PICK u, v : u \in DOMAIN g /\ v \in g[u] /\ z = <<u, v>>
      BY PairsOf
    <3>2. QED
      BY <3>1, PairsOf
  <2>3. ASSUME NEW z \in Pairs(h)
        PROVE  z \in Pairs(f)
    <3>1. PICK u, v : u \in DOMAIN h /\ v \in h[u] /\ z = <<u, v>>
      BY PairsOf
    <3>2. QED
      BY <3>1, PairsOf
  <2>4. QED
    BY <2>1, <2>2, <2>3
<1>4. Pairs(g) \cap Pairs(h) = {}
  <2>1. ASSUME NEW z \in Pairs(g), z \in Pairs(h)
        PROVE  FALSE
    <3>1. PICK u, v : u \in DOMAIN g /\ v \in g[u] /\ z = <<u, v>>
      BY PairsOf
    <3>2. PICK x, y : x \in DOMAIN h /\ y \in h[x] /\ z = <<x, y>>
      BY <2>1, PairsOf
    <3>3. u = x
      BY <3>1, <3>2
    <3>4. QED
      BY <3>1, <3>2, <3>3
  <2>2. QED
    BY <2>1
<1>5. Cardinality(Pairs(g) \cup Pairs(h)) = Cardinality(Pairs(g)) + Cardinality(Pairs(h)) - Cardinality({})
  BY <1>2, <1>4, FS_Union
<1>6. Cardinality({}) = 0
  BY FS_EmptySet
<1>7. QED
  BY <1>1, <1>2, <1>3, <1>5, <1>6

\* f is the sequence g of n sets, and the sequence h of m sets after it
OneAfter(f, g, h, n, m) ==
  /\ n \in Nat /\ m \in Nat /\ Finite(g) /\ Finite(h)
  /\ DOMAIN f = 1 .. n + m /\ DOMAIN g = 1 .. n /\ DOMAIN h = 1 .. m
  /\ \A k \in 1 .. n : f[k] = g[k]
  /\ \A k \in 1 .. m : f[n + k] = h[k]

LEMMA TotalConcat ==
  ASSUME NEW f, NEW g, NEW h, NEW n, NEW m, OneAfter(f, g, h, n, m)
  PROVE  /\ Total(f) = Total(g) + Total(h) /\ Finite(f)
         /\ Total(g) \in Nat /\ Total(h) \in Nat
<1> USE DEF OneAfter
<1> DEFINE e == [k \in n + 1 .. n + m |-> f[k]]
           b == [k \in 1 .. m |-> n + k]
<1>1. b \in Bijection(1 .. m, n + 1 .. n + m)
  <2>1. b \in [1 .. m -> n + 1 .. n + m]
    OBVIOUS
  <2>2. \A k \in n + 1 .. n + m : k - n \in 1 .. m /\ b[k - n] = k
    OBVIOUS
  <2>3. \A j, k \in 1 .. m : b[j] = b[k] => j = k
    OBVIOUS
  <2> HIDE DEF b
  <2>4. QED
    BY <2>1, <2>2, <2>3 DEF Bijection, Injection, Surjection, IsInjective
<1>2. DOMAIN e = n + 1 .. n + m /\ \A k \in 1 .. m : e[b[k]] = h[k]
  OBVIOUS
<1>3. \A k \in n + 1 .. n + m : e[k] = f[k]
  OBVIOUS
<1>4. /\ DOMAIN f = (1 .. n) \cup (n + 1 .. n + m) /\ (1 .. n) \cap (n + 1 .. n + m) = {}
  OBVIOUS
<1> HIDE DEF e, b
<1>5. Total(e) = Total(h) /\ Finite(e)
  <2>1. b \in Bijection(DOMAIN h, DOMAIN e) /\ \A k \in DOMAIN h : e[b[k]] = h[k]
    BY <1>1, <1>2
  <2>2. QED
    BY <2>1, TotalRenamed
<1>6. Total(f) = Total(g) + Total(e) /\ Finite(f) /\ Total(g) \in Nat /\ Total(e) \in Nat
  <2>1. DOMAIN f = DOMAIN g \cup DOMAIN e /\ DOMAIN g \cap DOMAIN e = {}
    BY <1>2, <1>4
  <2>2. (\A x \in DOMAIN g : f[x] = g[x]) /\ (\A x \in DOMAIN e : f[x] = e[x])
    BY <1>2, <1>3
  <2>3. QED
    BY <1>5, <2>1, <2>2, TotalJoined, ZenonT(40)
<1>7. QED
  BY <1>5, <1>6

LEMMA TotalNothing ==
  ASSUME NEW f, \A x \in DOMAIN f : f[x] = {}
  PROVE  Total(f) = 0
<1>1. Pairs(f) = {}
  BY PairsOf
<1>2. QED
  BY <1>1, FS_EmptySet DEF Pairs, Total

-----------------------------------------------------------------------------
(* How often a packet is in a queue.                                       *)

Count(q, p) == Cardinality(Places(q, p))

LEMMA PlacesFinite ==
  ASSUME NEW S, NEW q \in Seq(S), NEW p
  PROVE  IsFiniteSet(Places(q, p)) /\ Count(q, p) \in Nat
<1>1. Places(q, p) \subseteq 1 .. Len(q) /\ Len(q) \in Nat
  BY DEF Places
<1>2. IsFiniteSet(1 .. Len(q))
  BY <1>1, FS_Interval
<1>3. IsFiniteSet(Places(q, p))
  BY <1>1, <1>2, FS_Subset
<1>4. QED
  BY <1>3, FS_CardinalityType DEF Count

LEMMA CountEmpty == \A p : Count(<<>>, p) = 0
<1>1. \A p : Places(<<>>, p) = {}
  BY DEF Places
<1>2. QED
  BY <1>1, FS_EmptySet DEF Count

LEMMA CountAppend ==
  ASSUME NEW S, NEW q \in Seq(S), NEW x \in S, NEW p
  PROVE  Count(Append(q, x), p) = Count(q, p) + (IF x = p THEN 1 ELSE 0)
<1>1. /\ Len(q) \in Nat /\ DOMAIN q = 1 .. Len(q) /\ DOMAIN Append(q, x) = 1 .. Len(q) + 1
      /\ Append(q, x)[Len(q) + 1] = x /\ \A k \in 1 .. Len(q) : Append(q, x)[k] = q[k]
  OBVIOUS
<1>2. Places(Append(q, x), p) = Places(q, p) \cup (IF x = p THEN {Len(q) + 1} ELSE {})
  BY <1>1 DEF Places
<1>3. Len(q) + 1 \notin Places(q, p)
  BY <1>1 DEF Places
<1>4. IsFiniteSet(Places(q, p)) /\ Count(q, p) \in Nat
  BY PlacesFinite
<1>5. CASE x = p
  <2>1. Cardinality(Places(q, p) \cup {Len(q) + 1}) = Cardinality(Places(q, p)) + 1
    BY <1>3, <1>4, FS_AddElement
  <2>2. QED
    BY <1>2, <1>5, <2>1 DEF Count
<1>6. CASE x # p
  BY <1>2, <1>4, <1>6 DEF Count
<1>7. QED
  BY <1>5, <1>6

LEMMA CountConcat ==
  ASSUME NEW S, NEW a \in Seq(S), NEW b \in Seq(S), NEW p
  PROVE  /\ a \o b \in Seq(S)
         /\ Count(a \o b, p) = Count(a, p) + Count(b, p)
<1>1. /\ Len(a) \in Nat /\ Len(b) \in Nat /\ DOMAIN a = 1 .. Len(a) /\ DOMAIN b = 1 .. Len(b)
      /\ a \o b \in Seq(S) /\ DOMAIN (a \o b) = 1 .. Len(a) + Len(b)
      /\ \A k \in 1 .. Len(a) : (a \o b)[k] = a[k]
      /\ \A k \in 1 .. Len(b) : (a \o b)[Len(a) + k] = b[k]
  OBVIOUS
<1> DEFINE n == Len(a)
           late == {k \in DOMAIN (a \o b) : k > n /\ (a \o b)[k] = p}
           m == [k \in Places(b, p) |-> n + k]
<1>2. Places(a \o b, p) = Places(a, p) \cup late /\ Places(a, p) \cap late = {}
  <2>1. \A k \in Places(a \o b, p) : k \in Places(a, p) \cup late
    BY <1>1 DEF Places
  <2>2. \A k \in Places(a, p) : k \in Places(a \o b, p) /\ k \notin late
    BY <1>1 DEF Places
  <2>3. \A k \in late : k \in Places(a \o b, p)
    BY DEF Places
  <2>4. QED
    BY <2>1, <2>2, <2>3
<1>3. m \in Bijection(Places(b, p), late)
  <2>1. \A k \in Places(b, p) : n + k \in late /\ k \in Nat
    BY <1>1 DEF Places
  <2>2. \A k \in late : k - n \in Places(b, p) /\ n + (k - n) = k
    <3>1. SUFFICES ASSUME NEW k \in late
                   PROVE  k - n \in Places(b, p) /\ n + (k - n) = k
      OBVIOUS
    <3>2. k \in 1 .. Len(a) + Len(b) /\ k > n /\ (a \o b)[k] = p
      BY <1>1
    <3>3. k - n \in 1 .. Len(b) /\ n + (k - n) = k
      BY <1>1, <3>2
    <3>4. b[k - n] = p
      BY <1>1, <3>2, <3>3
    <3>5. QED
      BY <1>1, <3>3, <3>4 DEF Places
  <2>3. m \in [Places(b, p) -> late] /\ \A k \in Places(b, p) : m[k] = n + k
    BY <2>1
  <2>4. n \in Nat
    BY <1>1
  <2> HIDE DEF m, late, n
  <2>5. QED
    BY <2>1, <2>2, <2>3, <2>4 DEF Bijection, Injection, Surjection, IsInjective
<1>4. IsFiniteSet(Places(a, p)) /\ IsFiniteSet(Places(b, p)) /\ Count(a, p) \in Nat /\ Count(b, p) \in Nat
  BY PlacesFinite
<1> HIDE DEF m, late, n
<1>5. IsFiniteSet(late) /\ Cardinality(late) = Count(b, p)
  BY <1>3, <1>4, SameSize DEF Count
<1>6. Cardinality(Places(a, p) \cup late) = Cardinality(Places(a, p)) + Cardinality(late) - Cardinality({})
  BY <1>2, <1>4, <1>5, FS_Union, ZenonT(40), ZenonT(40)
<1>7. Cardinality({}) = 0
  BY FS_EmptySet
<1>8. QED
  BY <1>1, <1>2, <1>4, <1>5, <1>6, <1>7 DEF Count

-----------------------------------------------------------------------------
(* The references of a packet, by who has them.                            *)

QueueCount(r, p) == Count(r.sendQ \o r.sentQ, p)
Left(v, p) == IF v.packet = p /\ v.pc \in {"set", "spin"} THEN Len(v.ids) ELSE 0
PostLeft(m, p) == IF m.packet = p /\ m.key # "sign" THEN Len(m.ids) ELSE 0

InSessions(p) == Total([s \in Slots |-> Places(sess[s].sendQ \o sess[s].sentQ, p)])
WithWorkers(p) == Total([w \in Workers |-> LeftOf(w, p)])
OnPort(p) == Total([k \in DOMAIN port |-> LeftIn(k, p)])

LEMMA IdsDomain ==
  ASSUME NEW q \in Seq(IDs)
  PROVE  IsFiniteSet(DOMAIN q) /\ Cardinality(DOMAIN q) = Len(q) /\ Len(q) \in Nat
<1>1. DOMAIN q = 1 .. Len(q) /\ Len(q) \in Nat
  OBVIOUS
<1>2. IsFiniteSet(1 .. Len(q)) /\ Cardinality(1 .. Len(q)) = (IF 1 > Len(q) THEN 0 ELSE Len(q) - 1 + 1)
  BY <1>1, FS_Interval
<1>3. QED
  BY <1>1, <1>2

LEMMA SessionsCounted ==
  ASSUME SessionTypes, NEW p
  PROVE  Finite([s \in Slots |-> Places(sess[s].sendQ \o sess[s].sentQ, p)]) /\ InSessions(p) \in Nat
<1> DEFINE f == [s \in Slots |-> Places(sess[s].sendQ \o sess[s].sentQ, p)]
<1>1. ASSUME NEW s \in Slots
      PROVE  IsFiniteSet(f[s])
  <2>1. sess[s].sendQ \o sess[s].sentQ \in Seq(Packets)
    BY DEF SessionTypes, Sessions
  <2>2. QED
    BY <2>1, PlacesFinite
<1>2. Finite(f)
  BY <1>1, LanAssumption DEF Finite
<1>3. QED
  BY <1>2, PairsFinite DEF InSessions

LEMMA WorkersCounted ==
  ASSUME SessionTypes, NEW p
  PROVE  /\ Finite([w \in Workers |-> LeftOf(w, p)]) /\ WithWorkers(p) \in Nat
         /\ \A w \in Workers : Cardinality(LeftOf(w, p)) = Left(worker[w], p) /\ Left(worker[w], p) \in Nat
<1> DEFINE f == [w \in Workers |-> LeftOf(w, p)]
<1>1. ASSUME NEW w \in Workers
      PROVE  IsFiniteSet(f[w]) /\ Cardinality(LeftOf(w, p)) = Left(worker[w], p) /\ Left(worker[w], p) \in Nat
  <2>1. worker[w].ids \in Seq(IDs)
    BY DEF SessionTypes, WorkerStates
  <2>2. IsFiniteSet({}) /\ Cardinality({}) = 0
    BY FS_EmptySet
  <2>3. /\ IsFiniteSet(DOMAIN worker[w].ids) /\ Cardinality(DOMAIN worker[w].ids) = Len(worker[w].ids)
        /\ Len(worker[w].ids) \in Nat
    BY <2>1, IdsDomain
  <2>4. QED
    BY <2>2, <2>3 DEF LeftOf, Left
<1>2. Finite(f)
  BY <1>1, LanAssumption DEF Finite
<1>3. QED
  BY <1>1, <1>2, PairsFinite DEF WithWorkers

LEMMA PortCounted ==
  ASSUME SessionTypes, NEW p
  PROVE  /\ Finite([k \in DOMAIN port |-> LeftIn(k, p)]) /\ OnPort(p) \in Nat
         /\ DOMAIN port = 1 .. Len(port) /\ Len(port) \in Nat
         /\ \A k \in DOMAIN port : Cardinality(LeftIn(k, p)) = PostLeft(port[k], p) /\ PostLeft(port[k], p) \in Nat
<1> DEFINE f == [k \in DOMAIN port |-> LeftIn(k, p)]
<1>1. ASSUME NEW k \in DOMAIN port
      PROVE  IsFiniteSet(f[k]) /\ Cardinality(LeftIn(k, p)) = PostLeft(port[k], p) /\ PostLeft(port[k], p) \in Nat
  <2>1. port[k].ids \in Seq(IDs)
    <3>1. port[k] \in Posts
      BY DEF SessionTypes
    <3>2. QED
      BY <3>1 DEF Posts
  <2>2. IsFiniteSet({}) /\ Cardinality({}) = 0
    BY FS_EmptySet
  <2>3. /\ IsFiniteSet(DOMAIN port[k].ids) /\ Cardinality(DOMAIN port[k].ids) = Len(port[k].ids)
        /\ Len(port[k].ids) \in Nat
    BY <2>1, IdsDomain
  <2>4. QED
    BY <2>2, <2>3 DEF LeftIn, PostLeft
<1>2. DOMAIN port = 1 .. Len(port) /\ Len(port) \in Nat
  BY DEF SessionTypes
<1>3. Finite(f)
  <2>1. IsFiniteSet(1 .. Len(port))
    BY <1>2, FS_Interval
  <2>2. QED
    BY <1>1, <1>2, <2>1 DEF Finite
<1>4. QED
  BY <1>1, <1>2, <1>3, PairsFinite DEF OnPort

LEMMA SlotCount ==
  ASSUME SessionTypes, NEW s \in Slots, \A t \in Slots : t # s => sess'[t] = sess[t], SessionTypes', NEW p
  PROVE  /\ InSessions(p)' = InSessions(p) - QueueCount(sess[s], p) + QueueCount(sess'[s], p)
         /\ InSessions(p) \in Nat /\ InSessions(p)' \in Nat
         /\ QueueCount(sess[s], p) \in Nat /\ QueueCount(sess'[s], p) \in Nat
<1>1. PICK f : f = [t \in Slots |-> Places(sess[t].sendQ \o sess[t].sentQ, p)]
  OBVIOUS
<1>2. PICK g : g = [t \in Slots |-> Places(sess'[t].sendQ \o sess'[t].sentQ, p)]
  OBVIOUS
<1>3. Finite(f) /\ InSessions(p) = Total(f)
  BY <1>1, SessionsCounted DEF InSessions
<1>4. InSessions(p)' = Total(g)
  BY <1>2 DEF InSessions
<1>5. IsFiniteSet(g[s])
  <2>1. sess'[s].sendQ \o sess'[s].sentQ \in Seq(Packets)
    BY DEF SessionTypes, Sessions
  <2>2. QED
    BY <1>2, <2>1, PlacesFinite
<1>6. /\ DOMAIN f = Slots /\ DOMAIN g = DOMAIN f /\ s \in DOMAIN f
      /\ \A t \in DOMAIN f : t # s => g[t] = f[t]
      /\ Cardinality(f[s]) = QueueCount(sess[s], p) /\ Cardinality(g[s]) = QueueCount(sess'[s], p)
  BY <1>1, <1>2 DEF QueueCount, Count
<1>7. /\ Total(f) \in Nat /\ Total(g) \in Nat /\ Cardinality(f[s]) \in Nat /\ Cardinality(g[s]) \in Nat
      /\ Total(g) = Total(f) - Cardinality(f[s]) + Cardinality(g[s])
  BY <1>3, <1>5, <1>6, TotalExcept
<1>8. QED
  BY <1>3, <1>4, <1>6, <1>7

LEMMA WorkerCount ==
  ASSUME SessionTypes, NEW w \in Workers, \A v \in Workers : v # w => worker'[v] = worker[v], SessionTypes', NEW p
  PROVE  /\ WithWorkers(p)' = WithWorkers(p) - Left(worker[w], p) + Left(worker'[w], p)
         /\ WithWorkers(p) \in Nat /\ WithWorkers(p)' \in Nat
         /\ Left(worker[w], p) \in Nat /\ Left(worker'[w], p) \in Nat
<1>1. PICK f : f = [v \in Workers |-> LeftOf(v, p)]
  OBVIOUS
<1>2. PICK g : g = [v \in Workers |-> LeftOf(v, p)']
  OBVIOUS
<1>3. Finite(f) /\ WithWorkers(p) = Total(f)
  BY <1>1, WorkersCounted DEF WithWorkers
<1>4. WithWorkers(p)' = Total(g)
  BY <1>2 DEF WithWorkers
<1>5. Cardinality(g[w]) = Left(worker'[w], p) /\ IsFiniteSet(g[w]) /\ Left(worker'[w], p) \in Nat
  <2>1. worker'[w].ids \in Seq(IDs)
    BY DEF SessionTypes, WorkerStates
  <2>2. IsFiniteSet({}) /\ Cardinality({}) = 0
    BY FS_EmptySet
  <2>3. /\ IsFiniteSet(DOMAIN worker'[w].ids) /\ Cardinality(DOMAIN worker'[w].ids) = Len(worker'[w].ids)
        /\ Len(worker'[w].ids) \in Nat
    BY <2>1, IdsDomain
  <2>4. g[w] = IF worker'[w].packet = p /\ worker'[w].pc \in {"set", "spin"} THEN DOMAIN worker'[w].ids ELSE {}
    BY <1>2 DEF LeftOf
  <2>5. QED
    BY <2>2, <2>3, <2>4 DEF Left
<1>6. /\ DOMAIN f = Workers /\ DOMAIN g = DOMAIN f /\ w \in DOMAIN f
      /\ \A v \in DOMAIN f : v # w => g[v] = f[v]
      /\ Cardinality(f[w]) = Left(worker[w], p) /\ Left(worker[w], p) \in Nat
  BY <1>1, <1>2, WorkersCounted DEF LeftOf
<1>7. /\ Total(f) \in Nat /\ Total(g) \in Nat
      /\ Total(g) = Total(f) - Cardinality(f[w]) + Cardinality(g[w])
  BY <1>3, <1>5, <1>6, TotalExcept
<1>8. QED
  BY <1>3, <1>4, <1>5, <1>6, <1>7

LEMMA PortCountTail ==
  ASSUME SessionTypes, port # <<>>, port' = Tail(port), NEW p
  PROVE  /\ OnPort(p)' = OnPort(p) - PostLeft(Head(port), p)
         /\ OnPort(p) \in Nat /\ OnPort(p)' \in Nat /\ PostLeft(Head(port), p) \in Nat
<1>1. PICK f : f = [k \in DOMAIN port |-> LeftIn(k, p)]
  OBVIOUS
<1>2. PICK g : g = [k \in DOMAIN port' |-> LeftIn(k, p)']
  OBVIOUS
<1>3. Finite(f) /\ OnPort(p) = Total(f)
  BY <1>1, PortCounted DEF OnPort
<1>4. OnPort(p)' = Total(g)
  BY <1>2 DEF OnPort
<1>5. PICK n \in Nat : n = Len(port) - 1
  <2>1. Len(port) \in Nat \ {0}
    BY PortTail
  <2>2. Len(port) - 1 \in Nat
    BY <2>1
  <2>3. QED
    BY <2>2
<1>6. /\ DOMAIN f = 1 .. n + 1 /\ DOMAIN g = 1 .. n
      /\ \A k \in 1 .. n : port'[k] = port[k + 1] /\ k + 1 \in DOMAIN port
  <2>1. n + 1 = Len(port)
    BY <1>5, PortTail
  <2>2. QED
    BY <1>1, <1>2, <1>5, <2>1, PortTail
<1>7. \A k \in 1 .. n : g[k] = f[k + 1]
  BY <1>1, <1>2, <1>6 DEF LeftIn
<1>8. f[1] = LeftIn(1, p) /\ Cardinality(f[1]) = PostLeft(Head(port), p) /\ PostLeft(Head(port), p) \in Nat
  BY <1>1, PortTail, PortCounted
<1>9. Total(f) \in Nat /\ Total(g) \in Nat /\ Total(g) = Total(f) - Cardinality(f[1])
  BY <1>3, <1>6, <1>7, TotalTail
<1>10. QED
  BY <1>3, <1>4, <1>8, <1>9

LEMMA TimesMonotone ==
  ASSUME NEW a \in Nat, NEW c \in Nat, NEW b \in Nat, a <= c
  PROVE  a * b <= c * b /\ a * b \in Nat /\ c * b \in Nat
<1>1. PICK d \in Nat : c = a + d
  <2>1. c - a \in Nat /\ c = a + (c - a)
    OBVIOUS
  <2>2. QED
    BY <2>1
<1>2. c * b = a * b + d * b /\ a * b \in Nat /\ d * b \in Nat
  BY <1>1
<1> DEFINE u == a * b
           v == d * b
           z == c * b
<1>3. z = u + v /\ u \in Nat /\ v \in Nat
  BY <1>2
<1> HIDE DEF u, v, z
<1>4. u <= z /\ u \in Nat /\ z \in Nat
  BY <1>3
<1>5. QED
  BY <1>4 DEF u, z

LEMMA SetInBlocks ==
  ASSUME NEW ids \in Seq(IDs), NEW f, f = [k \in DOMAIN Blocks(ids) |-> DOMAIN Blocks(ids)[k]]
  PROVE  Finite(f) /\ Total(f) = Len(ids) /\ Len(ids) \in Nat
<1>1. PICK n \in Nat : n = Len(ids)
  OBVIOUS
<1>2. PICK b \in Nat \ {0} : b = BlockSize(n)
  BY <1>1, BlockFacts
<1>3. PICK last \in Nat : last = (n + b - 1) \div b
  BY <1>1, <1>2, BlockFacts
<1>4. /\ DOMAIN f = 1 .. last
      /\ last * b <= n + b - 1 /\ n + b - 1 < last * b + b
  BY <1>1, <1>2, <1>3, BlockFacts
<1>5. ASSUME NEW k \in 1 .. last
      PROVE  /\ (k - 1) * b \in Nat /\ k * b \in Nat /\ k * b = (k - 1) * b + b /\ BlockEnd(n, b, k) \in Nat
             /\ (k - 1) * b < BlockEnd(n, b, k) /\ BlockEnd(n, b, k) <= n
             /\ f[k] = 1 .. (BlockEnd(n, b, k) - (k - 1) * b)
  <2>1. k \in DOMAIN Blocks(ids)
    BY <1>4
  <2>2. /\ (k - 1) * b \in Nat /\ k * b = (k - 1) * b + b
        /\ (k - 1) * b < BlockEnd(n, b, k) /\ BlockEnd(n, b, k) <= n /\ BlockEnd(n, b, k) \in Nat
        /\ DOMAIN Blocks(ids)[k] = 1 .. (BlockEnd(n, b, k) - (k - 1) * b)
    BY <1>1, <1>2, <2>1, BlockFacts
  <2>3. k * b \in Nat
    BY <2>2
  <2>4. QED
    BY <2>1, <2>2, <2>3
<1>6. Finite(f)
  <2>1. IsFiniteSet(1 .. last)
    BY FS_Interval
  <2>2. ASSUME NEW k \in 1 .. last
        PROVE  IsFiniteSet(f[k])
    <3>1. PICK c \in Int : c = BlockEnd(n, b, k) - (k - 1) * b
      <4>1. BlockEnd(n, b, k) \in Nat /\ (k - 1) * b \in Nat
        BY <1>5
      <4>2. QED
        BY <4>1
    <3>2. f[k] = 1 .. c
      <4>1. f[k] = 1 .. (BlockEnd(n, b, k) - (k - 1) * b)
        BY <1>5
      <4>2. QED
        BY <3>1, <4>1
    <3>3. IsFiniteSet(1 .. c)
      BY FS_Interval
    <3>4. QED
      BY <3>2, <3>3
  <2>3. QED
    BY <1>4, <2>1, <2>2 DEF Finite
<1> DEFINE h == [z \in Pairs(f) |-> (z[1] - 1) * b + z[2]]
<1>7. ASSUME NEW z \in Pairs(f)
      PROVE  /\ z = <<z[1], z[2]>> /\ z[1] \in 1 .. last /\ z[2] \in Nat /\ z[2] >= 1
             /\ (z[1] - 1) * b \in Nat /\ z[1] * b = (z[1] - 1) * b + b
             /\ h[z] = (z[1] - 1) * b + z[2] /\ h[z] \in 1 .. n /\ h[z] <= z[1] * b
  <2>1. PICK k, j : k \in DOMAIN f /\ j \in f[k] /\ z = <<k, j>>
    BY PairsOf
  <2>2. z[1] = k /\ z[2] = j /\ z = <<z[1], z[2]>> /\ k \in 1 .. last
    BY <1>4, <2>1
  <2>3. PICK a \in Nat : a = (k - 1) * b
    BY <1>5, <2>2
  <2>4. PICK c \in Nat : c = k * b
    BY <1>5, <2>2
  <2>5. PICK e \in Nat : e = BlockEnd(n, b, k)
    BY <1>5, <2>2
  <2>6. e = IF c < n THEN c ELSE n
    BY <2>4, <2>5 DEF BlockEnd
  <2>7. c = a + b /\ f[k] = 1 .. (e - a) /\ e <= n
    BY <1>5, <2>2, <2>3, <2>4, <2>5
  <2>8. j \in 1 .. (e - a)
    BY <2>1, <2>7
  <2>9. j \in Nat /\ j >= 1 /\ a + j \in 1 .. n /\ a + j <= c
    BY <2>6, <2>7, <2>8
  <2>10. h[z] = a + j
    BY <2>2, <2>3
  <2>11. (z[1] - 1) * b = a /\ z[1] * b = c
    BY <2>2, <2>3, <2>4
  <2> HIDE DEF h
  <2>12. QED
    BY <2>2, <2>7, <2>9, <2>10, <2>11
<1>8. ASSUME NEW y \in Pairs(f), NEW z \in Pairs(f), y[1] < z[1]
      PROVE  h[y] < h[z]
  <2> HIDE DEF h
  <2>1. PICK k \in Nat : k = y[1]
    <3>1. y[1] \in 1 .. last
      BY <1>7
    <3>2. QED
      BY <3>1
  <2>2. PICK m \in Nat : m = z[1] - 1
    <3>1. z[1] \in 1 .. last
      BY <1>7
    <3>2. z[1] - 1 \in Nat
      BY <3>1
    <3>3. QED
      BY <3>2
  <2>3. k <= m
    BY <1>7, <1>8, <2>1, <2>2
  <2>4. k * b <= m * b /\ k * b \in Nat /\ m * b \in Nat
    BY <2>3, TimesMonotone
  <2>5. h[y] \in Nat /\ h[y] <= k * b
    <3>1. h[y] \in 1 .. n /\ h[y] <= y[1] * b
      BY <1>7
    <3>2. h[y] \in Nat
      BY <3>1
    <3>3. QED
      BY <2>1, <3>1, <3>2
  <2>6. h[z] = m * b + z[2] /\ z[2] \in Nat /\ z[2] >= 1
    BY <1>7, <2>2
  <2>7. PICK u \in Nat, v \in Nat : u = k * b /\ v = m * b
    BY <2>4
  <2>8. u <= v /\ h[y] <= u /\ h[z] = v + z[2]
    BY <2>4, <2>5, <2>6, <2>7
  <2>9. QED
    BY <2>5, <2>6, <2>8
<1>9. ASSUME NEW y \in Pairs(f), NEW z \in Pairs(f), h[y] = h[z]
      PROVE  y = z
  <2>1. ~(y[1] < z[1]) /\ ~(z[1] < y[1])
    <3> HIDE DEF h
    <3>1. h[y] \in 1 .. n /\ h[z] \in 1 .. n
      BY <1>7
    <3>2. (y[1] < z[1] => h[y] < h[z]) /\ (z[1] < y[1] => h[z] < h[y])
      BY <1>8
    <3>3. QED
      BY <1>9, <3>1, <3>2
  <2>2. y[1] = z[1]
    <3> HIDE DEF h
    <3>1. y[1] \in 1 .. last /\ z[1] \in 1 .. last
      BY <1>7
    <3>2. QED
      BY <2>1, <3>1
  <2>3. y[2] = z[2]
    <3> HIDE DEF h
    <3>1. PICK a \in Nat : a = (y[1] - 1) * b
      BY <1>7
    <3>2. h[y] = a + y[2] /\ h[z] = a + z[2] /\ y[2] \in Nat /\ z[2] \in Nat
      BY <1>7, <2>2, <3>1
    <3>3. PICK u \in Nat, v \in Nat : u = y[2] /\ v = z[2]
      BY <3>2
    <3>4. a + u = a + v
      BY <1>9, <3>2, <3>3
    <3>5. u = v
      BY <3>4
    <3>6. QED
      BY <3>3, <3>5
  <2>4. y = <<y[1], y[2]>> /\ z = <<z[1], z[2]>>
    BY <1>7
  <2>5. QED
    BY <2>2, <2>3, <2>4
<1>10. ASSUME NEW i \in 1 .. n
       PROVE  \E z \in Pairs(f) : h[z] = i
  <2>1. PICK q \in Nat : q = (i - 1) \div b
    <3>1. i - 1 \in Nat
      OBVIOUS
    <3>2. (i - 1) \div b \in Nat
      BY <3>1, DivFacts
    <3>3. QED
      BY <3>2
  <2>2. q * b \in Nat /\ q * b <= i - 1 /\ i - 1 < q * b + b
    BY <2>1, DivFacts
  <2>3. q + 1 \in 1 .. last
    <3>1. SUFFICES ASSUME last <= q
                   PROVE  FALSE
      BY <2>1
    <3>2. last * b <= q * b /\ last * b \in Nat
      BY <3>1, TimesMonotone
    <3>3. PICK u \in Nat, v \in Nat : u = last * b /\ v = q * b
      BY <2>2, <3>2
    <3>4. u <= v /\ v <= i - 1 /\ n + b - 1 < u + b /\ i <= n
      BY <1>4, <2>2, <3>2, <3>3
    <3>5. QED
      BY <3>4
  <2>4. PICK k \in 1 .. last : k = q + 1
    BY <2>3
  <2>5. PICK a \in Nat : a = q * b
    BY <2>2
  <2>6. PICK c \in Nat : c = k * b
    BY <1>5
  <2>7. PICK e \in Nat : e = BlockEnd(n, b, k)
    BY <1>5
  <2>8. (k - 1) * b = a
    <3>1. k - 1 = q
      BY <2>4
    <3>2. QED
      BY <2>5, <3>1
  <2>9. c = a + b /\ f[k] = 1 .. (e - a)
    BY <1>5, <2>6, <2>7, <2>8
  <2>10. e = IF c < n THEN c ELSE n
    BY <2>6, <2>7 DEF BlockEnd
  <2>11. a <= i - 1 /\ i - 1 < a + b
    BY <2>2, <2>5
  <2>12. i - a \in 1 .. (e - a)
    BY <2>9, <2>10, <2>11
  <2>13. <<k, i - a>> \in Pairs(f)
    BY <1>4, <2>9, <2>12, PairsOf
  <2>14. h[<<k, i - a>>] = (k - 1) * b + (i - a)
    BY <2>13
  <2>15. h[<<k, i - a>>] = i
    BY <2>8, <2>14
  <2>16. QED
    BY <2>13, <2>15
<1>11. h \in Bijection(Pairs(f), 1 .. n)
  <2>1. h \in [Pairs(f) -> 1 .. n]
    BY <1>7
  <2> HIDE DEF h
  <2>2. QED
    BY <1>9, <1>10, <2>1 DEF Bijection, Injection, Surjection, IsInjective
<1>12. IsFiniteSet(Pairs(f)) /\ Total(f) = Cardinality(Pairs(f))
  BY <1>6, PairsFinite
<1>13. Cardinality(1 .. n) = Cardinality(Pairs(f))
  <2> HIDE DEF h
  <2> QED
    BY <1>11, <1>12, SameSize
<1>14. Cardinality(1 .. n) = n
  BY FS_Interval
<1>15. QED
  BY <1>1, <1>6, <1>12, <1>13, <1>14

PostSet(m, p) == IF m.packet = p /\ m.key # "sign" THEN DOMAIN m.ids ELSE {}

LEMMA PortCountAdd ==
  ASSUME SessionTypes, NEW q \in Seq(Posts), port' = port \o q, NEW p,
         NEW h, h = [k \in DOMAIN q |-> PostSet(q[k], p)], Finite(h)
  PROVE  OnPort(p)' = OnPort(p) + Total(h) /\ OnPort(p) \in Nat /\ Total(h) \in Nat
<1>1. PICK f : f = [k \in DOMAIN port' |-> LeftIn(k, p)']
  OBVIOUS
<1>2. PICK g : g = [k \in DOMAIN port |-> LeftIn(k, p)]
  OBVIOUS
<1>3. OnPort(p)' = Total(f) /\ OnPort(p) = Total(g) /\ Finite(g)
  BY <1>1, <1>2, PortCounted DEF OnPort
<1>4. PICK n \in Nat, m \in Nat : n = Len(port) /\ m = Len(q)
  BY PortCounted
<1>5. /\ DOMAIN port = 1 .. n /\ DOMAIN q = 1 .. m /\ DOMAIN port' = 1 .. n + m
      /\ \A k \in 1 .. n : port'[k] = port[k]
      /\ \A k \in 1 .. m : port'[n + k] = q[k]
  BY <1>4 DEF SessionTypes
<1>6. /\ DOMAIN f = 1 .. n + m /\ DOMAIN g = 1 .. n /\ DOMAIN h = 1 .. m
      /\ \A k \in 1 .. n : f[k] = g[k]
  BY <1>1, <1>2, <1>5 DEF LeftIn
<1>7. \A k \in 1 .. m : f[n + k] = h[k]
  BY <1>1, <1>5, SMTT(30), SMTT(30) DEF LeftIn, PostSet
<1>8. Total(f) = Total(g) + Total(h) /\ Total(g) \in Nat /\ Total(h) \in Nat
  <2>1. Finite(g) /\ Finite(h) /\ n \in Nat /\ m \in Nat
    BY <1>3, <1>4
  <2>2. DOMAIN f = 1 .. n + m /\ DOMAIN g = 1 .. n /\ DOMAIN h = 1 .. m
    BY <1>6
  <2>3. (\A k \in 1 .. n : f[k] = g[k]) /\ (\A k \in 1 .. m : f[n + k] = h[k])
    BY <1>6, <1>7
  <2>4. QED
    <3>1. OneAfter(f, g, h, n, m)
      BY <2>1, <2>2, <2>3 DEF OneAfter
    <3>2. QED
      BY <3>1, TotalConcat
<1>9. QED
  BY <1>3, <1>8

LEMMA PortCountSign ==
  ASSUME SessionTypes, NEW m \in Posts, m.key = "sign", port' = Append(port, m), NEW p
  PROVE  OnPort(p)' = OnPort(p) /\ OnPort(p) \in Nat
<1>1. PICK q : q = <<m>>
  OBVIOUS
<1>2. q \in Seq(Posts) /\ DOMAIN q = 1 .. 1 /\ q[1] = m /\ port' = port \o q
  BY <1>1 DEF SessionTypes
<1>3. PICK h : h = [k \in DOMAIN q |-> PostSet(q[k], p)]
  OBVIOUS
<1>4. DOMAIN h = 1 .. 1 /\ \A k \in DOMAIN h : h[k] = {}
  BY <1>2, <1>3 DEF PostSet
<1>5. Finite(h)
  <2>1. IsFiniteSet({1}) /\ IsFiniteSet({})
    BY FS_Singleton, FS_EmptySet
  <2>2. DOMAIN h = {1}
    BY <1>4
  <2>3. QED
    BY <1>4, <2>1, <2>2 DEF Finite
<1>6. Total(h) = 0
  BY <1>4, TotalNothing
<1>7. OnPort(p)' = OnPort(p) + Total(h) /\ OnPort(p) \in Nat
  BY <1>2, <1>3, <1>5, PortCountAdd
<1>8. QED
  BY <1>6, <1>7

LEMMA PortCountSet ==
  ASSUME SessionTypes, NEW ids \in Seq(IDs), NEW key \in {"send", "last"}, NEW x \in Packets,
         port' = port \o [k \in DOMAIN Blocks(ids) |-> [key |-> key, ids |-> Blocks(ids)[k], packet |-> x]],
         NEW p
  PROVE  /\ OnPort(p)' = OnPort(p) + (IF x = p THEN Len(ids) ELSE 0)
         /\ OnPort(p) \in Nat /\ Len(ids) \in Nat
<1>1. PICK q : q = [k \in DOMAIN Blocks(ids) |-> [key |-> key, ids |-> Blocks(ids)[k], packet |-> x]]
  OBVIOUS
<1>2. PICK l \in Nat : DOMAIN Blocks(ids) = 1..l /\ \A k \in 1..l : Blocks(ids)[k] \in Seq(IDs)
  <2>1. PICK n : n = Len(ids)
    OBVIOUS
  <2>2. PICK b : b = BlockSize(n)
    OBVIOUS
  <2>3. QED
    BY <2>1, <2>2, BlockFacts
<1>3. q \in Seq(Posts)
  <2>1. q \in [1..l -> Posts]
    BY <1>1, <1>2 DEF Posts
  <2>2. QED
    BY <2>1
<1>4. PICK h : h = [k \in DOMAIN q |-> PostSet(q[k], p)]
  OBVIOUS
<1>5. PICK f : f = [k \in DOMAIN Blocks(ids) |-> DOMAIN Blocks(ids)[k]]
  OBVIOUS
<1>6. Finite(f) /\ Total(f) = Len(ids) /\ Len(ids) \in Nat
  BY <1>5, SetInBlocks
<1>7. /\ DOMAIN q = DOMAIN Blocks(ids)
      /\ \A k \in DOMAIN q : q[k].key # "sign" /\ q[k].packet = x /\ q[k].ids = Blocks(ids)[k]
  BY <1>1
<1>8. CASE x = p
  <2>1. h = f
    BY <1>4, <1>5, <1>7, <1>8 DEF PostSet
  <2>2. OnPort(p)' = OnPort(p) + Total(h) /\ OnPort(p) \in Nat
    <3>1. Finite(h) /\ port' = port \o q
      BY <1>1, <1>6, <2>1
    <3>2. QED
      BY <1>3, <1>4, <3>1, PortCountAdd
  <2>3. QED
    BY <1>6, <1>8, <2>1, <2>2
<1>9. CASE x # p
  <2>1. DOMAIN h = 1..l /\ \A k \in DOMAIN h : h[k] = {}
    BY <1>2, <1>4, <1>7, <1>9 DEF PostSet
  <2>2. Finite(h)
    <3>1. IsFiniteSet(1 .. l) /\ IsFiniteSet({})
      BY FS_Interval, FS_EmptySet
    <3>2. QED
      BY <2>1, <3>1 DEF Finite
  <2>3. Total(h) = 0
    BY <2>1, TotalNothing
  <2>4. OnPort(p)' = OnPort(p) + Total(h) /\ OnPort(p) \in Nat
    BY <1>1, <1>3, <1>4, <2>2, PortCountAdd
  <2>5. QED
    BY <1>6, <1>9, <2>3, <2>4
<1>10. QED
  BY <1>8, <1>9

-----------------------------------------------------------------------------
(* A step gives a packet as many references as it puts it in places.       *)

LEMMA NextCounted ==
  ASSUME SessionTypes', NEW p
  PROVE  InSessions(p)' \in Nat /\ WithWorkers(p)' \in Nat /\ OnPort(p)' \in Nat
<1>1. InSessions(p)' \in Nat
  <2>1. PICK f : f = [s \in Slots |-> Places(sess'[s].sendQ \o sess'[s].sentQ, p)]
    OBVIOUS
  <2>2. ASSUME NEW s \in Slots
        PROVE  IsFiniteSet(f[s])
    <3>1. sess'[s].sendQ \o sess'[s].sentQ \in Seq(Packets)
      BY DEF SessionTypes, Sessions
    <3>2. QED
      BY <2>1, <3>1, PlacesFinite
  <2>3. Finite(f)
    BY <2>1, <2>2, LanAssumption DEF Finite
  <2>4. QED
    BY <2>1, <2>3, PairsFinite DEF InSessions
<1>2. WithWorkers(p)' \in Nat
  <2>1. PICK f : f = [w \in Workers |-> LeftOf(w, p)']
    OBVIOUS
  <2>2. ASSUME NEW w \in Workers
        PROVE  IsFiniteSet(f[w])
    <3>1. worker'[w].ids \in Seq(IDs)
      BY DEF SessionTypes, WorkerStates
    <3>2. IsFiniteSet(DOMAIN worker'[w].ids) /\ IsFiniteSet({})
      BY <3>1, IdsDomain, FS_EmptySet
    <3>3. QED
      BY <2>1, <3>2 DEF LeftOf
  <2>3. Finite(f)
    BY <2>1, <2>2, LanAssumption DEF Finite
  <2>4. QED
    BY <2>1, <2>3, PairsFinite DEF WithWorkers
<1>3. OnPort(p)' \in Nat
  <2>1. PICK f : f = [k \in DOMAIN port' |-> LeftIn(k, p)']
    OBVIOUS
  <2>2. DOMAIN port' = 1 .. Len(port') /\ Len(port') \in Nat
    BY DEF SessionTypes
  <2>3. ASSUME NEW k \in DOMAIN port'
        PROVE  IsFiniteSet(f[k])
    <3>1. port'[k].ids \in Seq(IDs)
      <4>1. port'[k] \in Posts
        BY DEF SessionTypes
      <4>2. QED
        BY <4>1 DEF Posts
    <3>2. IsFiniteSet(DOMAIN port'[k].ids) /\ IsFiniteSet({})
      BY <3>1, IdsDomain, FS_EmptySet
    <3>3. QED
      BY <2>1, <3>2 DEF LeftIn
  <2>4. Finite(f)
    <3>1. IsFiniteSet(1 .. Len(port'))
      BY <2>2, FS_Interval
    <3>2. QED
      BY <2>1, <2>2, <2>3, <3>1 DEF Finite
  <2>5. QED
    BY <2>1, <2>4, PairsFinite DEF OnPort
<1>4. QED
  BY <1>1, <1>2, <1>3

LEMMA Accounted ==
  ASSUME SessionTypes, SessionTypes', PacketInv, refCnt' \in [Packets -> Int], unused' \subseteq unused,
         \A p \in Packets : refCnt'[p] = refCnt[p] + (InSessions(p)' - InSessions(p))
                                         + (WithWorkers(p)' - WithWorkers(p)) + (OnPort(p)' - OnPort(p)),
         \A p \in unused' : refCnt'[p] <= refCnt[p]
  PROVE  PacketInv'
<1>1. /\ refCnt \in [Packets -> Nat] /\ unused \subseteq Packets /\ \A p \in unused : refCnt[p] = 0
      /\ \A p \in Packets : refCnt[p] = InSessions(p) + WithWorkers(p) + OnPort(p)
  BY DEF PacketInv, LanPacketsAccounted, InSessions, WithWorkers, OnPort
<1>2. ASSUME NEW p \in Packets
      PROVE  /\ InSessions(p) \in Nat /\ WithWorkers(p) \in Nat /\ OnPort(p) \in Nat
             /\ InSessions(p)' \in Nat /\ WithWorkers(p)' \in Nat /\ OnPort(p)' \in Nat
  <2>1. InSessions(p) \in Nat /\ WithWorkers(p) \in Nat /\ OnPort(p) \in Nat
    BY SessionsCounted, WorkersCounted, PortCounted
  <2>2. InSessions(p)' \in Nat /\ WithWorkers(p)' \in Nat /\ OnPort(p)' \in Nat
    BY NextCounted
  <2>3. QED
    BY <2>1, <2>2
<1>3. ASSUME NEW p \in Packets
      PROVE  refCnt'[p] = InSessions(p)' + WithWorkers(p)' + OnPort(p)' /\ refCnt'[p] \in Nat
  <2>1. PICK a \in Nat, b \in Nat, c \in Nat : a = InSessions(p) /\ b = WithWorkers(p) /\ c = OnPort(p)
    BY <1>2
  <2>2. PICK d \in Nat, e \in Nat, g \in Nat : d = InSessions(p)' /\ e = WithWorkers(p)' /\ g = OnPort(p)'
    BY <1>2
  <2>3. refCnt'[p] = refCnt[p] + (d - a) + (e - b) + (g - c) /\ refCnt[p] = a + b + c
    BY <1>1, <2>1, <2>2
  <2>4. refCnt'[p] = d + e + g
    BY <2>3
  <2>5. QED
    BY <2>2, <2>4
<1>4. refCnt' \in [Packets -> Nat]
  BY <1>3
<1>5. LanPacketsAccounted'
  BY <1>3 DEF LanPacketsAccounted, InSessions, WithWorkers, OnPort
<1>6. \A p \in unused' : refCnt'[p] = 0
  BY <1>1, <1>3
<1>7. unused' \subseteq Packets
  BY <1>1
<1>8. QED
  BY <1>4, <1>5, <1>6, <1>7 DEF PacketInv

-----------------------------------------------------------------------------
(* What the operations on a session do to its queues, whatever it counts.  *)

Recs ==
  [id : 0..MaxSessions, refs : Int, dead : BOOLEAN, canceled : BOOLEAN,
   recv : {"none", "posted", "data", "closed", "aborted"},
   send : {"none", "posted", "done", "reset", "aborted"}, sending : BOOLEAN,
   sendQ : Seq(Packets), sentQ : Seq(Packets), jobQ : Seq(IDs),
   cur : Pipes \cup {NoPipe}, dest : Pipes \cup {NoPipe}, moving : BOOLEAN]

Queued(x, a, b) == x \in Recs /\ x.sendQ = a /\ x.sentQ = b

LEMMA SessionQueued ==
  ASSUME NEW r \in Sessions
  PROVE  Queued(r, r.sendQ, r.sentQ)
BY DEF Queued, Sessions, Recs

LEMMA RefsQueued ==
  ASSUME NEW r, NEW a, NEW b, Queued(r, a, b), NEW n \in Int
  PROVE  /\ Queued(Drop(r, n), a, b) /\ Queued([r EXCEPT !.refs = @ + n], a, b)
         /\ Drop(r, n).sending = r.sending /\ [r EXCEPT !.refs = @ + n].sending = r.sending
         /\ [r EXCEPT !.refs = @ + n].canceled = r.canceled
         /\ [r EXCEPT !.refs = @ + n].jobQ = r.jobQ
<1>1. r.refs + n \in Int /\ r.refs - n \in Int
  BY DEF Queued, Recs
<1>2. ASSUME NEW m \in Int
      PROVE  LET x == [r EXCEPT !.refs = m] IN
             /\ Queued(x, a, b) /\ x.sending = r.sending /\ x.canceled = r.canceled /\ x.jobQ = r.jobQ
  BY DEF Queued, Recs
<1>3. QED
  BY <1>1, <1>2 DEF Drop

LEMMA DisconnectedQueued ==
  ASSUME NEW r, NEW a, NEW b, Queued(r, a, b)
  PROVE  Queued(Disconnected(r), a, b) /\ Disconnected(r).sending = r.sending
<1> DEFINE u == [r EXCEPT !.canceled = TRUE]
           v == [u EXCEPT !.recv = IF r.recv = "posted" THEN "aborted" ELSE r.recv]
           x == [v EXCEPT !.send = IF r.send = "posted" THEN "aborted" ELSE r.send]
<1>1. Queued(u, a, b) /\ u.sending = r.sending
  BY DEF Queued, Recs
<1>2. Queued(v, a, b) /\ v.sending = r.sending
  <2>1. r.recv \in {"none", "posted", "data", "closed", "aborted"}
    BY DEF Queued, Recs
  <2> HIDE DEF u
  <2>2. QED
    BY <1>1, <2>1, SMTT(30) DEF Queued, Recs
<1>3. Queued(x, a, b) /\ x.sending = r.sending
  <2>1. r.send \in {"none", "posted", "done", "reset", "aborted"}
    BY DEF Queued, Recs
  <2> HIDE DEF v
  <2>2. QED
    BY <1>2, <2>1, SMTT(30) DEF Queued, Recs
<1>4. Disconnected(r) = x
  BY DEF Disconnected, Queued, Recs
<1>5. QED
  BY <1>3, <1>4

LEMMA EndsQueued ==
  ASSUME NEW r, NEW a, NEW b, Queued(r, a, b)
  PROVE  /\ Queued(DisconnectedSession(r), a, b) /\ Queued(Refused(r), a, b)
         /\ DisconnectedSession(r).sending = r.sending /\ Refused(r).sending = r.sending
<1>1. Queued(Disconnected(r), a, b) /\ Disconnected(r).sending = r.sending
  BY DisconnectedQueued
<1>2. PICK x : x = Disconnected(r)
  OBVIOUS
<1>3. PICK m \in Int, n \in Int : m = 1 /\ n = 2
  OBVIOUS
<1>4. Queued(Drop(x, m), a, b) /\ Drop(x, m).sending = x.sending
  BY <1>1, <1>2, RefsQueued
<1>5. Queued(Drop(x, n), a, b) /\ Drop(x, n).sending = x.sending
  BY <1>1, <1>2, RefsQueued
<1>6. QED
  BY <1>1, <1>2, <1>3, <1>4, <1>5 DEF DisconnectedSession, Refused

LEMMA StateQueued ==
  ASSUME NEW r, NEW a, NEW b, Queued(r, a, b),
         NEW rs \in {"none", "posted", "data", "closed", "aborted"},
         NEW ss \in {"none", "posted", "done", "reset", "aborted"},
         NEW g \in BOOLEAN, NEW j \in Seq(IDs)
  PROVE  /\ Queued([r EXCEPT !.recv = rs], a, b) /\ Queued([r EXCEPT !.send = ss], a, b)
         /\ Queued([r EXCEPT !.sending = g], a, b) /\ Queued([r EXCEPT !.jobQ = j], a, b)
         /\ [r EXCEPT !.recv = rs].canceled = r.canceled /\ [r EXCEPT !.recv = rs].cur = r.cur
         /\ [r EXCEPT !.recv = rs].jobQ = r.jobQ /\ [r EXCEPT !.recv = rs].id = r.id
         /\ [r EXCEPT !.send = ss].canceled = r.canceled /\ [r EXCEPT !.sending = g].sending = g
         /\ [r EXCEPT !.send = ss].sending = r.sending
BY ZenonT(40), ZenonT(40) DEF Queued, Recs

LEMMA RecvPostedQueued ==
  ASSUME NEW r, NEW a, NEW b, Queued(r, a, b), NEW x \in RecvPosted(r)
  PROVE  Queued(x, a, b)
<1>1. CASE x = [r EXCEPT !.recv = IF r.canceled THEN "aborted" ELSE "posted"]
  BY <1>1 DEF Queued, Recs
<1>2. CASE x = DisconnectedSession([r EXCEPT !.recv = "none"])
  <2>1. PICK y : y = [r EXCEPT !.recv = "none"]
    OBVIOUS
  <2>2. Queued(y, a, b)
    BY <2>1 DEF Queued, Recs
  <2>3. QED
    BY <1>2, <2>1, <2>2, EndsQueued
<1>3. QED
  BY <1>1, <1>2 DEF RecvPosted

LEMMA FilledQueued ==
  ASSUME NEW r, NEW a, NEW b, Queued(r, a, b)
  PROVE  Queued(Filled(r), <<>>, a) /\ Filled(r).sending
<1> DEFINE u == [r EXCEPT !.sending = TRUE]
           v == [u EXCEPT !.sentQ = r.sendQ]
           x == [v EXCEPT !.sendQ = <<>>]
<1>1. u \in Recs /\ u.sending /\ u.sendQ = a
  BY DEF Queued, Recs
<1>2. v \in Recs /\ v.sending /\ v.sentQ = a
  <2>1. r.sendQ \in Seq(Packets) /\ r.sendQ = a
    BY DEF Queued, Recs
  <2> HIDE DEF u
  <2>2. QED
    BY <1>1, <2>1 DEF Recs
<1>3. x \in Recs /\ x.sending /\ x.sentQ = a /\ x.sendQ = <<>>
  <2>1. <<>> \in Seq(Packets)
    OBVIOUS
  <2> HIDE DEF v
  <2>2. QED
    BY <1>2, <2>1 DEF Recs
<1>4. Filled(r) = x
  BY DEF Filled, Queued, Recs
<1>5. QED
  BY <1>3, <1>4 DEF Queued

\* what a send leaves in the queues of a session
Sent(x, r) ==
  /\ x \in Recs
  /\ x.sendQ = (IF r.sending THEN r.sendQ ELSE <<>>)
  /\ x.sentQ = (IF r.sending THEN r.sentQ ELSE r.sendQ)

LEMMA NothingSent ==
  ASSUME NEW r \in Recs, r.sendQ = <<>>, ~r.sending
  PROVE  Sent(Drop([r EXCEPT !.sentQ = <<>>], 2), r)
<1>1. PICK y : y = [r EXCEPT !.sentQ = <<>>]
  OBVIOUS
<1>2. Queued(y, <<>>, <<>>)
  <2>1. <<>> \in Seq(Packets)
    OBVIOUS
  <2>2. QED
    BY <1>1, <2>1 DEF Queued, Recs
<1>3. PICK n \in Int : n = 2
  OBVIOUS
<1>4. Queued(Drop(y, n), <<>>, <<>>)
  BY <1>2, RefsQueued
<1>5. QED
  BY <1>1, <1>3, <1>4 DEF Queued, Sent

LEMMA FilledSent ==
  ASSUME NEW r \in Recs, ~r.sending, NEW x, NEW f, f = Filled(r),
         \/ x = Refused(f)
         \/ x = Ended(f)
         \/ x = Drop([f EXCEPT !.send = "posted"], 1)
         \/ \E d \in Aborting(f) : x = Drop(d, 1) \/ x = Drop(d, 2)
  PROVE  Sent(x, r)
<1>1. PICK a : a = r.sendQ
  OBVIOUS
<1>2. Queued(f, <<>>, a)
  BY <1>1, FilledQueued DEF Queued
<1>3. \A st \in {"posted", "done", "reset"} : Queued([f EXCEPT !.send = st], <<>>, a)
  BY <1>2 DEF Queued, Recs
<1>4. PICK n \in Int, m \in Int : n = 1 /\ m = 2
  OBVIOUS
<1>5. Queued(Refused(f), <<>>, a)
  BY <1>2, EndsQueued
<1>6. Queued(Ended(f), <<>>, a)
  BY <1>2 DEF Queued, Recs, Ended
<1>7. CASE x = Drop([f EXCEPT !.send = "posted"], 1)
  <2>1. PICK y : y = [f EXCEPT !.send = "posted"]
    OBVIOUS
  <2>2. Queued(y, <<>>, a)
    BY <1>3, <2>1
  <2>3. x = Drop(y, n)
    BY <1>4, <1>7, <2>1
  <2>4. Queued(Drop(y, n), <<>>, a)
    BY <2>2, RefsQueued
  <2>5. QED
    BY <1>1, <2>3, <2>4 DEF Queued, Sent
<1>8. CASE \E d \in Aborting(f) : x = Drop(d, 1) \/ x = Drop(d, 2)
  <2>1. PICK st \in {"posted", "done", "reset"} :
               \/ x = Drop(Disconnected([f EXCEPT !.send = st]), 1)
               \/ x = Drop(Disconnected([f EXCEPT !.send = st]), 2)
    BY <1>8 DEF Aborting
  <2>2. PICK y : y = [f EXCEPT !.send = st]
    OBVIOUS
  <2>3. Queued(y, <<>>, a)
    BY <1>3, <2>2
  <2>4. PICK d : d = Disconnected(y)
    OBVIOUS
  <2>5. Queued(d, <<>>, a)
    BY <2>3, <2>4, DisconnectedQueued
  <2>6. Queued(Drop(d, n), <<>>, a) /\ Queued(Drop(d, m), <<>>, a)
    BY <2>5, RefsQueued
  <2>7. x = Drop(d, n) \/ x = Drop(d, m)
    BY <1>4, <2>1, <2>2, <2>4
  <2>8. QED
    BY <1>1, <2>6, <2>7 DEF Queued, Sent
<1>9. CASE x = Refused(f) \/ x = Ended(f)
  BY <1>1, <1>5, <1>6, <1>9 DEF Queued, Sent
<1>10. QED
  BY <1>7, <1>8, <1>9

LEMMA SendPostedSent ==
  ASSUME NEW r \in Recs, NEW x \in SendPosted(r)
  PROVE  Sent(x, r)
<1>1. CASE r.sending
  <2>1. PICK n \in Int : n = 2
    OBVIOUS
  <2>2. x = Drop(r, n)
    BY <1>1, <2>1 DEF SendPosted
  <2>3. Queued(r, r.sendQ, r.sentQ)
    BY DEF Queued
  <2>4. Queued(Drop(r, n), r.sendQ, r.sentQ)
    BY <2>3, RefsQueued
  <2>5. QED
    BY <1>1, <2>2, <2>4 DEF Queued, Sent
<1>2. CASE ~r.sending /\ r.sendQ = <<>>
  BY <1>2, NothingSent DEF SendPosted
<1>3. CASE ~r.sending /\ r.sendQ # <<>>
  BY <1>3, FilledSent DEF SendPosted
<1>4. QED
  BY <1>1, <1>2, <1>3

LEMMA LastPostedSent ==
  ASSUME NEW r \in Recs, ~r.sending, NEW x \in LastPosted(r)
  PROVE  Sent(x, r)
<1>1. CASE r.sendQ = <<>>
  BY <1>1, NothingSent DEF LastPosted
<1>2. CASE r.sendQ # <<>>
  BY <1>2, FilledSent DEF LastPosted
<1>3. QED
  BY <1>1, <1>2

LEMMA EnteredQueued ==
  ASSUME NEW r, NEW a, NEW b, Queued(r, a, b)
  PROVE  Queued(Entered(r), a, b)
<1> DEFINE u == [r EXCEPT !.cur = r.dest]
           v == [u EXCEPT !.dest = NoPipe]
           x == [v EXCEPT !.moving = FALSE]
<1>1. Queued(u, a, b)
  BY DEF Queued, Recs
<1>2. Queued(v, a, b)
  <2> HIDE DEF u
  <2> QED
    BY <1>1 DEF Queued, Recs
<1>3. Queued(x, a, b)
  <2> HIDE DEF v
  <2> QED
    BY <1>2 DEF Queued, Recs
<1>4. Entered(r) = Drop(x, 1)
  BY DEF Entered, Queued, Recs
<1>5. PICK y : y = x
  OBVIOUS
<1>6. PICK n \in Int : n = 1
  OBVIOUS
<1>7. Queued(Drop(y, n), a, b)
  BY <1>3, <1>5, RefsQueued
<1>8. QED
  BY <1>4, <1>5, <1>6, <1>7

\* The references cnt are right once slot s has record x.
Owed(s, x, cnt) ==
  /\ cnt \in [Packets -> Int] /\ unused' \subseteq unused
  /\ \A p \in Packets : cnt[p] = refCnt[p] + (QueueCount(x, p) - QueueCount(sess[s], p))
                                 + (WithWorkers(p)' - WithWorkers(p)) + (OnPort(p)' - OnPort(p))
  /\ \A p \in unused' : cnt[p] <= refCnt[p]

LEMMA SlotAccounts ==
  ASSUME CoreInv, CoreInv', PacketInv, NEW s \in Slots, NEW y, sess' = [sess EXCEPT ![s] = y],
         Owed(s, y, refCnt')
  PROVE  PacketInv'
<1>1. SessionTypes /\ SessionTypes'
  BY DEF CoreInv, SessionInv
<1>2. sess'[s] = y /\ \A t \in Slots : t # s => sess'[t] = sess[t]
  BY <1>1 DEF SessionTypes
<1>3. ASSUME NEW p \in Packets
      PROVE  refCnt'[p] = refCnt[p] + (InSessions(p)' - InSessions(p))
                                    + (WithWorkers(p)' - WithWorkers(p)) + (OnPort(p)' - OnPort(p))
  <2>1. /\ InSessions(p)' = InSessions(p) - QueueCount(sess[s], p) + QueueCount(y, p)
        /\ InSessions(p) \in Nat /\ InSessions(p)' \in Nat
        /\ QueueCount(sess[s], p) \in Nat /\ QueueCount(y, p) \in Nat
    BY <1>1, <1>2, SlotCount
  <2>2. InSessions(p)' - InSessions(p) = QueueCount(y, p) - QueueCount(sess[s], p)
    BY <2>1
  <2>3. QED
    BY <2>2 DEF Owed
<1>4. refCnt' \in [Packets -> Int] /\ unused' \subseteq unused /\ \A p \in unused' : refCnt'[p] <= refCnt[p]
  BY DEF Owed
<1>5. QED
  BY <1>1, <1>3, <1>4, Accounted

LEMMA LeaveAccounts ==
  ASSUME CoreInv, CoreInv', PacketInv, NEW s \in Slots, NEW x \in Recs, NEW cnt, Owed(s, x, cnt), Leave(s, x, cnt)
  PROVE  PacketInv'
<1>1. quit' = "none" /\ x.refs \in Int
  BY DEF CoreInv, SessionInv, LanNeverQuits, Recs
<1>2. ~(x.dead /\ x.refs < 0)
  BY <1>1 DEF Leave
<1>3. CASE x.refs # 0 \/ x.dead
  <2>1. sess' = [sess EXCEPT ![s] = x] /\ refCnt' = cnt
    BY <1>2, <1>3 DEF Leave
  <2>2. Owed(s, x, refCnt')
    BY <2>1
  <2>3. QED
    BY <2>1, <2>2, SlotAccounts
<1>4. CASE ~(x.refs # 0 \/ x.dead) /\ x.cur # NoPipe
  <2>1. PICK y : y = [x EXCEPT !.dead = TRUE]
    OBVIOUS
  <2>2. y.sendQ = x.sendQ /\ y.sentQ = x.sentQ
    BY <2>1 DEF Recs
  <2>3. sess' = [sess EXCEPT ![s] = y] /\ refCnt' = cnt
    BY <1>2, <1>4, <2>1 DEF Leave
  <2>4. \A p : QueueCount(y, p) = QueueCount(x, p)
    BY <2>2 DEF QueueCount
  <2>5. Owed(s, y, refCnt')
    BY <2>3, <2>4 DEF Owed
  <2>6. QED
    BY <2>3, <2>5, SlotAccounts
<1>5. CASE ~(x.refs # 0 \/ x.dead) /\ x.cur = NoPipe
  <2>1. PICK y : y = Destroyed(x)
    OBVIOUS
  <2>2. y.sendQ = <<>> /\ y.sentQ = <<>>
    BY <2>1 DEF Destroyed, Dead
  <2>3. sess' = [sess EXCEPT ![s] = y] /\ refCnt' = Freed(cnt, x.sendQ \o x.sentQ)
    BY <1>2, <1>5, <2>1 DEF Leave
  <2>4. \A p : QueueCount(y, p) = 0
    <3>1. <<>> \o <<>> = <<>>
      OBVIOUS
    <3>2. QED
      BY <2>2, <3>1, CountEmpty DEF QueueCount
  <2>5. ASSUME NEW p \in Packets
        PROVE  refCnt'[p] = cnt[p] - QueueCount(x, p) /\ QueueCount(x, p) \in Nat /\ refCnt'[p] \in Int
               /\ cnt[p] \in Int
    <3>1. x.sendQ \o x.sentQ \in Seq(Packets)
      BY DEF Recs
    <3>2. QueueCount(x, p) \in Nat
      BY <3>1, PlacesFinite DEF QueueCount
    <3>3. refCnt'[p] = cnt[p] - QueueCount(x, p)
      BY <2>3 DEF Freed, QueueCount, Count
    <3>4. cnt[p] \in Int
      BY DEF Owed
    <3>5. QED
      BY <3>2, <3>3, <3>4
  <2>6. refCnt' \in [Packets -> Int]
    <3>1. refCnt' = [p \in Packets |-> refCnt'[p]]
      BY <2>3 DEF Freed
    <3>2. QED
      BY <2>5, <3>1
  <2>7. ASSUME NEW p \in Packets
        PROVE  refCnt'[p] = refCnt[p] + (QueueCount(y, p) - QueueCount(sess[s], p))
                                 + (WithWorkers(p)' - WithWorkers(p)) + (OnPort(p)' - OnPort(p))
    <3>1. SessionTypes /\ SessionTypes' /\ refCnt[p] \in Nat
      BY DEF CoreInv, SessionInv, PacketInv
    <3>2. PICK v \in Nat, o \in Nat : v = WithWorkers(p)' /\ o = OnPort(p)'
      BY <3>1, NextCounted
    <3>3. PICK u \in Nat, n \in Nat : u = WithWorkers(p) /\ n = OnPort(p)
      BY <3>1, WorkersCounted, PortCounted
    <3>4. PICK c \in Nat, d \in Nat : c = QueueCount(x, p) /\ d = QueueCount(sess[s], p)
      <4>1. sess[s].sendQ \o sess[s].sentQ \in Seq(Packets)
        BY <3>1 DEF SessionTypes, Sessions
      <4>2. QueueCount(sess[s], p) \in Nat
        BY <4>1, PlacesFinite DEF QueueCount
      <4>3. QED
        BY <2>5, <4>2
    <3>5. cnt[p] = refCnt[p] + (c - d) + (v - u) + (o - n)
      BY <3>2, <3>3, <3>4 DEF Owed
    <3>6. refCnt'[p] = cnt[p] - c
      BY <2>5, <3>4
    <3>7. refCnt'[p] = refCnt[p] + (0 - d) + (v - u) + (o - n)
      BY <3>1, <3>5, <3>6
    <3>8. QED
      BY <2>4, <3>2, <3>3, <3>4, <3>7
  <2>8. \A p \in unused' : refCnt'[p] <= refCnt[p]
    <3>1. SUFFICES ASSUME NEW p \in unused'
                   PROVE  refCnt'[p] <= refCnt[p]
      OBVIOUS
    <3>2. p \in Packets /\ cnt[p] <= refCnt[p] /\ refCnt[p] \in Nat
      BY DEF Owed, PacketInv
    <3>3. QED
      BY <2>5, <3>2
  <2>9. Owed(s, y, refCnt')
    BY <2>6, <2>7, <2>8 DEF Owed
  <2>10. QED
    BY <2>3, <2>9, SlotAccounts
<1>6. QED
  BY <1>3, <1>4, <1>5

\* nobody has more or less to send
LeftKept == \A p : WithWorkers(p)' = WithWorkers(p) /\ OnPort(p)' = OnPort(p)

LEMMA NobodyTakes ==
  ASSUME UNCHANGED <<worker, port>>
  PROVE  LeftKept
BY DEF LeftKept, WithWorkers, OnPort, LeftOf, LeftIn

LEMMA CoreTypes ==
  ASSUME CoreInv
  PROVE  /\ SessionTypes /\ \A s \in Slots : sess[s] \in Sessions
         /\ \A p : WithWorkers(p) \in Nat /\ OnPort(p) \in Nat /\ InSessions(p) \in Nat
<1>1. SessionTypes
  BY DEF CoreInv, SessionInv
<1>2. \A s \in Slots : sess[s] \in Sessions
  BY <1>1 DEF SessionTypes
<1>3. \A p : WithWorkers(p) \in Nat /\ OnPort(p) \in Nat /\ InSessions(p) \in Nat
  BY <1>1, SessionsCounted, WorkersCounted, PortCounted
<1>4. QED
  BY <1>1, <1>2, <1>3

LEMMA PacketsStay ==
  ASSUME CoreInv, CoreInv', PacketInv, LeftKept, UNCHANGED <<refCnt, unused>>,
         \A s \in Slots : sess'[s].sendQ = sess[s].sendQ /\ sess'[s].sentQ = sess[s].sentQ
  PROVE  PacketInv'
<1>1. SessionTypes /\ SessionTypes'
  BY DEF CoreInv, SessionInv
<1>2. refCnt' \in [Packets -> Int] /\ refCnt \in [Packets -> Nat]
  BY DEF PacketInv
<1>3. ASSUME NEW p \in Packets
      PROVE  refCnt'[p] = refCnt[p] + (InSessions(p)' - InSessions(p))
                                    + (WithWorkers(p)' - WithWorkers(p)) + (OnPort(p)' - OnPort(p))
  <2>1. InSessions(p)' = InSessions(p)
    <3>1. PICK f : f = [s \in Slots |-> Places(sess[s].sendQ \o sess[s].sentQ, p)]
      OBVIOUS
    <3>2. PICK g : g = [s \in Slots |-> Places(sess'[s].sendQ \o sess'[s].sentQ, p)]
      OBVIOUS
    <3>3. f = g
      BY <3>1, <3>2
    <3>4. QED
      BY <3>1, <3>2, <3>3 DEF InSessions
  <2>2. InSessions(p) \in Nat /\ WithWorkers(p) \in Nat /\ OnPort(p) \in Nat /\ refCnt[p] \in Nat
    BY <1>1, <1>2, SessionsCounted, WorkersCounted, PortCounted
  <2>3. WithWorkers(p)' = WithWorkers(p) /\ OnPort(p)' = OnPort(p)
    BY DEF LeftKept
  <2>4. InSessions(p)' - InSessions(p) = 0 /\ WithWorkers(p)' - WithWorkers(p) = 0 /\ OnPort(p)' - OnPort(p) = 0
    BY <2>1, <2>2, <2>3
  <2>5. QED
    BY <2>2, <2>4
<1>4. \A p \in unused' : refCnt'[p] <= refCnt[p]
  BY DEF PacketInv
<1>5. QED
  BY <1>1, <1>2, <1>3, <1>4, Accounted

LEMMA QueueCountType ==
  ASSUME NEW x \in Recs, NEW p
  PROVE  QueueCount(x, p) \in Nat
<1>1. x.sendQ \o x.sentQ \in Seq(Packets)
  BY DEF Recs
<1>2. QED
  BY <1>1, PlacesFinite DEF QueueCount

LEMMA LeaveQueued ==
  ASSUME CoreInv, CoreInv', PacketInv, NEW s \in Slots, NEW x, Queued(x, sess[s].sendQ, sess[s].sentQ),
         LeftKept, UNCHANGED unused, Leave(s, x, refCnt)
  PROVE  PacketInv'
<1>1. x \in Recs /\ \A p : QueueCount(x, p) = QueueCount(sess[s], p)
  BY DEF Queued, QueueCount
<1>2. refCnt \in [Packets -> Nat]
  BY DEF PacketInv
<1>3. ASSUME NEW p \in Packets
      PROVE  refCnt[p] = refCnt[p] + (QueueCount(x, p) - QueueCount(sess[s], p))
                                    + (WithWorkers(p)' - WithWorkers(p)) + (OnPort(p)' - OnPort(p))
  <2>1. WithWorkers(p) \in Nat /\ OnPort(p) \in Nat /\ QueueCount(x, p) \in Nat /\ refCnt[p] \in Nat
    BY <1>1, <1>2, CoreTypes, QueueCountType
  <2>2. WithWorkers(p)' = WithWorkers(p) /\ OnPort(p)' = OnPort(p)
    BY DEF LeftKept
  <2>3. QueueCount(x, p) - QueueCount(sess[s], p) = 0 /\ WithWorkers(p)' - WithWorkers(p) = 0
        /\ OnPort(p)' - OnPort(p) = 0
    BY <1>1, <2>1, <2>2
  <2>4. QED
    BY <2>1, <2>3
<1>4. \A p \in unused' : refCnt[p] <= refCnt[p]
  BY DEF PacketInv
<1>5. Owed(s, x, refCnt)
  BY <1>2, <1>3, <1>4 DEF Owed
<1>6. QED
  BY <1>1, <1>5, LeaveAccounts

AfterSend(c, q) == IF q.sending THEN c ELSE Freed(c, q.sentQ)

LEMMA SendCounts ==
  ASSUME NEW q \in Recs, NEW n, Sent(n, q), NEW c \in [Packets -> Int], NEW p \in Packets
  PROVE  /\ AfterSend(c, q) \in [Packets -> Int]
         /\ AfterSend(c, q)[p] = c[p] + (QueueCount(n, p) - QueueCount(q, p))
         /\ AfterSend(c, q)[p] <= c[p]
<1>1. /\ q.sendQ \in Seq(Packets) /\ q.sentQ \in Seq(Packets) /\ <<>> \in Seq(Packets)
  BY DEF Recs
<1>2. \A x : Count(q.sendQ, x) \in Nat /\ Count(q.sentQ, x) \in Nat
  BY <1>1, PlacesFinite
<1>3. QueueCount(q, p) = Count(q.sendQ, p) + Count(q.sentQ, p)
  BY <1>1, CountConcat DEF QueueCount
<1>4. CASE q.sending
  <2>1. QueueCount(n, p) = QueueCount(q, p)
    BY <1>4 DEF Sent, QueueCount
  <2>2. AfterSend(c, q) = c
    BY <1>4 DEF AfterSend
  <2>3. c[p] \in Int
    OBVIOUS
  <2>4. QED
    BY <1>2, <1>3, <2>1, <2>2, <2>3
<1>5. CASE ~q.sending
  <2>1. AfterSend(c, q) = [x \in Packets |-> c[x] - Count(q.sentQ, x)]
    BY <1>5 DEF AfterSend, Freed, Count
  <2>2. AfterSend(c, q) \in [Packets -> Int]
    BY <1>2, <2>1
  <2>3. QueueCount(n, p) = Count(<<>>, p) + Count(q.sendQ, p)
    <3>1. PICK e \in Seq(Packets) : e = <<>>
      BY <1>1
    <3>2. n.sendQ = e /\ n.sentQ = q.sendQ
      BY <1>5, <3>1 DEF Sent
    <3>3. Count(e \o q.sendQ, p) = Count(e, p) + Count(q.sendQ, p)
      BY <1>1, CountConcat
    <3>4. QED
      BY <3>1, <3>2, <3>3 DEF QueueCount
  <2>4. QueueCount(n, p) = Count(q.sendQ, p)
    BY <1>2, <2>3, CountEmpty
  <2>5. AfterSend(c, q)[p] = c[p] - Count(q.sentQ, p) /\ c[p] \in Int
    BY <2>1
  <2>6. QED
    BY <1>2, <1>3, <2>2, <2>4, <2>5
<1>6. QED
  BY <1>4, <1>5

LEMMA LeaveSent ==
  ASSUME CoreInv, CoreInv', PacketInv, NEW s \in Slots, NEW q \in Recs, NEW n, Sent(n, q),
         NEW c, Owed(s, q, c), Leave(s, n, AfterSend(c, q))
  PROVE  PacketInv'
<1>1. n \in Recs /\ c \in [Packets -> Int] /\ refCnt \in [Packets -> Nat] /\ unused' \subseteq Packets
  BY DEF Sent, Owed, PacketInv
<1>2. PICK cnt : cnt = AfterSend(c, q)
  OBVIOUS
<1>3. cnt \in [Packets -> Int]
  <2>1. CASE Packets = {}
    <3>1. DOMAIN c = {}
      BY <1>1, <2>1
    <3>2. QED
      BY <1>1, <1>2, <2>1 DEF AfterSend, Freed
  <2>2. CASE Packets # {}
    BY <1>1, <1>2, <2>2, SendCounts
  <2>3. QED
    BY <2>1, <2>2
<1>4. ASSUME NEW p \in Packets
      PROVE  /\ cnt[p] = refCnt[p] + (QueueCount(n, p) - QueueCount(sess[s], p))
                         + (WithWorkers(p)' - WithWorkers(p)) + (OnPort(p)' - OnPort(p))
             /\ cnt[p] <= c[p]
  <2>1. cnt[p] = c[p] + (QueueCount(n, p) - QueueCount(q, p)) /\ cnt[p] <= c[p]
    BY <1>1, <1>2, SendCounts
  <2>2. PICK a \in Nat, b \in Nat, d \in Nat : a = QueueCount(n, p) /\ b = QueueCount(q, p) /\ d = QueueCount(sess[s], p)
    <3>1. sess[s] \in Recs
      BY CoreTypes, SessionQueued DEF Queued
    <3>2. QED
      BY <1>1, <3>1, QueueCountType
  <2>3. PICK v \in Nat, o \in Nat : v = WithWorkers(p)' /\ o = OnPort(p)'
    <3>1. SessionTypes'
      BY DEF CoreInv, SessionInv
    <3>2. QED
      BY <3>1, NextCounted
  <2>4. PICK u \in Nat, m \in Nat : u = WithWorkers(p) /\ m = OnPort(p)
    BY CoreTypes
  <2>5. c[p] = refCnt[p] + (b - d) + (v - u) + (o - m) /\ refCnt[p] \in Nat
    BY <1>1, <2>2, <2>3, <2>4 DEF Owed
  <2>6. cnt[p] = c[p] + (a - b)
    BY <2>1, <2>2
  <2>7. cnt[p] = refCnt[p] + (a - d) + (v - u) + (o - m)
    BY <2>2, <2>3, <2>4, <2>5, <2>6
  <2>8. QED
    BY <2>1, <2>2, <2>3, <2>4, <2>7
<1>5. \A p \in unused' : cnt[p] <= refCnt[p]
  <2>1. SUFFICES ASSUME NEW p \in unused'
                 PROVE  cnt[p] <= refCnt[p]
    OBVIOUS
  <2>2. p \in Packets /\ c[p] <= refCnt[p] /\ c[p] \in Int /\ cnt[p] \in Int /\ refCnt[p] \in Nat
    BY <1>1, <1>3 DEF Owed
  <2>3. QED
    BY <1>4, <2>2
<1>6. Owed(s, n, cnt)
  BY <1>3, <1>4, <1>5 DEF Owed
<1>7. Leave(s, n, cnt)
  BY <1>2
<1>8. QED
  BY <1>1, <1>6, <1>7, LeaveAccounts

-----------------------------------------------------------------------------
(* Steps that leave the packets where they are.                            *)

LEMMA WorkerIdle ==
  ASSUME CoreInv, NEW w \in Workers, NEW v, worker' = [worker EXCEPT ![w] = v], UNCHANGED port,
         v.pc \notin {"set", "spin"}, worker[w].pc \notin {"set", "spin"} \/ worker[w].ids = <<>>
  PROVE  LeftKept
<1>1. worker'[w] = v /\ \A u \in Workers : u # w => worker'[u] = worker[u]
  BY CoreTypes DEF SessionTypes
<1>2. \A u \in Workers : \A p : LeftOf(u, p)' = LeftOf(u, p)
  <2>1. SUFFICES ASSUME NEW u \in Workers, NEW p
                 PROVE  LeftOf(u, p)' = LeftOf(u, p)
    OBVIOUS
  <2>2. CASE u = w
    <3>1. LeftOf(u, p)' = {}
      BY <1>1, <2>2 DEF LeftOf
    <3>2. LeftOf(u, p) = {}
      <4>1. DOMAIN <<>> = {}
        OBVIOUS
      <4>2. QED
        BY <2>2, <4>1 DEF LeftOf
    <3>3. QED
      BY <3>1, <3>2
  <2>3. CASE u # w
    BY <1>1, <2>3 DEF LeftOf
  <2>4. QED
    BY <2>2, <2>3
<1>3. \A p : WithWorkers(p)' = WithWorkers(p)
  <2>1. SUFFICES ASSUME NEW p
                 PROVE  WithWorkers(p)' = WithWorkers(p)
    OBVIOUS
  <2>2. PICK f : f = [u \in Workers |-> LeftOf(u, p)]
    OBVIOUS
  <2>3. PICK g : g = [u \in Workers |-> LeftOf(u, p)']
    OBVIOUS
  <2>4. f = g
    BY <1>2, <2>2, <2>3
  <2>5. QED
    BY <2>2, <2>3, <2>4 DEF WithWorkers
<1>4. \A p : OnPort(p)' = OnPort(p)
  BY DEF OnPort, LeftIn
<1>5. QED
  BY <1>3, <1>4 DEF LeftKept

LEMMA NothingMoves ==
  ASSUME CoreInv, CoreInv', PacketInv, UNCHANGED <<sess, worker, port, refCnt, unused>>
  PROVE  PacketInv'
BY NobodyTakes, PacketsStay

LEMMA SlotQueued ==
  ASSUME CoreInv, CoreInv', PacketInv, NEW s \in Slots, NEW y, sess' = [sess EXCEPT ![s] = y],
         y.sendQ = sess[s].sendQ, y.sentQ = sess[s].sentQ, LeftKept, UNCHANGED <<refCnt, unused>>
  PROVE  PacketInv'
<1>1. \A t \in Slots : sess'[t].sendQ = sess[t].sendQ /\ sess'[t].sentQ = sess[t].sentQ
  BY CoreTypes DEF SessionTypes
<1>2. QED
  BY <1>1, PacketsStay

LEMMA ControlPackets ==
  ASSUME CoreInv, CoreInv', PacketInv, Control
  PROVE  PacketInv'
<1>1. CASE Start \/ ServerInitiate \/ PostQuit \/ StopRunning \/ StopDone
  <2>1. UNCHANGED <<sess, worker, port, refCnt, unused>>
    BY <1>1 DEF Start, ServerInitiate, PostQuit, StopRunning, StopDone, pktVars
  <2>2. QED
    BY <2>1, NothingMoves
<1>2. CASE RunThreads
  <2>1. UNCHANGED <<sess, port, refCnt, unused>> /\ worker' = [w \in Workers |-> Waiting] /\ main = "threads"
    BY <1>2 DEF RunThreads, pktVars
  <2>2. \A w \in Workers : worker[w].pc = "none"
    BY <2>1 DEF CoreInv, StopInv, StartSupport, Begun, Waiting
  <2>3. \A w \in Workers : \A p : LeftOf(w, p)' = LeftOf(w, p)
    BY <2>1, <2>2 DEF LeftOf, Waiting
  <2>4. ASSUME NEW p
        PROVE  WithWorkers(p)' = WithWorkers(p)
    <3>1. PICK f : f = [u \in Workers |-> LeftOf(u, p)]
      OBVIOUS
    <3>2. PICK g : g = [u \in Workers |-> LeftOf(u, p)']
      OBVIOUS
    <3>3. f = g
      BY <2>3, <3>1, <3>2
    <3>4. QED
      BY <3>1, <3>2, <3>3 DEF WithWorkers
  <2>5. \A p : OnPort(p)' = OnPort(p)
    BY <2>1 DEF OnPort, LeftIn
  <2>6. LeftKept
    BY <2>4, <2>5 DEF LeftKept
  <2>7. QED
    BY <2>1, <2>6, PacketsStay
<1>3. CASE Stop
  <2>1. /\ UNCHANGED <<worker, port, refCnt, unused>>
        /\ sess' = [s \in Slots |-> IF sess[s].dead THEN sess[s] ELSE Disconnected(sess[s])]
    BY <1>3 DEF Stop, pktVars
  <2>2. ASSUME NEW s \in Slots
        PROVE  sess'[s].sendQ = sess[s].sendQ /\ sess'[s].sentQ = sess[s].sentQ
    <3>1. sess[s] \in Sessions
      BY CoreTypes
    <3>2. Disconnected(sess[s]).sendQ = sess[s].sendQ /\ Disconnected(sess[s]).sentQ = sess[s].sentQ
      BY <3>1, DisconnectedFields
    <3>3. QED
      BY <2>1, <3>2
  <2>3. LeftKept
    BY <2>1, NobodyTakes
  <2>4. QED
    BY <2>1, <2>2, <2>3, PacketsStay
<1>4. QED
  BY <1>1, <1>2, <1>3 DEF Control

LEMMA KernelPackets ==
  ASSUME CoreInv, CoreInv', PacketInv, NEW s \in Slots, RecvEnds(s) \/ SendEnds(s)
  PROVE  PacketInv'
<1>1. UNCHANGED <<worker, port, refCnt, unused>> /\ LeftKept
  BY NobodyTakes DEF RecvEnds, SendEnds, pktVars
<1>2. sess[s] \in Sessions
  BY CoreTypes
<1>3. CASE RecvEnds(s)
  <2>1. PICK e : sess' = [sess EXCEPT ![s].recv = e]
    BY <1>3 DEF RecvEnds
  <2>2. PICK y : y = [sess[s] EXCEPT !.recv = e]
    OBVIOUS
  <2>3. sess' = [sess EXCEPT ![s] = y] /\ y.sendQ = sess[s].sendQ /\ y.sentQ = sess[s].sentQ
    BY <1>2, <2>1, <2>2 DEF Sessions
  <2>4. QED
    BY <1>1, <2>3, SlotQueued
<1>4. CASE SendEnds(s)
  <2>1. PICK e : sess' = [sess EXCEPT ![s].send = e]
    BY <1>4 DEF SendEnds
  <2>2. PICK y : y = [sess[s] EXCEPT !.send = e]
    OBVIOUS
  <2>3. sess' = [sess EXCEPT ![s] = y] /\ y.sendQ = sess[s].sendQ /\ y.sentQ = sess[s].sentQ
    BY <1>2, <2>1, <2>2 DEF Sessions
  <2>4. QED
    BY <1>1, <2>3, SlotQueued
<1>5. QED
  BY <1>3, <1>4

LEMMA WorkerRests ==
  ASSUME CoreInv, CoreInv', PacketInv, NEW w \in Workers,
         EndSet(w) \/ WorkerEnds(w) \/ \E i \in IDs : TakeLeave(w, i)
  PROVE  PacketInv'
<1>1. UNCHANGED <<sess, port, refCnt, unused>>
  BY DEF EndSet, WorkerEnds, TakeLeave, pktVars
<1>2. worker[w] \in WorkerStates
  BY CoreTypes DEF SessionTypes
<1>3. CASE EndSet(w)
  <2>1. worker' = [worker EXCEPT ![w] = Waiting] /\ worker[w].ids = <<>>
    BY <1>3 DEF EndSet
  <2>2. LeftKept
    BY <1>1, <2>1, WaitingState, WorkerIdle
  <2>3. QED
    BY <1>1, <2>2, PacketsStay
<1>4. CASE WorkerEnds(w)
  <2>1. PICK v : v = [worker[w] EXCEPT !.pc = "ended"]
    OBVIOUS
  <2>2. worker' = [worker EXCEPT ![w] = v] /\ v.pc = "ended" /\ worker[w].pc = "waiting"
    BY <1>2, <1>4, <2>1 DEF WorkerEnds, WorkerStates
  <2>3. LeftKept
    BY <1>1, <2>2, WorkerIdle
  <2>4. QED
    BY <1>1, <2>3, PacketsStay
<1>5. CASE \E i \in IDs : TakeLeave(w, i)
  <2>1. UNCHANGED worker
    BY <1>5 DEF TakeLeave
  <2>2. QED
    BY <1>1, <2>1, NothingMoves
<1>6. QED
  BY <1>3, <1>4, <1>5

-----------------------------------------------------------------------------
(* Handlers that leave the queues of their session as they are.            *)

LEMMA AbortedPackets ==
  ASSUME CoreInv, CoreInv', PacketInv, NEW s \in Slots, NEW r, Queued(r, sess[s].sendQ, sess[s].sentQ),
         LeftKept, UNCHANGED unused, Aborted(s, r)
  PROVE  PacketInv'
<1>1. quit' = "none"
  BY DEF CoreInv, SessionInv, LanNeverQuits
<1>2. Leave(s, Drop(r, 1), refCnt)
  BY <1>1 DEF Aborted
<1>3. PICK n \in Int : n = 1
  OBVIOUS
<1>4. Queued(Drop(r, n), sess[s].sendQ, sess[s].sentQ)
  BY RefsQueued
<1>5. QED
  BY <1>2, <1>3, <1>4, LeaveQueued

LEMMA TakeRecvPackets ==
  ASSUME CoreInv, CoreInv', PacketInv, NEW w \in Workers, NEW s \in Slots, TakeRecv(w, s)
  PROVE  PacketInv'
<1>1. UNCHANGED <<worker, port, unused>> /\ LeftKept
  BY NobodyTakes DEF TakeRecv, rest
<1>2. sess[s] \in Sessions /\ Queued(sess[s], sess[s].sendQ, sess[s].sentQ)
  BY CoreTypes, SessionQueued
<1>3. PICK a, b : a = sess[s].sendQ /\ b = sess[s].sentQ
  OBVIOUS
<1>4. PICK r : r = [sess[s] EXCEPT !.recv = "none"]
  OBVIOUS
<1>5. Queued(r, a, b)
  BY <1>2, <1>3, <1>4 DEF Queued, Recs
<1>6. ASSUME NEW x, Queued(x, a, b), Leave(s, x, refCnt)
      PROVE  PacketInv'
  BY <1>1, <1>3, <1>6, LeaveQueued
<1>7. CASE Leave(s, DisconnectedSession(r), refCnt)
  BY <1>5, <1>6, <1>7, EndsQueued
<1>8. CASE Aborted(s, r)
  BY <1>1, <1>3, <1>5, <1>8, AbortedPackets
<1>9. CASE Received(s, r)
  <2>1. CASE Leave(s, Drop(r, 1), refCnt)
    <3>1. PICK n \in Int : n = 1
      OBVIOUS
    <3>2. Queued(Drop(r, n), a, b)
      BY <1>5, RefsQueued
    <3>3. QED
      BY <1>6, <2>1, <3>1, <3>2
  <2>2. CASE \E x \in RecvPosted(r) : Leave(s, x, refCnt)
    BY <1>5, <1>6, <2>2, RecvPostedQueued
  <2>3. CASE \E x \in RecvPosted([r EXCEPT !.jobQ = Append(@, r.id)]) : r.cur # NoPipe /\ Leave(s, x, refCnt)
    <3>1. PICK y : y = [r EXCEPT !.jobQ = Append(@, r.id)]
      OBVIOUS
    <3>2. PICK x \in RecvPosted(y) : r.cur # NoPipe /\ Leave(s, x, refCnt)
      BY <2>3, <3>1
    <3>3. r.id \in IDs
      <4>1. r.id = sess[s].id /\ r.dead = sess[s].dead /\ sess[s].recv # "none"
        BY <1>2, <1>4 DEF Sessions, TakeRecv
      <4>2. ~sess[s].dead
        BY <4>1, UnderWay DEF CoreInv
      <4>3. QED
        BY <4>1, <4>2, UserFacts DEF CoreInv
    <3>4. Append(r.jobQ, r.id) \in Seq(IDs)
      BY <1>5, <3>3 DEF Queued, Recs
    <3>5. Queued(y, a, b)
      BY <1>5, <3>1, <3>4 DEF Queued, Recs
    <3>6. QED
      BY <1>6, <3>2, <3>5, RecvPostedQueued
  <2>4. QED
    BY <1>7, <1>9, <2>1, <2>2, <2>3 DEF Received
<1>10. QED
  BY <1>4, <1>7, <1>8, <1>9 DEF TakeRecv

LEMMA TakeSendPackets ==
  ASSUME CoreInv, CoreInv', PacketInv, NEW w \in Workers, NEW s \in Slots, TakeSend(w, s)
  PROVE  PacketInv'
<1>1. UNCHANGED <<port, unused>> /\ worker[w].pc = "waiting"
  BY DEF TakeSend, rest
<1>2. sess[s] \in Sessions /\ Queued(sess[s], sess[s].sendQ, sess[s].sentQ)
  BY CoreTypes, SessionQueued
<1>3. PICK a, b : a = sess[s].sendQ /\ b = sess[s].sentQ
  OBVIOUS
<1>4. PICK r : r = [sess[s] EXCEPT !.send = "none"]
  OBVIOUS
<1>5. Queued(r, a, b)
  BY <1>2, <1>3, <1>4 DEF Queued, Recs
<1>6. PICK two : two = IF isSendIOPending THEN [r EXCEPT !.refs = @ + 1] ELSE r
  OBVIOUS
<1>7. PICK m \in Int, n \in Int : m = 1 /\ n = 2
  OBVIOUS
<1>8. Queued(two, a, b)
  <2>1. Queued([r EXCEPT !.refs = @ + m], a, b)
    BY <1>5, RefsQueued
  <2>2. QED
    BY <1>5, <1>6, <1>7, <2>1
<1>9. ASSUME NEW x, Queued(x, a, b), UNCHANGED worker, Leave(s, x, refCnt)
      PROVE  PacketInv'
  BY <1>1, <1>3, <1>9, NobodyTakes, LeaveQueued
<1>10. CASE Leave(s, Drop(two, 2), refCnt) /\ UNCHANGED worker
  <2>1. Queued(Drop(two, n), a, b)
    BY <1>8, RefsQueued
  <2>2. QED
    BY <1>7, <1>9, <1>10, <2>1
<1>11. CASE /\ sess' = [sess EXCEPT ![s] = two] /\ UNCHANGED refCnt
            /\ worker' = [worker EXCEPT ![w] = [Waiting EXCEPT !.pc = "resume", !.slot = s]]
  <2>1. PICK v : v = [Waiting EXCEPT !.pc = "resume", !.slot = s]
    OBVIOUS
  <2>2. v.pc = "resume" /\ worker' = [worker EXCEPT ![w] = v]
    BY <1>11, <2>1 DEF Waiting
  <2>3. LeftKept
    BY <1>1, <2>2, WorkerIdle
  <2>4. two.sendQ = sess[s].sendQ /\ two.sentQ = sess[s].sentQ
    BY <1>3, <1>8 DEF Queued
  <2>5. QED
    BY <1>1, <1>11, <2>3, <2>4, SlotQueued
<1>12. CASE Leave(s, DisconnectedSession(r), refCnt) /\ UNCHANGED worker
  BY <1>5, <1>9, <1>12, EndsQueued
<1>13. CASE Aborted(s, r) /\ UNCHANGED worker
  <2>1. LeftKept
    BY <1>1, <1>13, NobodyTakes
  <2>2. QED
    BY <1>1, <1>3, <1>5, <1>13, <2>1, AbortedPackets
<1>14. \/ Leave(s, Drop(two, 2), refCnt) /\ UNCHANGED worker
       \/ /\ sess' = [sess EXCEPT ![s] = two] /\ UNCHANGED refCnt
          /\ worker' = [worker EXCEPT ![w] = [Waiting EXCEPT !.pc = "resume", !.slot = s]]
       \/ Leave(s, DisconnectedSession(r), refCnt) /\ UNCHANGED worker
       \/ Aborted(s, r) /\ UNCHANGED worker
  BY <1>4, <1>6 DEF TakeSend
<1>15. QED
  BY <1>10, <1>11, <1>12, <1>13, <1>14

LEMMA DisconnectPackets ==
  ASSUME CoreInv, CoreInv', PacketInv, NEW i \in IDs, Disconnect(i)
  PROVE  PacketInv'
<1>1. UNCHANGED <<worker, port, unused>> /\ LeftKept /\ Found(i)
  BY NobodyTakes DEF Disconnect, rest
<1>2. PICK s \in Slots : s = slotOf[i]
  BY <1>1, FoundFacts
<1>3. sess[s] \in Sessions /\ Queued(sess[s], sess[s].sendQ, sess[s].sentQ)
  BY CoreTypes, SessionQueued
<1>4. PICK m \in Int : m = 1
  OBVIOUS
<1>5. PICK r : r = [sess[s] EXCEPT !.refs = @ + m]
  OBVIOUS
<1>6. Queued(r, sess[s].sendQ, sess[s].sentQ)
  BY <1>3, <1>5, RefsQueued
<1>7. Queued(Drop(r, m), sess[s].sendQ, sess[s].sentQ) /\ Queued(DisconnectedSession(r), sess[s].sendQ, sess[s].sentQ)
  BY <1>6, RefsQueued, EndsQueued
<1>8. Leave(s, Drop(r, m), refCnt) \/ Leave(s, DisconnectedSession(r), refCnt)
  BY <1>2, <1>4, <1>5 DEF Disconnect
<1>9. QED
  BY <1>1, <1>7, <1>8, LeaveQueued

LEMMA AcceptPackets ==
  ASSUME CoreInv, CoreInv', PacketInv, NEW s \in Slots, NEW i \in IDs, Accept(s, i)
  PROVE  PacketInv'
<1>1. UNCHANGED <<worker, port, unused>> /\ LeftKept /\ s \in free
  BY NobodyTakes DEF Accept
<1>2. PICK r : r = [sess[s] EXCEPT !.id = i, !.refs = 1, !.dead = FALSE, !.canceled = FALSE]
  OBVIOUS
<1>3. r \in Sessions /\ Holds(r, 1) /\ ~r.moving
  BY <1>1, <1>2, NewSession DEF CoreInv
<1>4. r.sendQ = sess[s].sendQ /\ r.sentQ = sess[s].sentQ
  <2>1. sess[s] \in Sessions
    BY CoreTypes
  <2>2. QED
    BY <1>2, <2>1 DEF Sessions
<1>5. PICK a, b : a = sess[s].sendQ /\ b = sess[s].sentQ
  OBVIOUS
<1>6. Queued(r, a, b)
  BY <1>3, <1>4, <1>5, SessionQueued
<1>7. ASSUME NEW y, Queued(y, a, b), sess' = [sess EXCEPT ![s] = y], UNCHANGED refCnt
      PROVE  PacketInv'
  <2>1. y.sendQ = sess[s].sendQ /\ y.sentQ = sess[s].sentQ
    BY <1>5, <1>7 DEF Queued
  <2>2. QED
    BY <1>1, <1>7, <2>1, SlotQueued
<1>8. CASE \E p \in Pipes : \E y \in RecvPosted(MovedTo(r, p)) : sess' = [sess EXCEPT ![s] = y] /\ UNCHANGED refCnt
  <2>1. PICK p, y : p \in Pipes /\ y \in RecvPosted(MovedTo(r, p)) /\ sess' = [sess EXCEPT ![s] = y] /\ UNCHANGED refCnt
    BY <1>8
  <2>2. PICK t : t = MovedTo(r, p)
    OBVIOUS
  <2>3. t \in Sessions /\ t.sendQ = r.sendQ /\ t.sentQ = r.sentQ
    BY <1>3, <2>1, <2>2, MovedHolds
  <2>4. Queued(t, a, b)
    BY <1>6, <2>3, SessionQueued DEF Queued
  <2>5. Queued(y, a, b)
    BY <2>1, <2>2, <2>4, RecvPostedQueued
  <2>6. QED
    BY <1>7, <2>1, <2>5
<1>9. CASE \E y \in RecvPosted(r) : sess' = [sess EXCEPT ![s] = y] /\ UNCHANGED refCnt
  BY <1>6, <1>7, <1>9, RecvPostedQueued
<1>10. CASE \E y \in RecvPosted(r) : Leave(s, y, refCnt)
  <2>1. PICK y \in RecvPosted(r) : Leave(s, y, refCnt)
    BY <1>10
  <2>2. Queued(y, sess[s].sendQ, sess[s].sentQ)
    BY <1>5, <1>6, <2>1, RecvPostedQueued
  <2>3. QED
    BY <1>1, <2>1, <2>2, LeaveQueued
<1>11. \/ \E p \in Pipes : \E y \in RecvPosted(MovedTo(r, p)) : sess' = [sess EXCEPT ![s] = y] /\ UNCHANGED refCnt
       \/ \E y \in RecvPosted(r) : sess' = [sess EXCEPT ![s] = y] /\ UNCHANGED refCnt
       \/ \E y \in RecvPosted(r) : Leave(s, y, refCnt)
  BY <1>2 DEF Accept, FindPipe
<1>12. QED
  BY <1>8, <1>9, <1>10, <1>11

LEMMA PipesRest ==
  ASSUME pipeRest' = pipeRest
  PROVE  UNCHANGED <<worker, port, unused>> /\ LeftKept
BY NobodyTakes DEF pipeRest

LEMMA UserSlot ==
  ASSUME CoreInv, NEW p \in Pipes, NEW i \in IDs,
         i \in userMap[p] \/ In(joinQ[p], i) \/ In(moveInQ[p], i) \/ In(leaveQ[p], i)
  PROVE  slotOf[i] \in Slots /\ sess[slotOf[i]].id = i
BY CoreTypes DEF CoreInv, PlaceInv, UserSupport, Has, SessionTypes

LEMMA EnterPackets ==
  ASSUME CoreInv, CoreInv', PacketInv, NEW p \in Pipes, NEW i \in IDs, AfterPipeEnter(p, i),
         slotOf[i] \in Slots, LeftKept, UNCHANGED unused
  PROVE  PacketInv'
<1>1. quit' = "none"
  BY DEF CoreInv, SessionInv, LanNeverQuits
<1>2. PICK s \in Slots : s = slotOf[i]
  OBVIOUS
<1>3. Leave(s, Entered(sess[s]), refCnt)
  BY <1>1, <1>2 DEF AfterPipeEnter
<1>4. Queued(Entered(sess[s]), sess[s].sendQ, sess[s].sentQ)
  BY CoreTypes, SessionQueued, EnteredQueued
<1>5. QED
  BY <1>3, <1>4, LeaveQueued

LEMMA FirstOf ==
  ASSUME NEW q \in Seq(IDs), q # <<>>
  PROVE  Head(q) \in IDs /\ In(q, Head(q))
<1>1. 1 \in DOMAIN q /\ Head(q) = q[1]
  BY EmptySeq
<1>2. QED
  BY <1>1 DEF In

LEMMA JoinPackets ==
  ASSUME CoreInv, CoreInv', PacketInv, NEW p \in Pipes, Join(p) \/ MoveIn(p)
  PROVE  PacketInv'
<1>1. UNCHANGED <<worker, port, unused>> /\ LeftKept
  BY PipesRest DEF Join, MoveIn
<1>2. PlaceTypes
  BY DEF CoreInv, PlaceInv
<1>3. CASE UNCHANGED <<sess, refCnt>>
  BY <1>1, <1>3, NothingMoves
<1>4. CASE joinQ[p] # <<>> /\ AfterPipeEnter(p, Head(joinQ[p]))
  <2>1. PICK q \in Seq(IDs) : q = joinQ[p]
    BY <1>2 DEF PlaceTypes
  <2>2. PICK i \in IDs : i = Head(q) /\ In(q, i)
    BY <1>4, <2>1, FirstOf
  <2>3. slotOf[i] \in Slots /\ AfterPipeEnter(p, i)
    BY <1>4, <2>1, <2>2, UserSlot
  <2>4. QED
    BY <1>1, <2>3, EnterPackets
<1>5. CASE moveInQ[p] # <<>> /\ AfterPipeEnter(p, Head(moveInQ[p]))
  <2>1. PICK q \in Seq(IDs) : q = moveInQ[p]
    BY <1>2 DEF PlaceTypes
  <2>2. PICK i \in IDs : i = Head(q) /\ In(q, i)
    BY <1>5, <2>1, FirstOf
  <2>3. slotOf[i] \in Slots /\ AfterPipeEnter(p, i)
    BY <1>5, <2>1, <2>2, UserSlot
  <2>4. QED
    BY <1>1, <2>3, EnterPackets
<1>6. QED
  BY <1>3, <1>4, <1>5 DEF Join, MoveIn

LEMMA MovePackets ==
  ASSUME CoreInv, CoreInv', PacketInv, NEW p \in Pipes,
         MoveOut(p) \/ EndFrame(p) \/ \E i \in IDs, c \in Codes : MovePipe(p, i, c)
  PROVE  PacketInv'
<1>1. CASE MoveOut(p) \/ EndFrame(p)
  <2>1. UNCHANGED <<sess, refCnt, worker, port, unused>>
    BY <1>1, ZenonT(40) DEF MoveOut, EndFrame, pipeRest
  <2>2. QED
    BY <2>1, NothingMoves, SMTT(30)
<1>2. CASE \E i \in IDs, c \in Codes : MovePipe(p, i, c)
  <2>1. PICK i \in IDs, c \in Codes : MovePipe(p, i, c)
    BY <1>2
  <2>2. UNCHANGED <<worker, port, unused, refCnt>> /\ LeftKept /\ Found(i) /\ ~sess[slotOf[i]].moving
    BY <2>1, PipesRest DEF MovePipe
  <2>3. PICK s \in Slots : s = slotOf[i]
    BY <2>2, FoundFacts
  <2>4. Holds(sess[s], Hands(s))
    BY <2>2, <2>3, FoundFacts
  <2>5. PICK d \in Pipes : sess' = [sess EXCEPT ![s] = MovedTo(sess[s], d)]
    BY <2>1, <2>3 DEF MovePipe, FindPipe
  <2>6. MovedTo(sess[s], d).sendQ = sess[s].sendQ /\ MovedTo(sess[s], d).sentQ = sess[s].sentQ
    BY <2>2, <2>3, <2>4, MovedHolds
  <2>7. QED
    BY <2>2, <2>5, <2>6, SlotQueued
<1>3. QED
  BY <1>1, <1>2

\* What Destroy frees of a session that nobody refers to.
LEMMA DestroyedPackets ==
  ASSUME CoreInv, CoreInv', PacketInv, NEW s \in Slots, sess' = [sess EXCEPT ![s] = Destroyed(sess[s])],
         refCnt' = Freed(refCnt, sess[s].sendQ \o sess[s].sentQ), LeftKept, UNCHANGED unused
  PROVE  PacketInv'
<1>1. PICK y : y = Destroyed(sess[s])
  OBVIOUS
<1>2. sess[s] \in Recs /\ refCnt \in [Packets -> Nat] /\ unused \subseteq Packets
  BY CoreTypes, SessionQueued DEF Queued, PacketInv
<1>3. \A p : QueueCount(y, p) = 0
  <2>1. y.sendQ = <<>> /\ y.sentQ = <<>>
    BY <1>1 DEF Destroyed, Dead
  <2>2. <<>> \o <<>> = <<>>
    OBVIOUS
  <2>3. QED
    BY <2>1, <2>2, CountEmpty DEF QueueCount
<1>4. ASSUME NEW p \in Packets
      PROVE  /\ refCnt'[p] = refCnt[p] + (QueueCount(y, p) - QueueCount(sess[s], p))
                             + (WithWorkers(p)' - WithWorkers(p)) + (OnPort(p)' - OnPort(p))
             /\ refCnt'[p] \in Int /\ refCnt'[p] <= refCnt[p]
  <2>1. PICK d \in Nat, u \in Nat, n \in Nat : d = QueueCount(sess[s], p) /\ u = WithWorkers(p) /\ n = OnPort(p)
    BY <1>2, QueueCountType, CoreTypes
  <2>2. WithWorkers(p)' = u /\ OnPort(p)' = n
    BY <2>1 DEF LeftKept
  <2>3. refCnt'[p] = refCnt[p] - d /\ refCnt[p] \in Nat
    BY <1>2, <2>1 DEF Freed, QueueCount, Count
  <2>4. refCnt'[p] = refCnt[p] + (0 - d) + (u - u) + (n - n) /\ refCnt'[p] \in Int /\ refCnt'[p] <= refCnt[p]
    BY <2>1, <2>3
  <2>5. QED
    BY <1>3, <2>1, <2>2, <2>4
<1>5. refCnt' \in [Packets -> Int]
  <2>1. refCnt' = [p \in Packets |-> refCnt'[p]]
    BY DEF Freed
  <2>2. QED
    BY <1>4, <2>1
<1>6. Owed(s, y, refCnt')
  BY <1>2, <1>4, <1>5 DEF Owed
<1>7. QED
  BY <1>1, <1>6, SlotAccounts

LEMMA LeavePipePackets ==
  ASSUME CoreInv, CoreInv', PacketInv, NEW p \in Pipes, LeavePipe(p)
  PROVE  PacketInv'
<1>1. UNCHANGED <<worker, port, unused>> /\ LeftKept /\ quit' = "none"
  BY PipesRest DEF LeavePipe, CoreInv, SessionInv, LanNeverQuits
<1>2. CASE leaveQ[p] = <<>>
  <2>1. UNCHANGED <<sess, refCnt>>
    BY <1>2 DEF LeavePipe
  <2>2. QED
    BY <1>1, <2>1, NothingMoves
<1>3. CASE leaveQ[p] # <<>>
  <2>1. PICK q \in Seq(IDs) : q = leaveQ[p]
    BY DEF CoreInv, PlaceInv, PlaceTypes
  <2>2. PICK i \in IDs : i = Head(q) /\ In(q, i)
    BY <1>3, <2>1, FirstOf
  <2>3. PICK s \in Slots : s = slotOf[i]
    BY <2>1, <2>2, UserSlot
  <2>4. /\ sess' = [sess EXCEPT ![s] = Destroyed(sess[s])]
        /\ refCnt' = Freed(refCnt, sess[s].sendQ \o sess[s].sentQ)
    BY <1>1, <1>3, <2>1, <2>2, <2>3 DEF LeavePipe
  <2>5. QED
    BY <1>1, <2>4, DestroyedPackets
<1>4. QED
  BY <1>2, <1>3

LEMMA DequeueJobPackets ==
  ASSUME CoreInv, CoreInv', PacketInv, NEW p \in Pipes, NEW i \in IDs, DequeueJob(p, i)
  PROVE  PacketInv'
<1>1. UNCHANGED <<worker, port, unused>> /\ LeftKept /\ quit' = "none"
  BY PipesRest DEF DequeueJob, CoreInv, SessionInv, LanNeverQuits
<1>2. PICK s \in Slots : s = slotOf[i]
  BY UserSlot DEF DequeueJob
<1>3. PICK a, b : a = sess[s].sendQ /\ b = sess[s].sentQ
  OBVIOUS
<1>4. PICK x : x = [sess[s] EXCEPT !.jobQ = Tail(@)]
  OBVIOUS
<1>5. Queued(x, a, b)
  <2>1. Queued(sess[s], a, b) /\ sess[s].jobQ # <<>>
    BY <1>2, <1>3, CoreTypes, SessionQueued DEF DequeueJob
  <2>2. Tail(sess[s].jobQ) \in Seq(IDs)
    BY <2>1 DEF Queued, Recs
  <2>3. QED
    BY <1>4, <2>1, <2>2 DEF Queued, Recs
<1>6. Leave(s, x, refCnt) \/ Leave(s, Disconnected(x), refCnt)
  BY <1>1, <1>2, <1>4 DEF DequeueJob
<1>7. Queued(Disconnected(x), a, b)
  BY <1>5, DisconnectedQueued
<1>8. QED
  BY <1>1, <1>3, <1>5, <1>6, <1>7, LeaveQueued

LEMMA PipeStepPackets ==
  ASSUME CoreInv, CoreInv', PacketInv, NEW p \in Pipes, PipeStep(p)
  PROVE  PacketInv'
BY JoinPackets, MovePackets, LeavePipePackets, DequeueJobPackets DEF PipeStep

-----------------------------------------------------------------------------
(* Steps that send, or hand packets on.                                    *)

LEMMA OwedNothing ==
  ASSUME CoreInv, PacketInv, NEW s \in Slots, NEW x, Queued(x, sess[s].sendQ, sess[s].sentQ),
         LeftKept, unused' \subseteq unused
  PROVE  Owed(s, x, refCnt)
<1>1. x \in Recs /\ \A p : QueueCount(x, p) = QueueCount(sess[s], p)
  BY DEF Queued, QueueCount
<1>2. refCnt \in [Packets -> Nat] /\ unused \subseteq Packets
  BY DEF PacketInv
<1>3. ASSUME NEW p \in Packets
      PROVE  refCnt[p] = refCnt[p] + (QueueCount(x, p) - QueueCount(sess[s], p))
                                    + (WithWorkers(p)' - WithWorkers(p)) + (OnPort(p)' - OnPort(p))
  <2>1. WithWorkers(p) \in Nat /\ OnPort(p) \in Nat /\ QueueCount(x, p) \in Nat /\ refCnt[p] \in Nat
    BY <1>1, <1>2, CoreTypes, QueueCountType
  <2>2. WithWorkers(p)' = WithWorkers(p) /\ OnPort(p)' = OnPort(p)
    BY DEF LeftKept
  <2>3. QueueCount(x, p) - QueueCount(sess[s], p) = 0 /\ WithWorkers(p)' - WithWorkers(p) = 0
        /\ OnPort(p)' - OnPort(p) = 0
    BY <1>1, <2>1, <2>2
  <2>4. QED
    BY <2>1, <2>3
<1>4. \A p \in unused' : refCnt[p] <= refCnt[p]
  BY <1>2
<1>5. QED
  BY <1>2, <1>3, <1>4 DEF Owed

\* x has packet k more than the session of slot s
OneQueued(x, s, k) ==
  x \in Recs /\ x.sendQ = Append(sess[s].sendQ, k) /\ x.sentQ = sess[s].sentQ

LEMMA QueuedCount ==
  ASSUME CoreInv, NEW s \in Slots, NEW k \in Packets, NEW x, OneQueued(x, s, k), NEW p
  PROVE  /\ QueueCount(x, p) = QueueCount(sess[s], p) + (IF k = p THEN 1 ELSE 0)
         /\ QueueCount(x, p) \in Nat /\ QueueCount(sess[s], p) \in Nat
<1>1. PICK a \in Seq(Packets), b \in Seq(Packets) : a = sess[s].sendQ /\ b = sess[s].sentQ
  BY CoreTypes DEF Sessions
<1>2. x \in Recs /\ x.sendQ = Append(a, k) /\ x.sentQ = b
  BY <1>1 DEF OneQueued
<1>3. Count(a, p) \in Nat /\ Count(b, p) \in Nat
  BY <1>1, PlacesFinite
<1>4. QueueCount(sess[s], p) = Count(a, p) + Count(b, p)
  BY <1>1, CountConcat DEF QueueCount
<1>5. PICK e \in Seq(Packets) : e = Append(a, k)
  <2>1. Append(a, k) \in Seq(Packets)
    BY <1>1, InAppend
  <2>2. QED
    BY <2>1
<1>6. Count(e, p) = Count(a, p) + (IF k = p THEN 1 ELSE 0)
  BY <1>1, <1>5, CountAppend
<1>7. QueueCount(x, p) = Count(e, p) + Count(b, p)
  <2>1. Count(e \o b, p) = Count(e, p) + Count(b, p)
    <3>1. e \in Seq(Packets) /\ b \in Seq(Packets)
      BY <1>1, <1>5
    <3>2. QED
      BY <3>1, CountConcat
  <2>2. x.sendQ = e /\ x.sentQ = b
    BY <1>2, <1>5
  <2>3. QED
    BY <2>1, <2>2 DEF QueueCount
<1>8. QED
  BY <1>3, <1>4, <1>6, <1>7

LEMMA Appended ==
  ASSUME CoreInv, NEW s \in Slots, NEW k \in Packets, NEW r, Queued(r, sess[s].sendQ, sess[s].sentQ), NEW q,
         q = [r EXCEPT !.sendQ = Append(@, k)]
  PROVE  OneQueued(q, s, k) /\ q.sending = r.sending /\ q.canceled = r.canceled
<1>1. r.sendQ \in Seq(Packets) /\ r \in Recs
  BY DEF Queued, Recs
<1>2. PICK a \in Seq(Packets) : a = Append(r.sendQ, k)
  <2>1. Append(r.sendQ, k) \in Seq(Packets)
    BY <1>1, InAppend
  <2>2. QED
    BY <2>1
<1>3. q = [r EXCEPT !.sendQ = a]
  BY <1>2
<1>4. q \in Recs /\ q.sendQ = a /\ q.sentQ = r.sentQ /\ q.sending = r.sending /\ q.canceled = r.canceled
  BY <1>1, <1>2, <1>3 DEF Recs
<1>5. QED
  BY <1>2, <1>4 DEF OneQueued, Queued

LEMMA OneQueuedKept ==
  ASSUME NEW s \in Slots, NEW k, NEW q, OneQueued(q, s, k), NEW n \in Int
  PROVE  OneQueued(Drop(q, n), s, k) /\ OneQueued(Disconnected(q), s, k)
<1>1. Queued(q, q.sendQ, q.sentQ)
  BY DEF OneQueued, Queued
<1>2. Queued(Drop(q, n), q.sendQ, q.sentQ) /\ Queued(Disconnected(q), q.sendQ, q.sentQ)
  BY <1>1, RefsQueued, DisconnectedQueued
<1>3. QED
  BY <1>2 DEF OneQueued, Queued

\* a packet that nobody has is queued
LEMMA OwedNew ==
  ASSUME CoreInv, PacketInv, NEW s \in Slots, NEW k \in Packets, NEW x, OneQueued(x, s, k), LeftKept,
         unused' = unused \ {k}
  PROVE  Owed(s, x, [refCnt EXCEPT ![k] = @ + 1])
<1>1. refCnt \in [Packets -> Nat] /\ unused \subseteq Packets
  BY DEF PacketInv
<1>2. PICK c : c = [refCnt EXCEPT ![k] = @ + 1]
  OBVIOUS
<1>3. c \in [Packets -> Int] /\ \A p \in Packets : c[p] = refCnt[p] + (IF k = p THEN 1 ELSE 0)
  BY <1>1, <1>2
<1>4. ASSUME NEW p \in Packets
      PROVE  c[p] = refCnt[p] + (QueueCount(x, p) - QueueCount(sess[s], p))
                                    + (WithWorkers(p)' - WithWorkers(p)) + (OnPort(p)' - OnPort(p))
  <2>1. WithWorkers(p) \in Nat /\ OnPort(p) \in Nat /\ refCnt[p] \in Nat
    BY <1>1, CoreTypes
  <2>2. WithWorkers(p)' = WithWorkers(p) /\ OnPort(p)' = OnPort(p)
    BY DEF LeftKept
  <2>3. /\ QueueCount(x, p) - QueueCount(sess[s], p) = (IF k = p THEN 1 ELSE 0)
        /\ WithWorkers(p)' - WithWorkers(p) = 0 /\ OnPort(p)' - OnPort(p) = 0
    BY <2>1, <2>2, QueuedCount
  <2>4. QED
    BY <1>3, <2>1, <2>3
<1>5. \A p \in unused' : c[p] <= refCnt[p]
  BY <1>1, <1>3
<1>6. Owed(s, x, c)
  BY <1>3, <1>4, <1>5 DEF Owed
<1>7. QED
  BY <1>2, <1>6

\* a worker has packet k to send once less
OneLess(k) ==
  \A p : WithWorkers(p)' = WithWorkers(p) - (IF k = p THEN 1 ELSE 0) /\ OnPort(p)' = OnPort(p)

\* ... and a session has it once more, or it is freed
LEMMA OwedMoved ==
  ASSUME CoreInv, PacketInv, NEW s \in Slots, NEW k \in Packets, NEW x, OneLess(k), UNCHANGED unused
  PROVE  /\ OneQueued(x, s, k) => Owed(s, x, refCnt)
         /\ Queued(x, sess[s].sendQ, sess[s].sentQ) => Owed(s, x, [refCnt EXCEPT ![k] = @ - 1])
<1>1. refCnt \in [Packets -> Nat] /\ unused \subseteq Packets
  BY DEF PacketInv
<1>2. PICK c : c = [refCnt EXCEPT ![k] = @ - 1]
  OBVIOUS
<1>3. c \in [Packets -> Int] /\ \A p \in Packets : c[p] = refCnt[p] - (IF k = p THEN 1 ELSE 0) /\ c[p] <= refCnt[p]
  BY <1>1, <1>2
<1>4. ASSUME NEW p \in Packets
      PROVE  /\ WithWorkers(p)' - WithWorkers(p) = 0 - (IF k = p THEN 1 ELSE 0)
             /\ OnPort(p)' - OnPort(p) = 0 /\ refCnt[p] \in Nat
  <2>1. WithWorkers(p) \in Nat /\ OnPort(p) \in Nat
    BY CoreTypes
  <2>2. WithWorkers(p)' = WithWorkers(p) - (IF k = p THEN 1 ELSE 0) /\ OnPort(p)' = OnPort(p)
    BY DEF OneLess
  <2>3. QED
    BY <1>1, <2>1, <2>2
<1>5. ASSUME OneQueued(x, s, k)
      PROVE  Owed(s, x, refCnt)
  <2>1. ASSUME NEW p \in Packets
        PROVE  refCnt[p] = refCnt[p] + (QueueCount(x, p) - QueueCount(sess[s], p))
                                    + (WithWorkers(p)' - WithWorkers(p)) + (OnPort(p)' - OnPort(p))
    <3>1. QueueCount(x, p) - QueueCount(sess[s], p) = (IF k = p THEN 1 ELSE 0)
      BY <1>5, QueuedCount
    <3>2. QED
      BY <1>4, <3>1
  <2>2. \A p \in unused' : refCnt[p] <= refCnt[p]
    BY <1>1
  <2>3. QED
    BY <1>1, <2>1, <2>2 DEF Owed
<1>6. ASSUME Queued(x, sess[s].sendQ, sess[s].sentQ)
      PROVE  Owed(s, x, c)
  <2>1. ASSUME NEW p \in Packets
        PROVE  c[p] = refCnt[p] + (QueueCount(x, p) - QueueCount(sess[s], p))
                                    + (WithWorkers(p)' - WithWorkers(p)) + (OnPort(p)' - OnPort(p))
    <3>1. QueueCount(x, p) = QueueCount(sess[s], p) /\ QueueCount(x, p) \in Nat
      BY <1>6, QueueCountType DEF Queued, QueueCount
    <3>2. QueueCount(x, p) - QueueCount(sess[s], p) = 0
      BY <3>1
    <3>3. QED
      BY <1>3, <1>4, <3>2
  <2>2. \A p \in unused' : c[p] <= refCnt[p]
    BY <1>1, <1>3
  <2>3. QED
    BY <1>1, <1>3, <2>1, <2>2 DEF Owed
<1>7. QED
  BY <1>2, <1>5, <1>6

LEMMA PostsAccounts ==
  ASSUME CoreInv, CoreInv', PacketInv, UNCHANGED sess, refCnt' \in [Packets -> Int], unused' \subseteq unused,
         \A p \in Packets : refCnt'[p] = refCnt[p] + (WithWorkers(p)' - WithWorkers(p)) + (OnPort(p)' - OnPort(p)),
         \A p \in unused' : refCnt'[p] <= refCnt[p]
  PROVE  PacketInv'
<1>1. SessionTypes /\ SessionTypes'
  BY DEF CoreInv, SessionInv
<1>2. refCnt \in [Packets -> Nat]
  BY DEF PacketInv
<1>3. ASSUME NEW p \in Packets
      PROVE  refCnt'[p] = refCnt[p] + (InSessions(p)' - InSessions(p))
                                    + (WithWorkers(p)' - WithWorkers(p)) + (OnPort(p)' - OnPort(p))
  <2>1. InSessions(p)' = InSessions(p)
    BY DEF InSessions
  <2>2. InSessions(p) \in Nat /\ refCnt[p] \in Nat
    BY <1>2, CoreTypes
  <2>3. InSessions(p)' - InSessions(p) = 0
    BY <2>1, <2>2
  <2>4. refCnt[p] + 0 = refCnt[p]
    BY <2>2
  <2>5. QED
    BY <2>3, <2>4
<1>4. QED
  BY <1>1, <1>3, Accounted

\* a worker goes on to its next ID
LEMMA OneSentLess ==
  ASSUME CoreInv, CoreInv', NEW w \in Workers, NEW v, worker' = [worker EXCEPT ![w] = v], UNCHANGED port,
         worker[w].pc \in {"set", "spin"}, v.pc \in {"set", "spin"}, worker[w].ids # <<>>,
         v.ids = Tail(worker[w].ids), v.packet = worker[w].packet
  PROVE  OneLess(worker[w].packet) /\ worker[w].packet \in Packets
<1>1. SessionTypes /\ SessionTypes'
  BY DEF CoreInv, SessionInv
<1>2. worker'[w] = v /\ \A u \in Workers : u # w => worker'[u] = worker[u]
  BY <1>1 DEF SessionTypes
<1>3. worker[w] \in WorkerStates /\ worker[w].packet \in Packets
  BY WorkerFacts DEF WorkerSupport
<1>4. PICK q \in Seq(IDs) : q = worker[w].ids
  BY <1>3 DEF WorkerStates
<1>5. Len(q) \in Nat /\ Len(Tail(q)) = Len(q) - 1
  BY <1>4, EmptySeq, HeadTailProperties
<1>6. ASSUME NEW p
      PROVE  WithWorkers(p)' = WithWorkers(p) - (IF worker[w].packet = p THEN 1 ELSE 0) /\ OnPort(p)' = OnPort(p)
  <2>1. /\ WithWorkers(p)' = WithWorkers(p) - Left(worker[w], p) + Left(v, p)
        /\ WithWorkers(p) \in Nat /\ WithWorkers(p)' \in Nat
    BY <1>1, <1>2, WorkerCount
  <2>2. OnPort(p)' = OnPort(p)
    BY DEF OnPort, LeftIn
  <2>3. CASE worker[w].packet = p
    <3>1. Left(worker[w], p) = Len(q) /\ Left(v, p) = Len(Tail(q))
      BY <1>4, <2>3 DEF Left
    <3>2. QED
      BY <1>5, <2>1, <2>2, <2>3, <3>1
  <2>4. CASE worker[w].packet # p
    <3>1. Left(worker[w], p) = 0 /\ Left(v, p) = 0
      BY <2>4 DEF Left
    <3>2. QED
      BY <2>1, <2>2, <2>4, <3>1
  <2>5. QED
    BY <2>3, <2>4
<1>7. QED
  BY <1>3, <1>6 DEF OneLess

LEMMA SetWithoutIDPackets ==
  ASSUME CoreInv, CoreInv', PacketInv, NEW w \in Workers, SetWithoutID(w)
  PROVE  PacketInv'
<1>1. /\ UNCHANGED <<sess, port, unused>> /\ worker[w].pc = "set" /\ worker[w].ids # <<>>
      /\ refCnt' = [refCnt EXCEPT ![worker[w].packet] = @ - 1]
      /\ worker' = [worker EXCEPT ![w].ids = Tail(@)]
  BY DEF SetWithoutID
<1>2. PICK v : v = [worker[w] EXCEPT !.ids = Tail(@)]
  OBVIOUS
<1>3. worker' = [worker EXCEPT ![w] = v] /\ v.pc = "set" /\ v.ids = Tail(worker[w].ids) /\ v.packet = worker[w].packet
  BY <1>1, <1>2, WorkerFacts DEF WorkerStates
<1>4. PICK k \in Packets : k = worker[w].packet /\ OneLess(k)
  BY <1>1, <1>3, OneSentLess
<1>5. refCnt \in [Packets -> Nat] /\ unused \subseteq Packets
  BY DEF PacketInv
<1>6. /\ refCnt' \in [Packets -> Int]
      /\ \A p \in Packets : refCnt'[p] = refCnt[p] - (IF k = p THEN 1 ELSE 0) /\ refCnt'[p] <= refCnt[p]
  BY <1>1, <1>4, <1>5
<1>7. ASSUME NEW p \in Packets
      PROVE  refCnt'[p] = refCnt[p] + (WithWorkers(p)' - WithWorkers(p)) + (OnPort(p)' - OnPort(p))
  <2>1. WithWorkers(p) \in Nat /\ OnPort(p) \in Nat /\ refCnt[p] \in Nat
    BY <1>5, CoreTypes
  <2>2. WithWorkers(p)' = WithWorkers(p) - (IF k = p THEN 1 ELSE 0) /\ OnPort(p)' = OnPort(p)
    BY <1>4 DEF OneLess
  <2>3. QED
    BY <1>6, <2>1, <2>2
<1>8. \A p \in unused' : refCnt'[p] <= refCnt[p]
  BY <1>1, <1>5, <1>6
<1>9. QED
  BY <1>1, <1>6, <1>7, <1>8, PostsAccounts

LEMMA TakeSetPackets ==
  ASSUME CoreInv, CoreInv', PacketInv, NEW w \in Workers, TakeSet(w)
  PROVE  PacketInv'
<1>1. /\ UNCHANGED <<sess, refCnt, unused>> /\ worker[w].pc = "waiting"
      /\ port # <<>> /\ Head(port).key # "sign" /\ port' = Tail(port)
  BY DEF TakeSet, pktVars
<1>2. PICK m : m = Head(port)
  OBVIOUS
<1>3. PICK v : v = [Waiting EXCEPT !.pc = "set", !.key = m.key, !.ids = m.ids, !.packet = m.packet]
  OBVIOUS
<1>4. worker' = [worker EXCEPT ![w] = v]
  BY <1>2, <1>3 DEF TakeSet
<1>5. v.pc = "set" /\ v.ids = m.ids /\ v.packet = m.packet
  BY <1>3 DEF Waiting
<1>6. SessionTypes /\ SessionTypes'
  BY DEF CoreInv, SessionInv
<1>7. worker'[w] = v /\ \A u \in Workers : u # w => worker'[u] = worker[u]
  BY <1>4, <1>6 DEF SessionTypes
<1>8. refCnt \in [Packets -> Nat] /\ unused \subseteq Packets
  BY DEF PacketInv
<1>9. ASSUME NEW p \in Packets
      PROVE  refCnt'[p] = refCnt[p] + (WithWorkers(p)' - WithWorkers(p)) + (OnPort(p)' - OnPort(p))
  <2>1. /\ WithWorkers(p)' = WithWorkers(p) - Left(worker[w], p) + Left(v, p)
        /\ WithWorkers(p) \in Nat
    BY <1>6, <1>7, WorkerCount
  <2>2. /\ OnPort(p)' = OnPort(p) - PostLeft(m, p)
        /\ OnPort(p) \in Nat /\ PostLeft(m, p) \in Nat
    BY <1>1, <1>2, <1>6, PortCountTail
  <2>3. Left(worker[w], p) = 0 /\ Left(v, p) = PostLeft(m, p)
    BY <1>1, <1>2, <1>5 DEF Left, PostLeft
  <2>4. refCnt'[p] = refCnt[p] /\ refCnt[p] \in Nat
    BY <1>1, <1>8
  <2>5. QED
    BY <2>1, <2>2, <2>3, <2>4
<1>10. refCnt' \in [Packets -> Int] /\ \A p \in unused' : refCnt'[p] <= refCnt[p]
  BY <1>1, <1>8
<1>11. QED
  BY <1>1, <1>9, <1>10, PostsAccounts

LEMMA SendToSetPackets ==
  ASSUME CoreInv, CoreInv', PacketInv, NEW ids \in Broadcasts, NEW key \in {"send", "last"}, NEW x \in Packets,
         SendToSet(ids, key, x)
  PROVE  PacketInv'
<1>1. /\ UNCHANGED <<sess, worker>> /\ unused' = unused \ {x} /\ x \in unused
      /\ refCnt' = [refCnt EXCEPT ![x] = Len(ids)]
      /\ port' = port \o [k \in DOMAIN Blocks(ids) |-> [key |-> key, ids |-> Blocks(ids)[k], packet |-> x]]
  BY DEF SendToSet
<1>2. ids \in Seq(IDs)
  BY LanAssumption DEF IDs
<1>3. SessionTypes
  BY DEF CoreInv, SessionInv
<1>4. refCnt \in [Packets -> Nat] /\ unused \subseteq Packets /\ refCnt[x] = 0
  BY <1>1 DEF PacketInv
<1>5. PICK n \in Nat : n = Len(ids)
  BY <1>2
<1>6. /\ refCnt' \in [Packets -> Int] /\ refCnt'[x] = n
      /\ \A p \in Packets : p # x => refCnt'[p] = refCnt[p]
  BY <1>1, <1>4, <1>5
<1>7. ASSUME NEW p \in Packets
      PROVE  refCnt'[p] = refCnt[p] + (WithWorkers(p)' - WithWorkers(p)) + (OnPort(p)' - OnPort(p))
  <2>1. OnPort(p)' = OnPort(p) + (IF x = p THEN n ELSE 0) /\ OnPort(p) \in Nat
    <3>1. /\ OnPort(p)' = OnPort(p) + (IF x = p THEN Len(ids) ELSE 0)
          /\ OnPort(p) \in Nat /\ Len(ids) \in Nat
      BY <1>1, <1>2, <1>3, PortCountSet, Zenon
    <3>2. QED
      BY <1>5, <3>1
  <2>2. WithWorkers(p)' = WithWorkers(p) /\ WithWorkers(p) \in Nat
    BY <1>1, CoreTypes DEF WithWorkers, LeftOf
  <2>3. refCnt'[p] = refCnt[p] + (IF x = p THEN n ELSE 0) /\ refCnt[p] \in Nat
    BY <1>4, <1>6
  <2>4. QED
    BY <2>1, <2>2, <2>3
<1>8. \A p \in unused' : refCnt'[p] <= refCnt[p]
  BY <1>1, <1>4, <1>6
<1>9. unused' \subseteq unused
  BY <1>1
<1>10. QED
  BY <1>1, <1>6, <1>7, <1>8, <1>9, PostsAccounts

LEMMA OnSendCompletePackets ==
  ASSUME CoreInv, CoreInv', PacketInv, NEW w \in Workers, OnSendComplete(w)
  PROVE  PacketInv'
<1>1. PICK s \in Slots : s = worker[w].slot
  BY WorkerFacts DEF OnSendComplete
<1>2. PICK q : q = [sess[s] EXCEPT !.sending = FALSE]
  OBVIOUS
<1>3. /\ worker[w].pc = "resume" /\ UNCHANGED <<port, unused>> /\ worker' = [worker EXCEPT ![w] = Waiting]
      /\ \E n \in SendPosted(q) : LeaveAfterSend(s, q, n)
  BY <1>1, <1>2 DEF OnSendComplete, rest
<1>4. LeftKept
  BY <1>3, WaitingState, WorkerIdle
<1>5. Queued(q, sess[s].sendQ, sess[s].sentQ)
  <2>1. Queued(sess[s], sess[s].sendQ, sess[s].sentQ)
    BY CoreTypes, SessionQueued
  <2>2. QED
    BY <1>2, <2>1 DEF Queued, Recs
<1>6. Owed(s, q, refCnt)
  BY <1>3, <1>4, <1>5, OwedNothing
<1>7. PICK n \in SendPosted(q) : LeaveAfterSend(s, q, n)
  BY <1>3
<1>8. q \in Recs /\ Sent(n, q)
  BY <1>5, <1>7, SendPostedSent DEF Queued
<1>9. Leave(s, n, AfterSend(refCnt, q))
  BY <1>7 DEF LeaveAfterSend, AfterSend
<1>10. QED
  BY <1>6, <1>8, <1>9, LeaveSent

LEMMA TakeSignPackets ==
  ASSUME CoreInv, CoreInv', PacketInv, NEW w \in Workers, TakeSign(w)
  PROVE  PacketInv'
<1>1. /\ UNCHANGED <<worker, unused>> /\ port # <<>> /\ Head(port).key = "sign" /\ port' = Tail(port)
      /\ \E n \in SendPosted(sess[slotOf[Head(port).ids[1]]]) :
           LeaveAfterSend(slotOf[Head(port).ids[1]], sess[slotOf[Head(port).ids[1]]], n)
  BY DEF TakeSign, rest
<1>2. SessionTypes /\ SignSupport
  BY DEF CoreInv, SessionInv
<1>3. PICK s \in Slots : s = slotOf[Head(port).ids[1]]
  <2>1. Head(port) = port[1] /\ 1 \in DOMAIN port /\ Head(port) \in Posts
    BY <1>1, <1>2, PortTail
  <2>2. Len(port[1].ids) = 1 /\ slotOf[port[1].ids[1]] # 0
    BY <1>1, <1>2, <2>1 DEF SignSupport
  <2>3. port[1].ids[1] \in IDs
    BY <2>1, <2>2 DEF Posts
  <2>4. QED
    BY <1>2, <2>1, <2>2, <2>3 DEF SessionTypes
<1>4. LeftKept
  <2>1. \A p : WithWorkers(p)' = WithWorkers(p)
    BY <1>1 DEF WithWorkers, LeftOf
  <2>2. ASSUME NEW p
        PROVE  OnPort(p)' = OnPort(p)
    <3>1. OnPort(p)' = OnPort(p) - PostLeft(Head(port), p) /\ OnPort(p) \in Nat
      BY <1>1, <1>2, PortCountTail
    <3>2. PostLeft(Head(port), p) = 0
      BY <1>1 DEF PostLeft
    <3>3. QED
      BY <3>1, <3>2
  <2>3. QED
    BY <2>1, <2>2 DEF LeftKept
<1>5. Queued(sess[s], sess[s].sendQ, sess[s].sentQ)
  BY CoreTypes, SessionQueued
<1>6. Owed(s, sess[s], refCnt)
  BY <1>1, <1>4, <1>5, OwedNothing
<1>7. PICK n \in SendPosted(sess[s]) : LeaveAfterSend(s, sess[s], n)
  BY <1>1, <1>3
<1>8. sess[s] \in Recs /\ Sent(n, sess[s])
  BY <1>5, <1>7, SendPostedSent DEF Queued
<1>9. Leave(s, n, AfterSend(refCnt, sess[s]))
  BY <1>7 DEF LeaveAfterSend, AfterSend
<1>10. QED
  BY <1>6, <1>8, <1>9, LeaveSent

\* a worker that has the same to send as before
LEMMA SameLeft ==
  ASSUME CoreInv, CoreInv', NEW w \in Workers, NEW v, worker' = [worker EXCEPT ![w] = v], UNCHANGED port,
         worker[w].pc \in {"set", "spin"}, v.pc \in {"set", "spin"},
         v.ids = worker[w].ids, v.packet = worker[w].packet
  PROVE  LeftKept
<1>1. SessionTypes /\ SessionTypes'
  BY DEF CoreInv, SessionInv
<1>2. worker'[w] = v /\ \A u \in Workers : u # w => worker'[u] = worker[u]
  BY <1>1 DEF SessionTypes
<1>3. ASSUME NEW p
      PROVE  WithWorkers(p)' = WithWorkers(p) /\ OnPort(p)' = OnPort(p)
  <2>1. /\ WithWorkers(p)' = WithWorkers(p) - Left(worker[w], p) + Left(v, p)
        /\ WithWorkers(p) \in Nat /\ Left(worker[w], p) \in Nat
    BY <1>1, <1>2, WorkerCount
  <2>2. Left(v, p) = Left(worker[w], p)
    BY DEF Left
  <2>3. OnPort(p)' = OnPort(p)
    BY DEF OnPort, LeftIn
  <2>4. QED
    BY <2>1, <2>2, <2>3
<1>4. QED
  BY <1>3 DEF LeftKept

LEMMA SendAndDisconnectPostPackets ==
  ASSUME CoreInv, CoreInv', PacketInv, NEW w \in Workers, SendAndDisconnectPost(w)
  PROVE  PacketInv'
<1>1. PICK s \in Slots : s = worker[w].slot
  BY WorkerFacts DEF SendAndDisconnectPost
<1>2. /\ worker[w].pc = "spin" /\ ~sess[s].sending /\ UNCHANGED <<port, unused>>
      /\ \E n \in LastPosted(sess[s]) : LeaveAfterSend(s, sess[s], n)
      /\ worker' = [worker EXCEPT ![w].pc = "set", ![w].slot = 0]
  BY <1>1 DEF SendAndDisconnectPost, rest
<1>3. worker[w] \in WorkerStates /\ worker \in [Workers -> WorkerStates]
  BY WorkerFacts, CoreTypes DEF SessionTypes
<1>4. PICK u : u = [worker[w] EXCEPT !.pc = "set"]
  OBVIOUS
<1>5. PICK v : v = [u EXCEPT !.slot = 0]
  OBVIOUS
<1>6. u \in WorkerStates /\ u.pc = "set" /\ u.ids = worker[w].ids /\ u.packet = worker[w].packet
  BY <1>3, <1>4 DEF WorkerStates
<1>7. v.pc = "set" /\ v.ids = worker[w].ids /\ v.packet = worker[w].packet
  BY <1>5, <1>6 DEF WorkerStates
<1>8. worker' = [worker EXCEPT ![w] = v]
  BY <1>2, <1>3, <1>4, <1>5 DEF WorkerStates
<1>9. LeftKept
  BY <1>2, <1>7, <1>8, SameLeft
<1>10. Queued(sess[s], sess[s].sendQ, sess[s].sentQ)
  BY CoreTypes, SessionQueued
<1>11. Owed(s, sess[s], refCnt)
  BY <1>2, <1>9, <1>10, OwedNothing
<1>12. PICK n \in LastPosted(sess[s]) : LeaveAfterSend(s, sess[s], n)
  BY <1>2
<1>13. sess[s] \in Recs /\ Sent(n, sess[s])
  BY <1>2, <1>10, <1>12, LastPostedSent DEF Queued
<1>14. Leave(s, n, AfterSend(refCnt, sess[s]))
  BY <1>12 DEF LeaveAfterSend, AfterSend
<1>15. QED
  BY <1>11, <1>13, <1>14, LeaveSent

LEMMA SetOneIDPackets ==
  ASSUME CoreInv, CoreInv', PacketInv, NEW w \in Workers, SetOneID(w)
  PROVE  PacketInv'
<1>1. worker[w].pc = "set" /\ worker[w].ids # <<>> /\ Found(Head(worker[w].ids)) /\ UNCHANGED <<port, unused>>
  BY ZenonT(40) DEF SetOneID, rest
<1>2. worker[w] \in WorkerStates /\ worker \in [Workers -> WorkerStates]
  BY WorkerFacts, CoreTypes DEF SessionTypes
<1>3. PICK k \in Packets : k = worker[w].packet
  BY <1>1, WorkerFacts DEF WorkerSupport
<1>4. PICK s \in Slots : s = slotOf[Head(worker[w].ids)]
  <2>1. Head(worker[w].ids) \in IDs
    BY <1>1, <1>2, HeadTailProperties DEF WorkerStates
  <2>2. QED
    BY <1>1, <2>1, FoundFacts
<1>5. PICK r : r = [sess[s] EXCEPT !.refs = @ + 2]
  OBVIOUS
<1>6. PICK q : q = [r EXCEPT !.sendQ = Append(@, k)]
  OBVIOUS
<1>7. PICK v : v = [worker[w] EXCEPT !.ids = Tail(@)]
  OBVIOUS
<1>8. PICK u : u = [v EXCEPT !.pc = "spin"]
  OBVIOUS
<1>9. PICK x : x = [u EXCEPT !.slot = s]
  OBVIOUS
<1>10. v.pc = "set" /\ v.ids = Tail(worker[w].ids) /\ v.packet = k /\ v \in WorkerStates
  <2>1. Tail(worker[w].ids) \in Seq(IDs)
    BY <1>1, <1>2, HeadTailProperties DEF WorkerStates
  <2>2. QED
    BY <1>1, <1>2, <1>3, <1>7, <2>1 DEF WorkerStates
<1>11. u \in WorkerStates /\ u.pc = "spin" /\ u.ids = Tail(worker[w].ids) /\ u.packet = k
  BY <1>8, <1>10 DEF WorkerStates
<1>12. x.pc = "spin" /\ x.ids = Tail(worker[w].ids) /\ x.packet = k
  BY <1>9, <1>11, SMTT(30) DEF WorkerStates
<1>13. \/ /\ Leave(s, Refused(r), [refCnt EXCEPT ![k] = @ - 1])
          /\ worker' = [worker EXCEPT ![w].ids = Tail(@)]
       \/ /\ \E n \in SendPosted(q) : LeaveAfterSend(s, q, n)
          /\ worker' = [worker EXCEPT ![w].ids = Tail(@)]
       \/ /\ Leave(s, Disconnected(q), refCnt)
          /\ worker' = [worker EXCEPT ![w].ids = Tail(@), ![w].pc = "spin", ![w].slot = s]
  BY <1>3, <1>4, <1>5, <1>6, ZenonT(40) DEF SetOneID
<1>14. worker' = [worker EXCEPT ![w] = v] \/ worker' = [worker EXCEPT ![w] = x]
  <2>1. worker' = [worker EXCEPT ![w].ids = Tail(@)] => worker' = [worker EXCEPT ![w] = v]
    BY <1>2, <1>7
  <2>2. worker' = [worker EXCEPT ![w].ids = Tail(@), ![w].pc = "spin", ![w].slot = s]
           => worker' = [worker EXCEPT ![w] = x]
    BY <1>2, <1>7, <1>8, <1>9 DEF WorkerStates
  <2>3. QED
    BY <1>13, <2>1, <2>2
<1>15. OneLess(k)
  BY <1>1, <1>3, <1>10, <1>12, <1>14, OneSentLess
<1>16. Queued(r, sess[s].sendQ, sess[s].sentQ)
  <2>1. Queued(sess[s], sess[s].sendQ, sess[s].sentQ)
    BY CoreTypes, SessionQueued
  <2>2. PICK n \in Int : n = 2
    OBVIOUS
  <2>3. Queued([sess[s] EXCEPT !.refs = @ + n], sess[s].sendQ, sess[s].sentQ)
    BY <2>1, RefsQueued
  <2>4. QED
    BY <1>5, <2>2, <2>3
<1>17. OneQueued(q, s, k)
  BY <1>6, <1>16, Appended
<1>18. CASE Leave(s, Refused(r), [refCnt EXCEPT ![k] = @ - 1])
  <2>1. PICK y : y = Refused(r)
    OBVIOUS
  <2>2. Queued(y, sess[s].sendQ, sess[s].sentQ)
    BY <1>16, <2>1, EndsQueued
  <2>3. Owed(s, y, [refCnt EXCEPT ![k] = @ - 1]) /\ y \in Recs
    BY <1>1, <1>15, <2>2, OwedMoved DEF Queued
  <2>4. QED
    BY <1>18, <2>1, <2>3, LeaveAccounts
<1>19. CASE \E n \in SendPosted(q) : LeaveAfterSend(s, q, n)
  <2>1. PICK n \in SendPosted(q) : LeaveAfterSend(s, q, n)
    BY <1>19
  <2>2. Owed(s, q, refCnt)
    BY <1>1, <1>15, <1>17, OwedMoved
  <2>3. q \in Recs /\ Sent(n, q)
    BY <1>17, <2>1, SendPostedSent DEF OneQueued
  <2>4. Leave(s, n, AfterSend(refCnt, q))
    BY <2>1 DEF LeaveAfterSend, AfterSend
  <2>5. QED
    BY <2>2, <2>3, <2>4, LeaveSent
<1>20. CASE Leave(s, Disconnected(q), refCnt)
  <2>1. PICK y : y = Disconnected(q)
    OBVIOUS
  <2>2. OneQueued(y, s, k)
    <3>1. PICK n \in Int : n = 2
      OBVIOUS
    <3>2. QED
      BY <1>17, <2>1, <3>1, OneQueuedKept
  <2>3. Owed(s, y, refCnt) /\ y \in Recs
    BY <1>1, <1>15, <2>2, OwedMoved DEF OneQueued
  <2>4. QED
    BY <1>20, <2>1, <2>3, LeaveAccounts
<1>21. QED
  BY <1>13, <1>18, <1>19, <1>20, SMTT(30)

\* what SendPacket and AsyncSendPacket make of the session they find
LEMMA TwoMore ==
  ASSUME CoreInv, NEW s \in Slots, NEW k \in Packets, NEW r, r = [sess[s] EXCEPT !.refs = @ + 2],
         NEW q, q = [r EXCEPT !.sendQ = Append(@, k)]
  PROVE  /\ Queued(r, sess[s].sendQ, sess[s].sentQ) /\ Queued(Refused(r), sess[s].sendQ, sess[s].sentQ)
         /\ OneQueued(q, s, k)
<1>1. Queued(r, sess[s].sendQ, sess[s].sentQ)
  <2>1. Queued(sess[s], sess[s].sendQ, sess[s].sentQ)
    BY CoreTypes, SessionQueued
  <2>2. PICK n \in Int : n = 2
    OBVIOUS
  <2>3. Queued([sess[s] EXCEPT !.refs = @ + n], sess[s].sendQ, sess[s].sentQ)
    BY <2>1, RefsQueued
  <2>4. QED
    BY <2>2, <2>3
<1>2. Queued(Refused(r), sess[s].sendQ, sess[s].sentQ)
  BY <1>1, EndsQueued
<1>3. OneQueued(q, s, k)
  BY <1>1, Appended
<1>4. QED
  BY <1>1, <1>2, <1>3

LEMMA SendPacketPackets ==
  ASSUME CoreInv, CoreInv', PacketInv, NEW i \in IDs, NEW k \in Packets, SendPacket(i, k)
  PROVE  PacketInv'
<1>1. UNCHANGED <<port, worker>> /\ unused' = unused \ {k} /\ Found(i)
  BY DEF SendPacket
<1>2. PICK s \in Slots : s = slotOf[i]
  BY <1>1, FoundFacts
<1>3. PICK r : r = [sess[s] EXCEPT !.refs = @ + 2]
  OBVIOUS
<1>4. PICK q : q = [r EXCEPT !.sendQ = Append(@, k)]
  OBVIOUS
<1>5. PICK c : c = [refCnt EXCEPT ![k] = @ + 1]
  OBVIOUS
<1>6. \/ Leave(s, Refused(r), refCnt)
      \/ \E n \in SendPosted(q) : Leave(s, n, AfterSend(c, q))
  BY <1>2, <1>3, <1>4, <1>5 DEF SendPacket, AfterSend
<1>7. LeftKept
  BY <1>1, NobodyTakes
<1>8. Queued(Refused(r), sess[s].sendQ, sess[s].sentQ) /\ OneQueued(q, s, k)
  BY <1>3, <1>4, TwoMore
<1>9. CASE Leave(s, Refused(r), refCnt)
  <2>1. PICK y : y = Refused(r)
    OBVIOUS
  <2>2. Owed(s, y, refCnt) /\ y \in Recs
    BY <1>1, <1>7, <1>8, <2>1, OwedNothing DEF Queued
  <2>3. QED
    BY <1>9, <2>1, <2>2, LeaveAccounts
<1>10. CASE \E n \in SendPosted(q) : Leave(s, n, AfterSend(c, q))
  <2>1. PICK n \in SendPosted(q) : Leave(s, n, AfterSend(c, q))
    BY <1>10
  <2>2. Owed(s, q, c)
    BY <1>1, <1>5, <1>7, <1>8, OwedNew
  <2>3. q \in Recs /\ Sent(n, q)
    BY <1>8, <2>1, SendPostedSent DEF OneQueued
  <2>4. QED
    BY <2>1, <2>2, <2>3, LeaveSent
<1>11. QED
  BY <1>6, <1>9, <1>10

LEMMA AsyncSendPacketPackets ==
  ASSUME CoreInv, CoreInv', PacketInv, NEW i \in IDs, NEW k \in Packets, AsyncSendPacket(i, k)
  PROVE  PacketInv'
<1>1. UNCHANGED worker /\ unused' = unused \ {k} /\ Found(i)
  BY DEF AsyncSendPacket
<1>2. PICK s \in Slots : s = slotOf[i]
  BY <1>1, FoundFacts
<1>3. PICK r : r = [sess[s] EXCEPT !.refs = @ + 2]
  OBVIOUS
<1>4. PICK q : q = [r EXCEPT !.sendQ = Append(@, k)]
  OBVIOUS
<1>5. PICK c : c = [refCnt EXCEPT ![k] = @ + 1]
  OBVIOUS
<1>6. PICK m : m = [key |-> "sign", ids |-> <<i>>, packet |-> k]
  OBVIOUS
<1>7. \/ Leave(s, Refused(r), refCnt) /\ UNCHANGED port
      \/ Leave(s, Drop(q, 2), c) /\ UNCHANGED port
      \/ Leave(s, q, c) /\ port' = Append(port, m)
  BY <1>2, <1>3, <1>4, <1>5, <1>6 DEF AsyncSendPacket
<1>8. LeftKept
  <2>1. CASE UNCHANGED port
    BY <1>1, <2>1, NobodyTakes
  <2>2. CASE port' = Append(port, m)
    <3>1. m \in Posts /\ m.key = "sign"
      <4>1. <<i>> \in Seq(IDs)
        OBVIOUS
      <4>2. QED
        BY <1>6, <4>1 DEF Posts
    <3>2. \A p : OnPort(p)' = OnPort(p)
      BY <2>2, <3>1, PortCountSign, CoreTypes
    <3>3. \A p : WithWorkers(p)' = WithWorkers(p)
      BY <1>1 DEF WithWorkers, LeftOf
    <3>4. QED
      BY <3>2, <3>3 DEF LeftKept
  <2>3. QED
    BY <1>7, <2>1, <2>2
<1>9. Queued(Refused(r), sess[s].sendQ, sess[s].sentQ) /\ OneQueued(q, s, k)
  BY <1>3, <1>4, TwoMore
<1>10. ASSUME NEW y, OneQueued(y, s, k), Leave(s, y, c)
       PROVE  PacketInv'
  <2>1. Owed(s, y, c) /\ y \in Recs
    BY <1>1, <1>5, <1>8, <1>10, OwedNew DEF OneQueued
  <2>2. QED
    BY <1>10, <2>1, LeaveAccounts
<1>11. CASE Leave(s, Refused(r), refCnt)
  <2>1. PICK y : y = Refused(r)
    OBVIOUS
  <2>2. Owed(s, y, refCnt) /\ y \in Recs
    BY <1>1, <1>8, <1>9, <2>1, OwedNothing DEF Queued
  <2>3. QED
    BY <1>11, <2>1, <2>2, LeaveAccounts
<1>12. CASE Leave(s, Drop(q, 2), c)
  <2>1. PICK n \in Int : n = 2
    OBVIOUS
  <2>2. PICK y : y = Drop(q, n)
    OBVIOUS
  <2>3. OneQueued(y, s, k)
    BY <1>9, <2>1, <2>2, OneQueuedKept
  <2>4. QED
    BY <1>10, <1>12, <2>1, <2>2, <2>3
<1>13. CASE Leave(s, q, c)
  BY <1>9, <1>10, <1>13
<1>14. QED
  BY <1>7, <1>11, <1>12, <1>13

LEMMA InitPackets ==
  ASSUME LanInit
  PROVE  PacketInv
<1>1. /\ refCnt = [p \in Packets |-> 0] /\ unused = Packets /\ port = <<>>
      /\ sess = [s \in Slots |-> Dead] /\ worker = [w \in Workers |-> [Waiting EXCEPT !.pc = "none"]]
  BY DEF LanInit
<1>2. ASSUME NEW p
      PROVE  InSessions(p) = 0 /\ WithWorkers(p) = 0 /\ OnPort(p) = 0
  <2>1. InSessions(p) = 0
    <3>1. PICK f : f = [s \in Slots |-> Places(sess[s].sendQ \o sess[s].sentQ, p)]
      OBVIOUS
    <3>2. \A s \in DOMAIN f : f[s] = {}
      <4>1. ASSUME NEW s \in Slots
            PROVE  Places(sess[s].sendQ \o sess[s].sentQ, p) = {}
        <5>1. sess[s].sendQ = <<>> /\ sess[s].sentQ = <<>>
          BY <1>1 DEF Dead
        <5>2. <<>> \o <<>> = <<>> /\ DOMAIN <<>> = {}
          OBVIOUS
        <5>3. QED
          BY <5>1, <5>2 DEF Places
      <4>2. QED
        BY <3>1, <4>1
    <3>3. QED
      BY <3>1, <3>2, TotalNothing DEF InSessions
  <2>2. WithWorkers(p) = 0
    <3>1. PICK f : f = [w \in Workers |-> LeftOf(w, p)]
      OBVIOUS
    <3>2. \A w \in DOMAIN f : f[w] = {}
      BY <1>1, <3>1 DEF LeftOf, Waiting
    <3>3. QED
      BY <3>1, <3>2, TotalNothing DEF WithWorkers
  <2>3. OnPort(p) = 0
    <3>1. PICK f : f = [k \in DOMAIN port |-> LeftIn(k, p)]
      OBVIOUS
    <3>2. \A k \in DOMAIN f : f[k] = {}
      <4>1. DOMAIN <<>> = {}
        OBVIOUS
      <4>2. QED
        BY <1>1, <3>1, <4>1
    <3>3. QED
      BY <3>1, <3>2, TotalNothing DEF OnPort
  <2>4. QED
    BY <2>1, <2>2, <2>3
<1>3. LanPacketsAccounted
  <2>1. \A p \in Packets : refCnt[p] = InSessions(p) + WithWorkers(p) + OnPort(p)
    BY <1>1, <1>2
  <2>2. QED
    BY <2>1 DEF LanPacketsAccounted, InSessions, WithWorkers, OnPort
<1>4. QED
  BY <1>1, <1>3 DEF PacketInv

LEMMA WorkerStepPackets ==
  ASSUME CoreInv, CoreInv', PacketInv, NEW w \in Workers, WorkerStep(w)
  PROVE  PacketInv'
<1>1. CASE \E s \in Slots : TakeRecv(w, s) \/ TakeSend(w, s)
  BY <1>1, TakeRecvPackets, TakeSendPackets
<1>2. CASE OnSendComplete(w) \/ TakeSign(w) \/ TakeSet(w)
  BY <1>2, OnSendCompletePackets, TakeSignPackets, TakeSetPackets
<1>3. CASE SetWithoutID(w) \/ SetOneID(w) \/ SendAndDisconnectPost(w)
  BY <1>3, SetWithoutIDPackets, SetOneIDPackets, SendAndDisconnectPostPackets
<1>4. CASE EndSet(w) \/ WorkerEnds(w) \/ \E i \in IDs : TakeLeave(w, i)
  BY <1>4, WorkerRests
<1>5. QED
  BY <1>1, <1>2, <1>3, <1>4 DEF WorkerStep

LEMMA ApplicationPackets ==
  ASSUME CoreInv, CoreInv', PacketInv, Application
  PROVE  PacketInv'
<1>1. CASE \E i \in IDs : Disconnect(i)
  BY <1>1, DisconnectPackets
<1>2. CASE \E i \in IDs, p \in Packets : SendPacket(i, p) \/ AsyncSendPacket(i, p)
  BY <1>2, SendPacketPackets, AsyncSendPacketPackets
<1>3. CASE \E ids \in Broadcasts, key \in {"send", "last"}, p \in Packets : SendToSet(ids, key, p)
  BY <1>3, SendToSetPackets
<1>4. QED
  BY <1>1, <1>2, <1>3 DEF Application

LEMMA LanStepPackets ==
  ASSUME CoreInv, CoreInv', PacketInv, LanNext
  PROVE  PacketInv'
<1>1. CASE Control
  BY <1>1, ControlPackets
<1>2. CASE \E s \in Slots : RecvEnds(s) \/ SendEnds(s)
  BY <1>2, KernelPackets
<1>3. CASE \E s \in Slots : \E i \in IDs : Accept(s, i)
  BY <1>3, AcceptPackets
<1>4. CASE \E w \in Workers : WorkerStep(w)
  BY <1>4, WorkerStepPackets
<1>5. CASE Application
  BY <1>5, ApplicationPackets
<1>6. CASE use = "pipe" /\ \E p \in Pipes : PipeStep(p)
  BY <1>6, PipeStepPackets
<1>7. QED
  BY <1>1, <1>2, <1>3, <1>4, <1>5, <1>6 DEF LanNext

\* The inductive invariant, where sends fit the mode (SendsFitMode): CoreInv, and
\* every packet has just the references of
\* the queues, posts and workers that are to send or free it (LanServer.cpp
\* 338-510, 953-1115).
THEOREM Invariant == SendsFitMode => (LanSpec => []LanInv)
<1> SUFFICES ASSUME SendsFitMode
    PROVE  LanSpec => []LanInv
  OBVIOUS
<1>1. LanInit => CoreInv /\ PacketInv
  BY InitCore, InitPackets
<1>2. CoreInv /\ PacketInv /\ [LanNext]_lanVars => CoreInv' /\ PacketInv'
  <2> SUFFICES ASSUME CoreInv, PacketInv, [LanNext]_lanVars
      PROVE  CoreInv' /\ PacketInv'
    OBVIOUS
  <2>1. CASE LanNext
    BY <2>1, LanStep, LanStepPackets
  <2>2. CASE UNCHANGED lanVars
    <3>1. UNCHANGED <<sess, worker, port, refCnt, unused>>
      BY <2>2 DEF lanVars, pktVars
    <3>2. QED
      BY <2>2, <3>1, NothingChanges, NothingMoves
  <2>3. QED
    BY <2>1, <2>2
<1>3. CoreInv /\ PacketInv => LanInv
  BY DEF CoreInv, LanInv
<1>4. QED
  BY <1>1, <1>2, <1>3, PTL DEF LanSpec

\* Where sends fit the mode (SendsFitMode; one that pends without it takes a
\* reference too many, one that ends at once with it leaves one for ever),
\* references and packets add up at every step: nothing is released or freed under
\* its user, and nothing is kept (LanServer.cpp 338-510, 953-1115).
THEOREM AccountsAddUp == SendsFitMode => (LanSpec => []LanAccounts)
<1>1. LanInv => LanAccounts
  <2> SUFFICES ASSUME LanInv
      PROVE  LanAccounts
    OBVIOUS
  <2>1. SessionTypes /\ LanRefsExact /\ (\A s \in Slots : SessionSupport(s)) /\ PlaceTypes /\ StopTypes /\ PacketInv
    BY DEF LanInv, SessionInv, PlaceInv, StopInv
  <2>2. \A s \in Slots : Len(sess[s].sendQ) <= MAX_SIZE /\ Len(sess[s].jobQ) <= MaxJobs
    BY <2>1 DEF SessionSupport, GoodRecord
  <2>3. {joinQ, moveInQ, moveOutQ, leaveQ} \subseteq [Pipes -> Seq(IDs)]
    BY <2>1 DEF PlaceTypes
  <2>4. LanTypeOK
    BY <2>1, <2>2, <2>3 DEF LanTypeOK, SessionTypes, PlaceTypes, StopTypes, PacketInv
  <2>5. QED
    BY <2>1, <2>4 DEF LanAccounts, PacketInv
<1>2. QED
  BY <1>1, Invariant, PTL

-----------------------------------------------------------------------------
(* A server that has stopped.                                              *)

LEMMA StoppedSlots ==
  ASSUME LanInv, main = "stopped", NEW s \in Slots
  PROVE  s \in free /\ sess[s].dead /\ sess[s] = Destroyed(sess[s])
<1> DEFINE r == sess[s]
<1>1. /\ SessionInv /\ SessionSupport(s) /\ PlaceSupport(s) /\ SessionTypes /\ StartSupport /\ StopSupport
      /\ (\A w \in Workers : WorkerSupport(w)) /\ PlaceTypes
  BY DEF LanInv, SessionInv, PlaceInv, StopInv
<1>2. /\ port = <<>> /\ r.recv = "none" /\ r.send = "none" /\ ~isRunning
      /\ \A w \in Workers : worker[w].pc = "ended"
      /\ \A p \in Pipes : joinQ[p] = <<>> /\ moveInQ[p] = <<>> /\ moveOutQ[p] = <<>>
      /\ use = "pipe" => \A p \in Pipes : phase[p] = "ended"
  BY <1>1 DEF StopSupport
<1>3. \A p \in Pipes : leaveQ[p] = <<>>
  BY <1>1, <1>2 DEF StopSupport, StartSupport, PlaceTypes
<1>4. \A i : ~In(<<>>, i)
  BY DEF In
<1>5. r.cur \in Pipes \cup {NoPipe} /\ r.dest \in Pipes \cup {NoPipe} /\ r.moving \in BOOLEAN
  BY <1>1 DEF SessionTypes, Sessions
<1>6. ~r.moving
  BY <1>1, <1>2, <1>4, <1>5 DEF PlaceSupport
<1>7. Signs(s) = {} /\ InHand(s) = {}
  <2>1. DOMAIN <<>> = {}
    OBVIOUS
  <2>2. Signs(s) = {}
    BY <1>2, <2>1 DEF Signs
  <2>3. s # 0
    BY LanAssumption
  <2>4. QED
    BY <1>1, <1>2, <2>2, <2>3 DEF InHand, WorkerSupport
<1>8. r.refs = 0
  <2>1. Cardinality({}) = 0
    BY FS_EmptySet
  <2>2. SendHolds(r) = 0
    BY <1>2 DEF SendHolds
  <2>3. r.refs = (IF r.recv = "none" THEN 0 ELSE 1) + SendHolds(r)
             + 2 * Cardinality(Signs(s)) + 2 * Cardinality(InHand(s)) + (IF r.moving THEN 1 ELSE 0)
    BY <1>1 DEF SessionInv, LanRefsExact
  <2>4. QED
    BY <1>2, <1>6, <1>7, <2>1, <2>2, <2>3
<1>9. r.dead
  BY <1>1, <1>8 DEF SessionSupport
<1>10. r.cur = NoPipe
  BY <1>1, <1>3, <1>4, <1>5, <1>9 DEF PlaceSupport
<1>11. s \in free
  BY <1>1, <1>9, <1>10 DEF StartSupport, Begun
<1>12. QED
  BY <1>1, <1>9, <1>11 DEF SessionSupport

LEMMA StoppedPackets ==
  ASSUME LanInv, main = "stopped", NEW p \in Packets
  PROVE  refCnt[p] = 0
<1>1. /\ refCnt[p] = InSessions(p) + WithWorkers(p) + OnPort(p)
      /\ port = <<>> /\ \A w \in Workers : worker[w].pc = "ended"
  BY DEF LanInv, PacketInv, LanPacketsAccounted, InSessions, WithWorkers, OnPort, StopInv, StopSupport
<1>2. InSessions(p) = 0
  <2>1. PICK f : f = [s \in Slots |-> Places(sess[s].sendQ \o sess[s].sentQ, p)]
    OBVIOUS
  <2>2. ASSUME NEW s \in Slots
        PROVE  Places(sess[s].sendQ \o sess[s].sentQ, p) = {}
    <3>1. sess[s] = Destroyed(sess[s])
      BY StoppedSlots
    <3>2. Destroyed(sess[s]).sendQ = <<>> /\ Destroyed(sess[s]).sentQ = <<>>
      BY DEF Destroyed, Dead
    <3>3. sess[s].sendQ = <<>> /\ sess[s].sentQ = <<>>
      BY <3>1, <3>2
    <3>4. <<>> \o <<>> = <<>> /\ DOMAIN <<>> = {}
      OBVIOUS
    <3>5. QED
      BY <3>3, <3>4 DEF Places
  <2>3. \A s \in DOMAIN f : f[s] = {}
    BY <2>1, <2>2
  <2>4. QED
    BY <2>1, <2>3, TotalNothing DEF InSessions
<1>3. WithWorkers(p) = 0
  <2>1. PICK f : f = [w \in Workers |-> LeftOf(w, p)]
    OBVIOUS
  <2>2. \A w \in DOMAIN f : f[w] = {}
    BY <1>1, <2>1 DEF LeftOf
  <2>3. QED
    BY <2>1, <2>2, TotalNothing DEF WithWorkers
<1>4. OnPort(p) = 0
  <2>1. PICK f : f = [k \in DOMAIN port |-> LeftIn(k, p)]
    OBVIOUS
  <2>2. DOMAIN <<>> = {}
    OBVIOUS
  <2>3. \A k \in DOMAIN f : f[k] = {}
    BY <1>1, <2>1, <2>2
  <2>4. QED
    BY <2>1, <2>3, TotalNothing DEF OnPort
<1>5. QED
  BY <1>1, <1>2, <1>3, <1>4

LEMMA NothingLeft ==
  ASSUME LanInv
  PROVE  StoppedClean
<1> SUFFICES ASSUME main = "stopped"
    PROVE  /\ free = Slots /\ \A i \in IDs : slotOf[i] # 0 => calls[i] = 1
           /\ \A p \in Packets : refCnt[p] = 0
           /\ \A p \in Pipes : userMap[p] = {}
  BY DEF StoppedClean
<1>1. SessionTypes /\ LeftOnce /\ leavePosts = {}
  BY DEF LanInv, SessionInv, StopInv, StopSupport
<1>2. free = Slots
  BY <1>1, StoppedSlots DEF SessionTypes
<1>3. ASSUME NEW i \in IDs, slotOf[i] # 0
      PROVE  calls[i] = 1
  <2>1. slotOf[i] \in Slots
    BY <1>1, <1>3 DEF SessionTypes
  <2>2. ~Found(i) /\ i \notin leavePosts
    BY <1>1, <2>1, StoppedSlots DEF Found
  <2>3. calls[i] + 0 + 0 = 1 /\ calls[i] \in 0..1
    BY <1>1, <1>3, <2>2 DEF LeftOnce, SessionTypes
  <2>4. QED
    BY <2>3
<1>4. ASSUME NEW p \in Pipes
      PROVE  userMap[p] = {}
  <2>1. userMap[p] \subseteq IDs
    BY <1>4 DEF LanInv, PlaceInv, PlaceTypes
  <2>2. ASSUME NEW i \in userMap[p]
        PROVE  FALSE
    <3>1. i \in IDs
      BY <2>1, <2>2
    <3>2. UserSupport(i, p)
      BY <1>4, <3>1 DEF LanInv, PlaceInv
    <3>3. slotOf[i] # 0 /\ sess[slotOf[i]].cur = p
      BY <2>2, <3>2 DEF UserSupport, Has
    <3>4. PICK s \in Slots : s = slotOf[i]
      BY <1>1, <3>1, <3>3 DEF SessionTypes
    <3>5. Destroyed(sess[s]).cur = NoPipe
      BY DEF Destroyed, Dead
    <3>6. sess[s].cur = NoPipe
      BY <3>5, StoppedSlots
    <3>7. QED
      BY <1>4, <3>3, <3>4, <3>6, LanAssumption
  <2>3. QED
    BY <2>2
<1>5. QED
  BY <1>2, <1>3, <1>4, StoppedPackets

\* Where sends fit the mode (SendsFitMode), a session that joined leaves once, by way
\* of the pipe that has its user and with it only, and all of them have left when Stop returns (LanServer.cpp 72-104,
\* 505-620, 1328-1348, LanPipe.cpp 127-205).
THEOREM SessionsEndWell == SendsFitMode => (LanSpec => []LanSessionsEnd)
<1>1. LanInv => LanSessionsEnd
  BY SessionsEndOnce, NothingLeft DEF LanSessionsEnd, LanInv, CoreInv
<1>2. QED
  BY <1>1, Invariant, PTL
=============================================================================
