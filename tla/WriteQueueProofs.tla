-------------------------- MODULE WriteQueueProofs --------------------------
(***************************************************************************)
(* What WriteQueue, and so the write path that implements it, promises any *)
(* number of writers over any number of calls.  History variables note     *)
(* what was answered, and which write had its answer when another was      *)
(* called; they constrain nothing.                                         *)
(***************************************************************************)
EXTENDS WriteQueue, TLAPS

VARIABLES
  acked,      \* the writes that were ever answered "ok"
  refused,    \* the writes that were ever answered with an error
  precedes    \* <<x, y>>: x was answered "ok" before y was called

history == <<acked, refused, precedes>>

HInit == Init /\ acked = {} /\ refused = {} /\ precedes = {}

HCall(w) ==
  /\ Call(w)
  /\ precedes' = precedes \cup {<<x, <<w, calls'[w]>>>> : x \in acked}
  /\ UNCHANGED <<acked, refused>>

HReturn(w, a) ==
  /\ Return(w, a)
  /\ acked' = IF a = "ok" THEN acked \cup {<<w, calls[w]>>} ELSE acked
  /\ refused' = IF a = "ok" THEN refused ELSE refused \cup {<<w, calls[w]>>}
  /\ UNCHANGED precedes

HNext ==
  \/ \E w \in Writer : HCall(w) \/ \E a \in Answer : HReturn(w, a)
  \/ AppendGroup /\ UNCHANGED history
  \/ Publish /\ UNCHANGED history

HSpec == HInit /\ [][HNext]_<<vars, history>>

(* What DB::Write told its callers stays true, whatever is called, logged  *)
(* and published later: a write answered "ok" is one that readers see, and *)
(* one answered with an error readers never see, even if its record is in  *)
(* the log.                                                                *)
AnswersStand == acked \subseteq visible /\ refused \cap visible = {}

(* The log is in an order that the callers can have seen: a write that was *)
(* answered "ok" before another one was called comes before it, so that    *)
(* what a restart recovers of the log has the first if it has the second.  *)
RealTimeOrder ==
  \A i \in DOMAIN log : \A x \in Writer \X Nat :
    <<x, log[i]>> \in precedes => \E j \in 1 .. i - 1 : log[j] = x

Write == Writer \X Nat

(* A call that was made.                                                   *)
Made(x) == x \in Write /\ x[2] <= calls[x[1]]

(* A call that has not returned.                                           *)
Pending(x) == \E w \in pending : x = <<w, calls[w]>>

TypeOK ==
  /\ calls \in [Writer -> Nat]
  /\ pending \subseteq Writer
  /\ log \in Seq(Write)

(* The history speaks of calls that were made and have returned.  What is  *)
(* visible is logged and has not failed, and what was refused is not       *)
(* logged, or has failed.                                                  *)
Inv ==
  /\ TypeOK
  /\ \A x \in Logged : Made(x)
  /\ \A x \in acked \cup refused : Made(x) /\ ~Pending(x)
  /\ \A p \in precedes : p[1] \in acked /\ Made(p[2])
  /\ failed \subseteq Logged
  /\ visible \subseteq Logged \ failed
  /\ acked \subseteq visible
  /\ \A x \in refused : x \in Logged => x \in failed
  /\ RealTimeOrder
----------------------------------------------------------------------------
(* Nothing is called, logged or answered at first.                         *)
LEMMA InitInv == HInit => Inv
  BY DEF HInit, Init, Inv, TypeOK, Logged, RealTimeOrder

(* A call that was made stays made, and a new one is in no log yet.        *)
LEMMA CallInv ==
  ASSUME Inv, NEW w \in Writer, HCall(w)
  PROVE  Inv'
<1>0. PICK y : y = <<w, calls[w] + 1>>
  OBVIOUS
<1>1. /\ calls' = [calls EXCEPT ![w] = @ + 1] /\ pending' = pending \cup {w} /\ w \notin pending
      /\ UNCHANGED <<log, failed, visible, acked, refused>>
      /\ calls \in [Writer -> Nat] /\ pending \subseteq Writer
  BY DEF HCall, Call, Inv, TypeOK
<1>2. /\ calls' \in [Writer -> Nat] /\ calls'[w] = calls[w] + 1 /\ calls[w] \in Nat
      /\ \A u \in Writer : u # w => calls'[u] = calls[u]
  BY <1>1
<1>3. precedes' = precedes \cup {<<x, y>> : x \in acked}
  BY <1>0, <1>2 DEF HCall
<1>4. ASSUME NEW x, Made(x) PROVE Made(x)' /\ x # y /\ (~Pending(x) => ~Pending(x)')
  <2>1. x \in Write /\ x[1] \in Writer /\ x[2] \in Nat /\ x[2] <= calls[x[1]] /\ x = <<x[1], x[2]>>
    BY <1>4 DEF Made, Write
  <2>2. x[2] <= calls'[x[1]] /\ x # y
    BY <2>1, <1>0, <1>2
  <2>3. ASSUME NEW u \in pending', x = <<u, calls'[u]>> PROVE Pending(x)
    <3>1. u # w /\ u \in pending
      BY <2>2, <2>3, <1>0, <1>1, <1>2
    <3>2. calls'[u] = calls[u]
      BY <3>1, <1>1, <1>2
    <3> QED BY <3>1, <3>2, <2>3 DEF Pending
  <2> QED BY <2>1, <2>2, <2>3 DEF Made, Pending
<1>5. y \in Write /\ Made(y)'
  <2>1. y \in Write /\ y[1] = w /\ y[2] = calls[w] + 1
    BY <1>0, <1>2 DEF Write
  <2>2. calls[w] + 1 <= calls'[w]
    BY <1>2
  <2> QED BY <2>1, <2>2 DEF Made
<1>6. Logged' = Logged
  BY <1>1 DEF Logged
<1>7. \A p \in precedes' : p[1] \in acked /\ Made(p[2])'
  <2> SUFFICES ASSUME NEW p \in precedes' PROVE p[1] \in acked /\ Made(p[2])'
    OBVIOUS
  <2>1. CASE p \in precedes
    BY <2>1, <1>4 DEF Inv
  <2>2. CASE p \in {<<x, y>> : x \in acked}
    <3>1. PICK x \in acked : p = <<x, y>>
      BY <2>2
    <3> QED BY <3>1, <1>5
  <2> QED BY <2>1, <2>2, <1>3
<1>8. RealTimeOrder'
  <2> SUFFICES ASSUME NEW i \in DOMAIN log, NEW x \in Writer \X Nat, <<x, log[i]>> \in precedes'
               PROVE  \E j \in 1 .. i - 1 : log[j] = x
    BY <1>1 DEF RealTimeOrder
  <2>1. log[i] # y
    BY <1>4 DEF Inv, Logged
  <2>2. <<x, log[i]>> \in precedes
    BY <2>1, <1>3
  <2> QED BY <2>2 DEF Inv, RealTimeOrder
<1>9. \A x \in acked \cup refused : Made(x)' /\ ~Pending(x)'
  BY <1>4 DEF Inv
<1>10. TypeOK'
  BY <1>1, <1>2 DEF Inv, TypeOK
<1>11. \A x \in Logged : Made(x)'
  BY <1>4 DEF Inv
<1> QED BY <1>1, <1>6, <1>7, <1>8, <1>9, <1>10, <1>11 DEF Inv

(* An answer is true when it is given.                                     *)
LEMMA ReturnInv ==
  ASSUME Inv, NEW w \in Writer, NEW a \in Answer, HReturn(w, a)
  PROVE  Inv'
<1>0. PICK y : y = <<w, calls[w]>>
  OBVIOUS
<1>1. /\ w \in pending /\ pending' = pending \ {w}
      /\ UNCHANGED <<calls, log, failed, visible, precedes>>
      /\ a = "ok" => acked' = acked \cup {y} /\ refused' = refused /\ y \in visible
      /\ a # "ok" => acked' = acked /\ refused' = refused \cup {y} /\ (y \in Logged => y \in failed)
  BY <1>0 DEF HReturn, Return
<1>2. y \in Write /\ Made(y) /\ ~Pending(y)'
  BY <1>0, <1>1 DEF Made, Pending, Write, Inv, TypeOK
<1>3. \A x : (Made(x) => Made(x)') /\ (~Pending(x) => ~Pending(x)')
  BY <1>1 DEF Made, Pending
<1>4. Logged' = Logged /\ RealTimeOrder'
  BY <1>1 DEF Logged, RealTimeOrder, Inv
<1>5. \A x \in acked' \cup refused' : Made(x)' /\ ~Pending(x)'
  <2>1. \A x \in acked' \cup refused' : x \in acked \cup refused \/ x = y
    BY <1>1
  <2>2. \A x \in acked \cup refused : Made(x) /\ ~Pending(x)
    BY Zenon DEF Inv
  <2> QED BY <2>1, <2>2, <1>2, <1>3, Zenon
<1>6. acked' \subseteq visible /\ \A x \in refused' : x \in Logged => x \in failed
  BY <1>1 DEF Inv
<1>7. \A p \in precedes : p[1] \in acked' /\ Made(p[2])'
  BY <1>1, <1>3 DEF Inv
<1>8. TypeOK' /\ \A x \in Logged : Made(x)'
  BY <1>1, <1>3 DEF Inv, TypeOK
<1> QED BY <1>1, <1>4, <1>5, <1>6, <1>7, <1>8 DEF Inv

(* A group has pending writes only, which nothing that was answered is,    *)
(* and what was answered before they were called is in the log already.    *)
LEMMA AppendGroupInv ==
  ASSUME Inv, AppendGroup, UNCHANGED history
  PROVE  Inv'
<1>1. /\ log' \in Seq(Write) /\ log \in Seq(Write)
      /\ Len(log) \in Nat /\ Len(log') \in Nat /\ Len(log') > Len(log)
      /\ DOMAIN log = 1 .. Len(log) /\ DOMAIN log' = 1 .. Len(log')
      /\ UNCHANGED <<calls, pending, visible, acked, refused, precedes>>
  BY DEF Inv, TypeOK, AppendGroup, history, Write
<1> DEFINE new == {log'[i] : i \in Len(log) + 1 .. Len(log')}
<1>2. \A i \in 1 .. Len(log) : log'[i] = log[i]
  <2>1. SubSeq(log', 1, Len(log)) = log
    BY DEF AppendGroup
  <2>2. \A i \in 1 .. Len(log) : SubSeq(log', 1, Len(log))[i] = log'[i]
    BY <1>1
  <2> QED BY <2>1, <2>2
<1>3. \A x \in new : Pending(x) /\ x \notin Logged
  BY DEF AppendGroup, Pending
<1>4. Logged' = Logged \cup new
  BY <1>1, <1>2 DEF Logged
<1>5. failed' = failed \/ failed' = failed \cup new
  BY DEF AppendGroup
<1>6. \A x : Made(x)' <=> Made(x)
  BY <1>1 DEF Made
<1>7. \A x : Pending(x)' <=> Pending(x)
  BY <1>1 DEF Pending
<1>8. \A x : Pending(x) => Made(x)
  BY DEF Pending, Made, Inv, TypeOK, Write
<1>9. RealTimeOrder'
  <2> SUFFICES ASSUME NEW i \in 1 .. Len(log'), NEW x \in Writer \X Nat,
                      <<x, log'[i]>> \in precedes
               PROVE  \E j \in 1 .. i - 1 : log'[j] = x
    BY <1>1 DEF RealTimeOrder
  <2>1. CASE i \in 1 .. Len(log)
    <3>1. PICK j \in 1 .. i - 1 : log[j] = x
      BY <2>1, <1>1, <1>2 DEF Inv, RealTimeOrder
    <3> QED BY <3>1, <2>1, <1>1, <1>2
  <2>2. CASE i \in Len(log) + 1 .. Len(log')
    <3>1. x \in Logged
      BY Zenon DEF Inv
    <3>2. PICK j \in 1 .. Len(log) : log[j] = x
      BY <3>1, <1>1 DEF Logged
    <3> QED BY <3>2, <2>2, <1>1, <1>2
  <2> QED BY <2>1, <2>2, <1>1
<1> HIDE DEF new
<1>10. failed' \subseteq Logged' /\ visible \subseteq Logged' \ failed'
  BY <1>3, <1>4, <1>5 DEF Inv
<1>11. \A x \in refused : x \in Logged' => x \in failed'
  BY <1>3, <1>4, <1>5 DEF Inv
<1>12. \A x \in Logged' : Made(x)'
  BY <1>3, <1>4, <1>6, <1>8 DEF Inv
<1>13. /\ \A x \in acked \cup refused : Made(x)' /\ ~Pending(x)'
       /\ \A p \in precedes : p[1] \in acked /\ Made(p[2])'
  BY <1>6, <1>7 DEF Inv
<1>14. TypeOK'
  BY <1>1 DEF Inv, TypeOK
<1> QED BY <1>1, <1>9, <1>10, <1>11, <1>12, <1>13, <1>14 DEF Inv

(* What readers see only grows, and no write that has failed is in it.     *)
LEMMA PublishInv ==
  ASSUME Inv, Publish, UNCHANGED history
  PROVE  Inv'
<1>1. /\ UNCHANGED <<calls, pending, log, failed, acked, refused, precedes>>
      /\ visible \subseteq visible' /\ visible' \subseteq Logged \ failed
  <2>1. PICK n \in DOMAIN log : visible' = {log[i] : i \in 1 .. n} \ failed
    BY DEF Publish
  <2>2. 1 .. n \subseteq DOMAIN log
    BY <2>1 DEF Inv, TypeOK
  <2> QED BY <2>1, <2>2 DEF Publish, history, Logged
<1>2. \A x : (Made(x)' <=> Made(x)) /\ (Pending(x)' <=> Pending(x))
  BY <1>1 DEF Made, Pending
<1>3. Logged' = Logged /\ RealTimeOrder' /\ TypeOK'
  BY <1>1 DEF Logged, RealTimeOrder, TypeOK, Inv
<1> QED BY <1>1, <1>2, <1>3 DEF Inv

(* Inv holds of every queue, whatever the number of writers and of calls.  *)
THEOREM Invariance == HSpec => []Inv
<1>1. Inv /\ [HNext]_<<vars, history>> => Inv'
  <2>1. Inv /\ UNCHANGED <<vars, history>> => Inv'
    BY DEF Inv, TypeOK, Made, Pending, RealTimeOrder, Logged, vars, history
  <2> QED BY <2>1, CallInv, ReturnInv, AppendGroupInv, PublishInv DEF HNext
<1> QED BY <1>1, InitInv, PTL DEF HSpec

(* AnswersStand: what DB::Write returned of any call so far stays true.    *)
THEOREM AnswersAlwaysStand == HSpec => []AnswersStand
<1>1. Inv => AnswersStand
  BY DEF Inv, AnswersStand
<1> QED BY <1>1, Invariance, PTL

(* RealTimeOrder: the log respects the order of the calls of DB::Write.    *)
THEOREM LogInRealTimeOrder == HSpec => []RealTimeOrder
<1>1. Inv => RealTimeOrder BY DEF Inv
<1> QED BY <1>1, Invariance, PTL
=============================================================================
