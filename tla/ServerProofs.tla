----------------------------- MODULE ServerProofs -----------------------------
(***************************************************************************)
(* Theorems about the event hub for any number of publishers, subscribers  *)
(* and events and any buffer capacity, and about the shutdown for any      *)
(* handlers.                                                               *)
(***************************************************************************)
EXTENDS Server, TLAPS

(***************************************************************************)
(* Type correctness.                                                       *)
(***************************************************************************)
LEMMA InitTypeOK == Init => TypeOK
<1> SUFFICES ASSUME Init
             PROVE  TypeOK
  OBVIOUS
<1>1. DOMAIN subs = {}
  BY DEF Init
<1>2. log \in [Subscribers -> Seq(Publishers \X Nat)]
  BY DEF Init
<1>3. since \in [Subscribers -> [Publishers -> Nat]]
  BY DEF Init
<1>4. QED
  BY <1>1, <1>2, <1>3 DEF Init, TypeOK

LEMMA NextTypeOK == TypeOK /\ [Next]_vars => TypeOK'
<1> SUFFICES ASSUME TypeOK, [Next]_vars
             PROVE  TypeOK'
  OBVIOUS
<1> USE DEF TypeOK, subscriberVars, publisherVars
<1>1. ASSUME NEW s \in Subscribers, CallSubscribe(s) \/ CallCancel(s) \/ Lock(s)
      PROVE  TypeOK'
  BY <1>1 DEF CallSubscribe, CallCancel, Lock, Goto
<1>2. ASSUME NEW s \in Subscribers, Register(s)
      PROVE  TypeOK'
  <2>1. DOMAIN subs' = DOMAIN subs \cup {next}
    BY <1>2 DEF Register, RegisterAs
  <2>2. \A i \in DOMAIN subs' : subs'[i] \in Subscribers
    BY <1>2 DEF Register, RegisterAs
  <2>3. QED
    BY <1>2, <2>1, <2>2 DEF Register, RegisterAs, Goto
<1>3. ASSUME NEW s \in Subscribers, Unregister(s)
      PROVE  TypeOK'
  <2>1. CASE id[s] \in DOMAIN subs
    <3>1. /\ DOMAIN subs' = DOMAIN subs \ {id[s]}
          /\ \A i \in DOMAIN subs' : subs'[i] \in Subscribers
      BY <1>3, <2>1 DEF Unregister, DeleteAndClose
    <3>2. QED
      BY <1>3, <2>1, <3>1 DEF Unregister, DeleteAndClose, Goto
  <2>2. CASE id[s] \notin DOMAIN subs
    BY <1>3, <2>2 DEF Unregister, DeleteAndClose, Goto
  <2>3. QED
    BY <2>1, <2>2
<1>4. ASSUME NEW s \in Subscribers, Receive(s)
      PROVE  TypeOK'
  BY <1>4 DEF Receive
<1>5. ASSUME NEW p \in Publishers, CallPublish(p) \/ PublishEnd(p)
      PROVE  TypeOK'
  BY <1>5 DEF CallPublish, PublishEnd
<1>6. ASSUME NEW p \in Publishers, PublishBegin(p)
      PROVE  TypeOK'
  <2>1. {subs[i] : i \in DOMAIN subs} \subseteq Subscribers
    OBVIOUS
  <2>2. QED
    BY <1>6, <2>1 DEF PublishBegin
<1>7. ASSUME NEW p \in Publishers, NEW s \in todo[p], Offer(p, s)
      PROVE  TypeOK'
  <2>1. s \in Subscribers
    OBVIOUS
  <2>2. log' \in [Subscribers -> Seq(Publishers \X Nat)]
    <3>1. CASE log' = log
      BY <3>1
    <3>2. CASE log' = [log EXCEPT ![s] = Append(@, <<p, published[p]>>)]
      BY <1>7, <2>1, <3>2
    <3>3. QED
      BY <1>7, <3>1, <3>2 DEF Offer, OfferLeaving, Send, SendIf
  <2>3. QED
    BY <1>7, <2>1, <2>2 DEF Offer, OfferLeaving, Send, SendIf
<1>8. CASE UNCHANGED vars
  BY <1>8 DEF vars
<1>9. QED
  BY <1>1, <1>2, <1>3, <1>4, <1>5, <1>6, <1>7, <1>8 DEF Next, Critical, Fan

\* Every reachable state of the hub is well typed, for all values of the
\* constants.
THEOREM Typing == Spec => []TypeOK
<1>1. QED
  BY InitTypeOK, NextTypeOK, PTL DEF Spec

--------------------------------------------------------------------------------
(***************************************************************************)
(* The registry. NoPanic is not inductive: a send panics when a publisher  *)
(* still has a channel ahead of it that a cancel has closed, and a close   *)
(* panics when two subscribers share an id. The strengthening says that a  *)
(* publisher outside its loop has nothing ahead of it, that one inside it  *)
(* has only registered channels, and that the ids in use were handed out   *)
(* by the counter.                                                         *)
(***************************************************************************)
FreshIds == \A i \in DOMAIN subs : i < next

LoopOverRegistered ==
  \A p \in Publishers :
    /\ pub[p] # "fan" => todo[p] = {}
    /\ todo[p] \subseteq Registered

RegistryInv == TypeOK /\ RegistryExact /\ NoPanic /\ FreshIds /\ LoopOverRegistered

LEMMA InitRegistryInv == Init => RegistryInv
<1> SUFFICES ASSUME Init
             PROVE  RegistryInv
  OBVIOUS
<1>1. DOMAIN subs = {} /\ Registered = {}
  BY DEF Init, Registered
<1>2. QED
  BY <1>1, InitTypeOK
     DEF Init, RegistryInv, RegistryExact, NoPanic, FreshIds, LoopOverRegistered,
         Registered

LEMMA NextRegistryInv == RegistryInv /\ [Next]_vars => RegistryInv'
<1> SUFFICES ASSUME RegistryInv, [Next]_vars
             PROVE  RegistryInv'
  OBVIOUS
<1>0. TypeOK /\ TypeOK'
  BY NextTypeOK DEF RegistryInv
<1> USE <1>0 DEF RegistryInv, NoPanic, subscriberVars, publisherVars
<1>1. ASSUME NEW s \in Subscribers, CallSubscribe(s) \/ CallCancel(s) \/ Lock(s)
      PROVE  RegistryInv'
  <2>1. Registered' = Registered
    BY <1>1 DEF CallSubscribe, CallCancel, Lock, Goto, Registered, TypeOK
  <2>2. {t \in Subscribers : pc'[t] = "gone"} = {t \in Subscribers : pc[t] = "gone"}
    BY <1>1 DEF CallSubscribe, CallCancel, Lock, Goto, TypeOK
  <2>3. UNCHANGED <<next, subs, id, closed, pub, todo, panic>>
    BY <1>1 DEF CallSubscribe, CallCancel, Lock
  <2>4. QED
    BY <2>1, <2>2, <2>3 DEF RegistryExact, FreshIds, LoopOverRegistered
<1>2. ASSUME NEW s \in Subscribers, Register(s)
      PROVE  RegistryInv'
  <2>1. /\ DOMAIN subs' = DOMAIN subs \cup {next}
        /\ subs'[next] = s
        /\ next \notin DOMAIN subs
        /\ \A i \in DOMAIN subs : subs'[i] = subs[i]
    BY <1>2 DEF Register, RegisterAs, FreshIds, TypeOK
  <2>2. /\ Registered' = Registered \cup {s}
        /\ s \notin Registered
        /\ id'[s] = next
        /\ \A t \in Registered : id'[t] = id[t]
    BY <1>2 DEF Register, RegisterAs, Goto, Registered, TypeOK
  <2>3. {t \in Subscribers : pc'[t] = "gone"} = {t \in Subscribers : pc[t] = "gone"}
    BY <1>2 DEF Register, RegisterAs, Goto, TypeOK
  <2>4. RegistryExact'
    BY <1>2, <2>1, <2>2, <2>3 DEF Register, RegisterAs, RegistryExact
  <2>5. FreshIds'
    BY <1>2, <2>1 DEF Register, RegisterAs, FreshIds, TypeOK
  <2>6. LoopOverRegistered' /\ NoPanic'
    BY <1>2, <2>2 DEF Register, RegisterAs, LoopOverRegistered
  <2>7. QED
    BY <2>4, <2>5, <2>6
<1>3. ASSUME NEW s \in Subscribers, Unregister(s)
      PROVE  RegistryInv'
  <2>1. s \in Registered /\ id[s] \in DOMAIN subs /\ subs[id[s]] = s
    BY <1>3 DEF Unregister, DeleteAndClose, Goto, Registered, RegistryExact
  <2>2. /\ DOMAIN subs' = DOMAIN subs \ {id[s]}
        /\ \A i \in DOMAIN subs' : subs'[i] = subs[i]
        /\ closed' = closed \cup {s}
        /\ panic' = (panic \/ s \in closed)
    BY <1>3, <2>1 DEF Unregister, DeleteAndClose
  <2>3. /\ Registered' = Registered \ {s}
        /\ {t \in Subscribers : pc'[t] = "gone"}
             = {t \in Subscribers : pc[t] = "gone"} \cup {s}
        /\ pc[s] # "gone"
    BY <1>3 DEF Unregister, DeleteAndClose, Goto, Registered, TypeOK
  <2>4. NoPanic'
    BY <2>2, <2>3 DEF RegistryExact
  <2>5. RegistryExact'
    <3>1. id' = id
      BY <1>3 DEF Unregister, DeleteAndClose
    <3>2. \A t \in Registered' : id[t] \in DOMAIN subs' /\ subs'[id[t]] = t
      BY <2>1, <2>2, <2>3 DEF RegistryExact
    <3>3. \A i \in DOMAIN subs' : subs'[i] \in Registered' /\ id[subs'[i]] = i
      BY <2>1, <2>2, <2>3 DEF RegistryExact
    <3>4. closed' = {t \in Subscribers : pc'[t] = "gone"}
      BY <2>2, <2>3 DEF RegistryExact
    <3>5. QED
      BY <3>1, <3>2, <3>3, <3>4 DEF RegistryExact
  <2>6. FreshIds'
    BY <1>3, <2>2 DEF Unregister, DeleteAndClose, FreshIds
  <2>7. LoopOverRegistered'
    <3>1. \A p \in Publishers : todo[p] = {}
      BY <1>3 DEF Unregister, Reading, LoopOverRegistered
    <3>2. pub' = pub /\ todo' = todo
      BY <1>3 DEF Unregister, DeleteAndClose
    <3>3. QED
      BY <3>1, <3>2 DEF LoopOverRegistered
  <2>8. QED
    BY <2>4, <2>5, <2>6, <2>7
<1>4. ASSUME NEW s \in Subscribers, Receive(s)
      PROVE  RegistryInv'
  BY <1>4 DEF Receive, Registered, RegistryExact, FreshIds, LoopOverRegistered
<1>5. ASSUME NEW p \in Publishers, CallPublish(p) \/ PublishEnd(p)
      PROVE  RegistryInv'
  <2>1. /\ UNCHANGED <<next, subs, id, closed, pc, todo, panic>>
        /\ \A q \in Publishers : pub'[q] # "fan" => pub[q] # "fan" \/ todo[q] = {}
    BY <1>5 DEF CallPublish, PublishEnd, TypeOK
  <2>2. Registered' = Registered
    BY <2>1 DEF Registered
  <2>3. LoopOverRegistered'
    BY <2>1, <2>2 DEF LoopOverRegistered
  <2>4. RegistryExact' /\ FreshIds'
    BY <2>1, <2>2 DEF RegistryExact, FreshIds
  <2>5. QED
    BY <2>1, <2>3, <2>4
<1>6. ASSUME NEW p \in Publishers, PublishBegin(p)
      PROVE  RegistryInv'
  <2>1. {subs[i] : i \in DOMAIN subs} \subseteq Registered
    BY DEF RegistryExact
  <2>2. LoopOverRegistered'
    BY <1>6, <2>1 DEF PublishBegin, LoopOverRegistered, Registered, TypeOK
  <2>3. QED
    BY <1>6, <2>2 DEF PublishBegin, Registered, RegistryExact, FreshIds
<1>7. ASSUME NEW p \in Publishers, NEW s \in todo[p], Offer(p, s)
      PROVE  RegistryInv'
  <2>1. s \notin closed
    BY DEF LoopOverRegistered, Registered, RegistryExact
  <2>2. NoPanic'
    BY <1>7, <2>1 DEF Offer, OfferLeaving, Send, SendIf
  <2>3. LoopOverRegistered'
    BY <1>7 DEF Offer, OfferLeaving, LoopOverRegistered, Registered, TypeOK
  <2>4. QED
    BY <1>7, <2>2, <2>3 DEF Offer, OfferLeaving, Registered, RegistryExact, FreshIds
<1>8. CASE UNCHANGED vars
  BY <1>8 DEF vars, Registered, RegistryExact, FreshIds, LoopOverRegistered
<1>9. QED
  BY <1>1, <1>2, <1>3, <1>4, <1>5, <1>6, <1>7, <1>8 DEF Next, Critical, Fan

LEMMA RegistryAlways == Spec => []RegistryInv
<1>1. QED
  BY InitRegistryInv, NextRegistryInv, PTL DEF Spec

\* However many subscribers come and go under however many publishers, no
\* send and no close ever meets a closed channel.
THEOREM NeverPanics == Spec => []NoPanic
<1>1. RegistryInv => NoPanic
  BY DEF RegistryInv
<1>2. QED
  BY <1>1, RegistryAlways, PTL

\* Every registered subscriber owns exactly the registry entry its cancel will
\* delete.
THEOREM RegistryIsExact == Spec => []RegistryExact
<1>1. RegistryInv => RegistryExact
  BY DEF RegistryInv
<1>2. QED
  BY <1>1, RegistryAlways, PTL

--------------------------------------------------------------------------------
(***************************************************************************)
(* Order. InOrder is not inductive: it needs to know that the events in a  *)
(* log were published before now and that, of a publisher that still has   *)
(* the channel ahead of it, the log holds earlier events only.             *)
(***************************************************************************)
LogPublished ==
  \A s \in Subscribers : \A i \in 1 .. Len(log[s]) :
    LET e == log[s][i]
    IN  /\ e[2] <= published[e[1]]
        /\ s \in todo[e[1]] => e[2] < published[e[1]]

OrderInv == InOrder /\ LogPublished

LEMMA InitOrderInv == Init => OrderInv
  BY DEF Init, OrderInv, InOrder, LogPublished

LEMMA NextOrderInv == RegistryInv /\ OrderInv /\ [Next]_vars => OrderInv'
<1> SUFFICES ASSUME RegistryInv, OrderInv, [Next]_vars
             PROVE  OrderInv'
  OBVIOUS
<1> USE DEF subscriberVars, publisherVars
<1>0. TypeOK
  BY DEF RegistryInv
\* The log is typed: every entry is a publisher and a number.
<1>t. \A s \in Subscribers : \A i \in 1 .. Len(log[s]) :
        /\ log[s][i][1] \in Publishers
        /\ log[s][i][2] \in Nat
  <2> SUFFICES ASSUME NEW s \in Subscribers, NEW i \in 1 .. Len(log[s])
               PROVE  log[s][i] \in Publishers \X Nat
    OBVIOUS
  <2>1. log[s] \in Seq(Publishers \X Nat)
    BY <1>0 DEF TypeOK
  <2>2. QED
    BY <2>1
<1>1. CASE UNCHANGED <<log, todo, published>>
  BY <1>1 DEF OrderInv, InOrder, LogPublished
<1>2. ASSUME NEW p \in Publishers, PublishBegin(p)
      PROVE  OrderInv'
  <2>1. /\ log' = log
        /\ published'[p] = published[p] + 1
        /\ \A q \in Publishers \ {p} : published'[q] = published[q] /\ todo'[q] = todo[q]
    BY <1>2, <1>0 DEF PublishBegin, TypeOK
  <2>2. LogPublished'
    <3> SUFFICES ASSUME NEW s \in Subscribers, NEW i \in 1 .. Len(log[s])
                 PROVE  LET e == log[s][i]
                        IN  /\ e[2] <= published'[e[1]]
                            /\ s \in todo'[e[1]] => e[2] < published'[e[1]]
      BY <2>1 DEF LogPublished
    <3> DEFINE q == log[s][i][1]
               n == log[s][i][2]
    <3>1. q \in Publishers /\ n \in Nat /\ published[q] \in Nat
      BY <1>t, <1>0 DEF TypeOK
    <3>2. n <= published[q] /\ (s \in todo[q] => n < published[q])
      BY DEF OrderInv, LogPublished
    <3>3. CASE q = p
      BY <2>1, <3>1, <3>2, <3>3
    <3>4. CASE q # p
      BY <2>1, <3>1, <3>2, <3>4
    <3>5. QED
      BY <3>3, <3>4
  <2>3. InOrder'
    BY <2>1 DEF OrderInv, InOrder
  <2>4. QED
    BY <2>2, <2>3 DEF OrderInv
<1>3. ASSUME NEW p \in Publishers, NEW s \in todo[p], Offer(p, s)
      PROVE  OrderInv'
  <2>1. /\ s \in Subscribers
        /\ published' = published
        /\ todo' = [todo EXCEPT ![p] = @ \ {s}]
    BY <1>3, <1>0 DEF Offer, OfferLeaving, TypeOK
  <2>2. CASE log' = log
    <3>1. \A q \in Publishers : todo'[q] \subseteq todo[q]
      BY <2>1, <1>0 DEF TypeOK
    <3>2. LogPublished'
      BY <2>1, <2>2, <3>1, <1>t DEF OrderInv, LogPublished
    <3>3. QED
      BY <2>2, <3>2 DEF OrderInv, InOrder
  <2>3. CASE log' = [log EXCEPT ![s] = Append(@, <<p, published[p]>>)]
    <3> DEFINE k == Len(log[s])
    <3>0. log[s] \in Seq(Publishers \X Nat) /\ k \in Nat /\ published[p] \in Nat
      BY <2>1, <1>0 DEF TypeOK
    <3>1. /\ Len(log'[s]) = k + 1
          /\ log'[s][k + 1] = <<p, published[p]>>
          /\ \A i \in 1 .. k : log'[s][i] = log[s][i]
      BY <2>1, <2>3, <3>0, <1>0 DEF TypeOK
    <3>2. \A t \in Subscribers \ {s} : log'[t] = log[t]
      BY <2>3, <1>0 DEF TypeOK
    \* What the log of s holds of p is older than the event being sent.
    <3>3. \A i \in 1 .. k : log[s][i][1] = p => log[s][i][2] < published[p]
      BY <2>1 DEF OrderInv, LogPublished
    <3>4. InOrder'
      <4> SUFFICES ASSUME NEW t \in Subscribers,
                          NEW i \in 1 .. Len(log'[t]), NEW j \in 1 .. Len(log'[t]),
                          i < j, log'[t][i][1] = log'[t][j][1]
                   PROVE  log'[t][i][2] < log'[t][j][2]
        BY DEF InOrder
      <4>1. CASE t # s
        BY <3>2, <4>1 DEF OrderInv, InOrder
      <4>2. CASE t = s /\ j \in 1 .. k
        <5>1. i \in 1 .. k
          BY <3>0, <4>2
        <5>2. QED
          BY <3>1, <4>2, <5>1, <2>1 DEF OrderInv, InOrder
      <4>3. CASE t = s /\ j = k + 1
        <5>1. i \in 1 .. k
          BY <3>0, <4>3
        <5>2. log[s][i][1] = p
          BY <3>1, <4>3, <5>1
        <5>3. QED
          BY <3>1, <3>3, <4>3, <5>1, <5>2
      <4>4. QED
        BY <3>0, <3>1, <4>1, <4>2, <4>3
    <3>5. LogPublished'
      <4> SUFFICES ASSUME NEW t \in Subscribers, NEW i \in 1 .. Len(log'[t])
                   PROVE  LET e == log'[t][i]
                          IN  /\ e[2] <= published[e[1]]
                              /\ t \in todo'[e[1]] => e[2] < published[e[1]]
        BY <2>1 DEF LogPublished
      <4>1. \A q \in Publishers : todo'[q] \subseteq todo[q]
        BY <2>1, <1>0 DEF TypeOK
      <4>2. CASE t = s /\ i = k + 1
        <5>1. s \notin todo'[p]
          BY <2>1, <1>0 DEF TypeOK
        <5>2. QED
          BY <3>0, <3>1, <4>2, <5>1
      <4>3. CASE t # s \/ i \in 1 .. k
        <5>1. i \in 1 .. Len(log[t]) /\ log'[t][i] = log[t][i]
          BY <3>1, <3>2, <4>3, <2>1
        <5>2. QED
          BY <4>1, <5>1, <1>t DEF OrderInv, LogPublished
      <4>4. QED
        BY <3>0, <3>1, <4>2, <4>3
    <3>6. QED
      BY <3>4, <3>5 DEF OrderInv
  <2>4. QED
    BY <1>3, <2>2, <2>3 DEF Offer, OfferLeaving, Send, SendIf
<1>4. QED
  BY <1>1, <1>2, <1>3
     DEF Next, Critical, Fan, vars, CallSubscribe, CallCancel, Lock, Register,
         RegisterAs, Unregister, DeleteAndClose, Receive, CallPublish, PublishEnd

\* No subscriber sees an event of one publisher twice or after a later one.
THEOREM DeliveryInOrder == Spec => []InOrder
<1>1. OrderInv => InOrder
  BY DEF OrderInv
<1>2. QED
  BY <1>1, InitOrderInv, NextOrderInv, RegistryAlways, PTL DEF Spec

--------------------------------------------------------------------------------
(***************************************************************************)
(* Refinement. Every step of the hub is a step of the abstract broadcast   *)
(* or leaves what it shows unchanged. Two facts are needed beyond the      *)
(* registry: a buffer holds between none and Capacity events, and a        *)
(* publisher that asks for the lock still has an event to publish.         *)
(***************************************************************************)
BufferBound ==
  \A s \in Subscribers : Len(log[s]) \in taken[s] .. (taken[s] + Capacity)

HasEvent == \A p \in Publishers : pub[p] = "rlock" => published[p] < MaxEvents

BufferInv == BufferBound /\ HasEvent

LEMMA InitBufferInv == Init => BufferInv
  BY CapacityAssumption DEF Init, BufferInv, BufferBound, HasEvent

LEMMA NextBufferInv == TypeOK /\ BufferInv /\ [Next]_vars => BufferInv'
<1> SUFFICES ASSUME TypeOK, BufferInv, [Next]_vars
             PROVE  BufferInv'
  OBVIOUS
<1> USE CapacityAssumption DEF BufferInv, subscriberVars, publisherVars
<1>1. CASE UNCHANGED <<log, taken, pub, published>>
  BY <1>1 DEF BufferBound, HasEvent
<1>2. ASSUME NEW s \in Subscribers, Receive(s)
      PROVE  BufferInv'
  <2>1. \A t \in Subscribers : Len(log[t]) \in Nat /\ taken[t] \in Nat
    BY DEF TypeOK
  <2>2. BufferBound'
    <3>1. taken[s] < Len(log[s])
      BY <1>2, <2>1 DEF Receive, Waiting
    <3>2. /\ log' = log
          /\ taken'[s] = taken[s] + 1
          /\ \A t \in Subscribers \ {s} : taken'[t] = taken[t]
      BY <1>2 DEF Receive, TypeOK
    <3> SUFFICES ASSUME NEW t \in Subscribers
                 PROVE  Len(log[t]) \in taken'[t] .. (taken'[t] + Capacity)
      BY <3>2 DEF BufferBound
    <3>3. QED
      BY <2>1, <3>1, <3>2 DEF BufferBound
  <2>3. QED
    BY <1>2, <2>2 DEF Receive, HasEvent
<1>3. ASSUME NEW p \in Publishers, CallPublish(p) \/ PublishBegin(p) \/ PublishEnd(p)
      PROVE  BufferInv'
  BY <1>3 DEF CallPublish, PublishBegin, PublishEnd, BufferBound, HasEvent, TypeOK
<1>4. ASSUME NEW p \in Publishers, NEW s \in todo[p], Offer(p, s)
      PROVE  BufferInv'
  <2>1. s \in Subscribers /\ log[s] \in Seq(Publishers \X Nat)
    BY DEF TypeOK
  <2>2. BufferBound'
    <3>1. CASE Waiting(s) < Capacity
      <4>1. /\ Len(log'[s]) = Len(log[s]) + 1
            /\ \A t \in Subscribers \ {s} : log'[t] = log[t]
            /\ taken' = taken
        BY <1>4, <2>1, <3>1 DEF Offer, OfferLeaving, Send, SendIf, TypeOK
      <4>2. \A t \in Subscribers : Len(log[t]) \in Nat /\ taken[t] \in Nat
        BY DEF TypeOK
      <4> SUFFICES ASSUME NEW t \in Subscribers
                   PROVE  Len(log'[t]) \in taken[t] .. (taken[t] + Capacity)
        BY <4>1 DEF BufferBound
      <4>3. taken[t] <= Len(log[t]) /\ Len(log[t]) <= taken[t] + Capacity
        BY <4>2 DEF BufferBound
      <4>4. CASE t = s
        BY <2>1, <3>1, <4>1, <4>2, <4>3, <4>4 DEF Waiting
      <4>5. CASE t # s
        BY <4>1, <4>2, <4>3, <4>5
      <4>6. QED
        BY <4>4, <4>5
    <3>2. CASE ~(Waiting(s) < Capacity)
      BY <1>4, <3>2 DEF Offer, OfferLeaving, Send, SendIf, BufferBound
    <3>3. QED
      BY <3>1, <3>2
  <2>3. QED
    BY <1>4, <2>2 DEF Offer, OfferLeaving, HasEvent
<1>5. QED
  BY <1>1, <1>2, <1>3, <1>4
     DEF Next, Critical, Fan, vars, CallSubscribe, CallCancel, Lock, Register,
         RegisterAs, Unregister, DeleteAndClose

LEMMA InitRefines == Init => Stream!Init
  BY DEF Init, Stream!Init, Registered

LEMMA NextRefines ==
  RegistryInv /\ BufferInv /\ [Next]_vars => [Stream!Next]_(Stream!vars)
<1> SUFFICES ASSUME RegistryInv, BufferInv, [Next]_vars
             PROVE  [Stream!Next]_(Stream!vars)
  OBVIOUS
<1>0. TypeOK
  BY DEF RegistryInv
<1> DEFINE gone == {s \in Subscribers : pc[s] = "gone"}
<1> USE <1>0 DEF subscriberVars, publisherVars
\* Calls and the lock are invisible.
<1>1. ASSUME NEW s \in Subscribers, CallSubscribe(s) \/ CallCancel(s) \/ Lock(s)
      PROVE  UNCHANGED Stream!vars
  <2>1. Registered' = Registered /\ gone' = gone
    BY <1>1 DEF CallSubscribe, CallCancel, Lock, Goto, Registered, TypeOK
  <2>2. QED
    BY <1>1, <2>1 DEF CallSubscribe, CallCancel, Lock, Stream!vars
<1>2. ASSUME NEW s \in Subscribers, Register(s)
      PROVE  Stream!Join(s)
  <2>1. /\ s \notin Registered \cup gone
        /\ Registered' = Registered \cup {s}
        /\ gone' = gone
    BY <1>2 DEF Register, RegisterAs, Goto, Registered, TypeOK
  <2>2. QED
    BY <1>2, <2>1 DEF Register, RegisterAs, Stream!Join
\* A subscriber leaves when no publisher has anything due.
<1>3. ASSUME NEW s \in Subscribers, Unregister(s)
      PROVE  Stream!Leave(s)
  <2>1. /\ s \in Registered
        /\ Registered' = Registered \ {s}
        /\ gone' = gone \cup {s}
    BY <1>3 DEF Unregister, DeleteAndClose, Goto, Registered, TypeOK
  <2>2. \A p \in Publishers : todo[p] = {}
    BY <1>3 DEF Unregister, Reading, RegistryInv, LoopOverRegistered
  <2>3. todo' = [p \in Publishers |-> todo[p] \ {s}]
    BY <1>3, <2>2 DEF Unregister, DeleteAndClose, TypeOK
  <2>4. QED
    BY <1>3, <2>1, <2>3 DEF Unregister, DeleteAndClose, Stream!Leave
<1>4. ASSUME NEW s \in Subscribers, Receive(s)
      PROVE  Stream!Take(s)
  <2>1. Len(log[s]) \in Nat /\ taken[s] \in Nat
    BY DEF TypeOK
  <2>2. s \in Registered /\ taken[s] < Len(log[s])
    BY <1>4, <2>1 DEF Receive, Waiting, Registered
  <2>3. Registered' = Registered /\ gone' = gone
    BY <1>4 DEF Receive, Registered
  <2>4. QED
    BY <1>4, <2>2, <2>3 DEF Receive, Stream!Take
<1>5. ASSUME NEW p \in Publishers, CallPublish(p) \/ PublishEnd(p)
      PROVE  UNCHANGED Stream!vars
  BY <1>5 DEF CallPublish, PublishEnd, Stream!vars, Registered
\* The registry's channels are those of the registered subscribers.
<1>6. ASSUME NEW p \in Publishers, PublishBegin(p)
      PROVE  Stream!Publish(p)
  <2>1. {subs[i] : i \in DOMAIN subs} = Registered
    BY DEF RegistryInv, RegistryExact
  <2>2. todo[p] = {} /\ published[p] < MaxEvents
    BY <1>6 DEF PublishBegin, RegistryInv, LoopOverRegistered, BufferInv, HasEvent
  <2>3. Registered' = Registered /\ gone' = gone
    BY <1>6 DEF PublishBegin, Registered
  <2>4. QED
    BY <1>6, <2>1, <2>2, <2>3 DEF PublishBegin, Stream!Publish
<1>7. ASSUME NEW p \in Publishers, NEW s \in todo[p], Offer(p, s)
      PROVE  s \in Subscribers /\ (Stream!Give(p, s) \/ Stream!Lose(p, s))
  <2>1. s \in Subscribers /\ Len(log[s]) \in Nat /\ taken[s] \in Nat
    BY DEF TypeOK
  <2>2. Registered' = Registered /\ gone' = gone
    BY <1>7 DEF Offer, OfferLeaving, Registered
  <2>3. CASE Waiting(s) < Capacity
    BY <1>7, <2>1, <2>2, <2>3
       DEF Offer, OfferLeaving, Send, SendIf, Waiting, Stream!Give
  <2>4. CASE ~(Waiting(s) < Capacity)
    <3>1. Len(log[s]) - taken[s] = Capacity
      BY <2>1, <2>4, CapacityAssumption DEF Waiting, BufferInv, BufferBound
    <3>2. QED
      BY <1>7, <2>1, <2>2, <2>4, <3>1
         DEF Offer, OfferLeaving, Send, SendIf, Stream!Lose
  <2>5. QED
    BY <2>1, <2>3, <2>4
<1>8. CASE UNCHANGED vars
  BY <1>8 DEF vars, Stream!vars, Registered
<1>9. QED
  BY <1>1, <1>2, <1>3, <1>4, <1>5, <1>6, <1>7, <1>8
     DEF Next, Critical, Fan, Stream!Next, Stream!Settle

\* The hub implements the safety part of the abstract broadcast, whatever the
\* number of publishers and subscribers and the size of the buffers.
THEOREM HubImplementsStream ==
  Spec => Stream!Init /\ [][Stream!Next]_(Stream!vars)
<1>1. Spec => []BufferInv
  BY InitBufferInv, NextBufferInv, Typing, PTL DEF Spec
<1>2. QED
  BY <1>1, InitRefines, NextRefines, RegistryAlways, PTL DEF Spec
--------------------------------------------------------------------------------
(***************************************************************************)
(* The shutdown cuts nobody short before its timeout.                      *)
(***************************************************************************)
Stages == {"serving", "draining", "closing", "exited"}
Doings == {"away", "working", "querying", "streaming", "answered"}

ShutdownTypeOK ==
  /\ main \in Stages
  /\ expired \in BOOLEAN
  /\ pool \in {"open", "closed"}
  /\ handler \in [Handlers -> Doings]
  /\ left \in [Handlers -> Nat]
  /\ cut \subseteq Handlers

Past == main \in {"closing", "exited"}

\* The pool is closed only past the drain, which only the timeout ends while a
\* handler is busy; without it nobody arrives past the drain.
Drained ==
  /\ pool = "closed" => Past
  /\ Past /\ ~expired => SD!Busy = {}
  /\ ~expired => cut = {}

\* Who is inside a statement has that one to make.
Counted == \A h \in Handlers : handler[h] = "querying" => left[h] > 0

ShutdownInv == ShutdownTypeOK /\ Drained /\ Counted

LEMMA ShutdownInitInv == SD!Init => ShutdownInv
<1> SUFFICES ASSUME SD!Init PROVE ShutdownInv
  OBVIOUS
<1>1. ShutdownTypeOK
  BY DEF SD!Init, ShutdownTypeOK, Stages, Doings
<1>2. Drained
  BY DEF SD!Init, Drained, Past
<1>3. Counted
  BY DEF SD!Init, Counted
<1>4. QED
  BY <1>1, <1>2, <1>3 DEF ShutdownInv

\* A busy handler that stays busy, or stops.
LEMMA ShutdownMoveInv ==
  ASSUME ShutdownInv, NEW h \in Handlers, NEW from \in SD!Active, NEW to \in Doings,
         SD!Move(h, from, to),
         left' \in [Handlers -> Nat], cut' = cut, Counted'
  PROVE  ShutdownInv'
<1>1. ShutdownTypeOK'
  BY DEF ShutdownInv, ShutdownTypeOK, SD!Move
<1>2. h \in SD!Busy
  BY DEF SD!Busy, SD!Move
<1>3. Past' = Past /\ expired' = expired /\ pool' = pool
  BY DEF Past, SD!Move
<1>4. ~(Past /\ ~expired)
  BY <1>2 DEF ShutdownInv, Drained
<1>5. QED
  BY <1>1, <1>3, <1>4 DEF ShutdownInv, Drained

LEMMA ShutdownNextInv == ShutdownInv /\ [SD!Next]_SD!vars => ShutdownInv'
<1> SUFFICES ASSUME ShutdownInv, [SD!Next]_SD!vars PROVE ShutdownInv'
  OBVIOUS
<1>1. CASE SD!Signal
  BY <1>1
     DEF SD!Signal, ShutdownInv, ShutdownTypeOK, Drained, Counted, Past, SD!Busy,
         Stages
<1>2. CASE SD!Drain
  BY <1>2
     DEF SD!Drain, SD!DrainAtOnce, ShutdownInv, ShutdownTypeOK, Drained, Counted,
         Past, SD!Busy, Stages
<1>3. CASE SD!Expire
  BY <1>3
     DEF SD!Expire, SD!ExpireIf, ShutdownInv, ShutdownTypeOK, Drained, Counted, Past,
         SD!Busy, Stages
<1>4. CASE SD!ClosePool
  BY <1>4
     DEF SD!ClosePool, ShutdownInv, ShutdownTypeOK, Drained, Counted, Past, SD!Busy,
         Stages
<1>5. CASE SD!Exit
  BY <1>5
     DEF SD!Exit, ShutdownInv, ShutdownTypeOK, Drained, Counted, Past, SD!Busy, Stages
<1>6. ASSUME NEW h \in Handlers, SD!Arrive(h) PROVE ShutdownInv'
  BY <1>6
     DEF SD!Arrive, SD!Move, ShutdownInv, ShutdownTypeOK, Drained, Counted, Past,
         Doings
<1>7. ASSUME NEW h \in Handlers, SD!Acquire(h) PROVE ShutdownInv'
  <2>1. Counted' /\ left' = left
    BY <1>7 DEF SD!Acquire, SD!Move, ShutdownInv, ShutdownTypeOK, Counted
  <2>2. QED
    BY <1>7, <2>1, ShutdownMoveInv
       DEF SD!Acquire, SD!Active, Doings, ShutdownInv, ShutdownTypeOK
<1>8. ASSUME NEW h \in Handlers, SD!Release(h) PROVE ShutdownInv'
  <2>1. left[h] \in Nat /\ left[h] > 0
    BY <1>8 DEF SD!Release, SD!Move, ShutdownInv, ShutdownTypeOK, Counted
  <2>2. left' \in [Handlers -> Nat]
    BY <1>8, <2>1 DEF SD!Release, ShutdownInv, ShutdownTypeOK
  <2>3. Counted'
    BY <1>8 DEF SD!Release, SD!Move, ShutdownInv, ShutdownTypeOK, Counted
  <2>4. QED
    BY <1>8, <2>2, <2>3, ShutdownMoveInv DEF SD!Release, SD!Active, Doings
<1>9. ASSUME NEW h \in Handlers, SD!Refused(h) PROVE ShutdownInv'
  <2>1. h \in SD!Busy /\ Past
    BY <1>9 DEF SD!Refused, SD!Move, SD!Busy, SD!Active, ShutdownInv, Drained
  <2>2. expired /\ expired' = expired
    BY <1>9, <2>1 DEF SD!Refused, SD!Move, ShutdownInv, ShutdownTypeOK, Drained
  <2>3. QED
    BY <1>9, <2>1, <2>2
       DEF SD!Refused, SD!Move, ShutdownInv, ShutdownTypeOK, Drained, Counted, Past,
           Doings
<1>10. ASSUME NEW h \in Handlers, SD!Answer(h) \/ SD!Leave(h) PROVE ShutdownInv'
  <2>1. Counted' /\ left' = left
    BY <1>10 DEF SD!Answer, SD!Leave, SD!Move, ShutdownInv, ShutdownTypeOK, Counted
  <2>2. QED
    BY <1>10, <2>1, ShutdownMoveInv
       DEF SD!Answer, SD!Leave, SD!Active, Doings, ShutdownInv, ShutdownTypeOK
<1>11. CASE UNCHANGED SD!vars
  BY <1>11 DEF SD!vars, ShutdownInv, ShutdownTypeOK, Drained, Counted, Past, SD!Busy
<1>12. QED
  BY <1>1, <1>2, <1>3, <1>4, <1>5, <1>6, <1>7, <1>8, <1>9, <1>10, <1>11 DEF SD!Next

\* main and its handlers keep their types.
THEOREM ShutdownTyping == SD!Spec => []ShutdownTypeOK
<1>1. ShutdownInv => ShutdownTypeOK
  BY DEF ShutdownInv
<1>2. QED
  BY <1>1, ShutdownInitInv, ShutdownNextInv, PTL DEF SD!Spec

\* Before the timeout of Shutdown no handler is refused the pool or ended by
\* the exit (main.go:40, 163-166).
THEOREM NobodyCutShort == SD!Spec => []CutOnlyByTimeout
<1>1. ShutdownInv => CutOnlyByTimeout
  BY DEF ShutdownInv, Drained, SD!CutOnlyByTimeout, CutOnlyByTimeout
<1>2. QED
  BY <1>1, ShutdownInitInv, ShutdownNextInv, PTL DEF SD!Spec
--------------------------------------------------------------------------------
\* A behaviour of Server is one of the hub and one of the shutdown, so that
\* what is proved of either holds of what the run checks.
THEOREM Together == ServerSpec => [](NoPanic /\ InOrder /\ CutOnlyByTimeout)
<1>1. ServerInit => Init /\ SD!Init
  BY DEF ServerInit
<1>2. [ServerNext]_<<part, vars, process>> => [Next]_vars /\ [SD!Next]_SD!vars
  BY DEF ServerNext, process, SD!vars
<1>3. ServerSpec => Spec /\ SD!Spec
  BY <1>1, <1>2, PTL DEF ServerSpec, Spec, SD!Spec
<1>4. QED
  BY <1>3, NeverPanics, DeliveryInOrder, NobodyCutShort, PTL
================================================================================
