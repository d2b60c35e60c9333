---------------------------- MODULE HubBootProofs ----------------------------
(***************************************************************************)
(* The boot of the hubs, for every number of processes and services and    *)
(* every configuration and manifest.                                       *)
(***************************************************************************)
EXTENDS HubBoot, SequenceTheorems, TLAPS

\* What a call pushed on a stack, and one popped off it, do to its elements.
LEMMA PushedCall ==
    ASSUME NEW S, NEW s \in Seq(S), NEW x \in S
    PROVE  /\ Append(s, x) \in Seq(S)
           /\ ToSet(Append(s, x)) = ToSet(s) \cup {x}
           /\ IsInjective(s) /\ x \notin ToSet(s) => IsInjective(Append(s, x))
<1>1. /\ Append(s, x) \in Seq(S) /\ Len(s) \in Nat
      /\ DOMAIN s = 1 .. Len(s) /\ DOMAIN Append(s, x) = 1 .. Len(s) + 1
      /\ \A i \in 1 .. Len(s) : Append(s, x)[i] = s[i]
      /\ Append(s, x)[Len(s) + 1] = x
  BY LenProperties, AppendProperties
<1>2. \A i : i \in DOMAIN Append(s, x) <=> i \in DOMAIN s \/ i = Len(s) + 1
  BY <1>1
<1>3. \A y : y \in ToSet(Append(s, x)) <=> y \in ToSet(s) \/ y = x
  BY <1>1, <1>2 DEF ToSet
<1>4. ToSet(Append(s, x)) = ToSet(s) \cup {x}
  BY <1>3
<1>5. IsInjective(s) /\ x \notin ToSet(s) => IsInjective(Append(s, x))
  BY <1>1, <1>2 DEF IsInjective, ToSet
<1> QED
  BY <1>1, <1>4, <1>5

LEMMA PoppedCall ==
    ASSUME NEW S, NEW s \in Seq(S), s # <<>>
    PROVE  /\ Front(s) \in Seq(S) /\ Last(s) \in S
           /\ ToSet(s) = ToSet(Front(s)) \cup {Last(s)}
           /\ IsInjective(s) => IsInjective(Front(s)) /\ Last(s) \notin ToSet(Front(s))
<1>1. Len(s) \in Nat /\ Len(s) > 0 /\ DOMAIN s = 1 .. Len(s)
  BY EmptySeq, LenProperties
<1>2. /\ Front(s) \in Seq(S) /\ DOMAIN Front(s) = 1 .. Len(s) - 1
      /\ \A i \in 1 .. Len(s) - 1 : Front(s)[i] = s[i]
  <2>1. Front(s) \in Seq(S) /\ Len(Front(s)) = Len(s) - 1
    BY <1>1, SubSeqProperties DEF Front
  <2>2. \A i \in 1 .. Len(s) - 1 : Front(s)[i] = s[i]
    BY <1>1, SubSeqProperties DEF Front
  <2> QED
    BY <2>1, <2>2, LenProperties
<1>3. \A i : i \in DOMAIN s <=> i \in DOMAIN Front(s) \/ i = Len(s)
  BY <1>1, <1>2
<1>4. Last(s) = s[Len(s)] /\ Last(s) \in S
  BY <1>1, ElementOfSeq DEF Last
<1>5. \A y : y \in ToSet(s) <=> y \in ToSet(Front(s)) \/ y = Last(s)
  BY <1>2, <1>3, <1>4 DEF ToSet
<1>6. ToSet(s) = ToSet(Front(s)) \cup {Last(s)}
  BY <1>5
<1>7. IsInjective(s) => IsInjective(Front(s)) /\ Last(s) \notin ToSet(Front(s))
  BY <1>1, <1>2, <1>3, <1>4 DEF IsInjective, ToSet
<1> QED
  BY <1>2, <1>4, <1>6, <1>7

LEMMA NoCalls == \A S : <<>> \in Seq(S) /\ ToSet(<<>>) = {} /\ IsInjective(<<>>)
  BY EmptySeq DEF ToSet, IsInjective

-----------------------------------------------------------------------------
(* The dependencies.                                                       *)

\* What is up next has not been visited.
LEMMA NextIsUnvisited ==
    ASSUME NEW h, NEW mw \in UpNext(h)
    PROVE  mw \notin visited[h]
  BY DEF UpNext, ToVisit

\* A call with nothing left to visit has visited all that its middleware needs.
LEMMA NothingLeft ==
    ASSUME NEW h, ToVisit(h) = {}
    PROVE  Needs(Top(h)) \subseteq visited[h]
<1> SUFFICES ASSUME NEW x \in Needs(Top(h)), x \notin visited[h] PROVE FALSE
  OBVIOUS
<1>1. PICK i \in DOMAIN DeclaredBy(Top(h)).needs, s \in 1 .. Services :
         x = Resolve(Top(h), DeclaredBy(Top(h)).needs[i], s)
  BY DEF Needs, ToSet
<1>2. <<1, i, s, x>> \in Dependencies(Top(h))
  BY <1>1 DEF Dependencies
<1>3. <<1, i, s, x>> \in ToVisit(h)
  BY <1>2 DEF ToVisit
<1> QED
  BY <1>3

\* The hub goes through all that it has created.
LEMMA HubNeedsAll == Created \subseteq Needs(TheHub)
<1> SUFFICES ASSUME NEW mw \in Created PROVE mw \in Needs(TheHub)
  OBVIOUS
<1>1. PICK i \in DOMAIN manifest.config, s \in 1 .. Services : mw = Instance(manifest.config[i], s)
  BY DEF Created, ToSet
<1>2. DeclaredBy(TheHub).needs = [n \in DOMAIN manifest.config |-> Each(manifest.config[n])]
  BY DEF DeclaredBy, Middlewares
<1>3. Each(manifest.config[i]) \in ToSet(DeclaredBy(TheHub).needs)
  BY <1>2 DEF ToSet
<1>4. mw = Resolve(TheHub, Each(manifest.config[i]), s)
  BY <1>1 DEF Resolve, Each
<1> QED
  BY <1>3, <1>4 DEF Needs

\* The API needs the out queue of every service.
LEMMA ApiNeedsOutQueues ==
    ASSUME NEW p \in 1 .. Services
    PROVE  [type |-> "out_queue", svc |-> p] \in Needs(Instance("api", 0))
<1>1. DeclaredBy(Instance("api", 0)).needs = API.needs
  BY DEF DeclaredBy, Instance, TheHub, Declared
<1>2. Each("out_queue") \in ToSet(API.needs)
  <2>1. API.needs[2] = Each("out_queue") /\ 2 \in DOMAIN API.needs
    BY DEF API
  <2> QED
    BY <2>1 DEF ToSet
<1>3. Resolve(Instance("api", 0), Each("out_queue"), p) = [type |-> "out_queue", svc |-> p]
  BY DEF Resolve, Each, Instance, PerHub
<1> QED
  BY <1>1, <1>2, <1>3 DEF Needs

-----------------------------------------------------------------------------

\* A middleware of one service carries its place in the manifest.
LEMMA CreatedServices ==
    ASSUME NEW mw \in Created, mw.type \notin PerHub
    PROVE  mw.svc \in 1 .. Services
  BY DEF Created, Instance

LEMMA TypeInit == Init => TypeOK
  BY ManifestsAssumption, BootsAssumption, NoCalls DEF Init, TypeOK

LEMMA TypeStep == ASSUME TypeOK, [Next]_vars PROVE TypeOK'
<1>a. Created' = Created /\ manifest' = manifest
  BY DEF Next, BootProceeds, Visit, Unresolved, Initialize, BindFails, Start, Crash, Reboot,
         vars, brokerVars, Created
<1>1. ASSUME NEW h \in Hubs, Visit(h)
      PROVE  TypeOK'
  <2>1. PICK mw \in Created : /\ stack' = [stack EXCEPT ![h] = Append(@, mw)]
                              /\ visited' = [visited EXCEPT ![h] = @ \cup {mw}]
    BY <1>1 DEF Visit
  <2>2. Append(stack[h], mw) \in Seq(Created)
    BY PushedCall DEF TypeOK
  <2> QED
    BY <1>1, <1>a, <2>1, <2>2 DEF Visit, TypeOK, brokerVars
<1>2. ASSUME NEW h \in Hubs, Unresolved(h) \/ Start(h) \/ Crash(h)
      PROVE  TypeOK'
  BY <1>2, <1>a DEF Unresolved, Start, Crash, TypeOK, brokerVars
<1>3. ASSUME NEW h \in Hubs, Initialize(h)
      PROVE  TypeOK'
  <2>1. Top(h) \in Created /\ Front(stack[h]) \in Seq(Created)
    BY <1>3, PoppedCall DEF Initialize, Top, TypeOK
  <2>2. QueuesOf(Top(h)) \subseteq Queues
    BY <2>1, CreatedServices DEF QueuesOf, Queues, PerHub
  <2>3. queues' \subseteq Queues /\ queues \subseteq queues'
    BY <1>3, <2>2 DEF Initialize, TypeOK
  <2>4. bindings' \subseteq (1 .. Services) \X queues'
    <3>1. CASE Top(h).type = "out_queue"
      <4>1. Top(h).svc \in 1 .. Services
        BY <2>1, <3>1, CreatedServices DEF PerHub
      <4>2. {Top(h).svc} \X QueuesFedBy(Top(h).svc) \subseteq (1 .. Services) \X queues
        BY <1>3, <3>1, <4>1 DEF Initialize
      <4> QED
        BY <1>3, <2>3, <3>1, <4>2 DEF Initialize, TypeOK
    <3>2. CASE Top(h).type # "out_queue"
      BY <1>3, <2>3, <3>2 DEF Initialize, TypeOK
    <3> QED
      BY <3>1, <3>2
  <2> QED
    BY <1>3, <1>a, <2>1, <2>3, <2>4 DEF Initialize, TypeOK
<1>4. ASSUME NEW h \in Hubs, BindFails(h)
      PROVE  TypeOK'
  <2>1. Top(h) \in Created
    BY <1>4, PoppedCall DEF BindFails, Top, TypeOK
  <2>2. Top(h).svc \in 1 .. Services
    BY <1>4, <2>1, CreatedServices DEF BindFails, PerHub
  <2>3. PICK made \in SUBSET queues : bindings' = bindings \cup ({Top(h).svc} \X made)
    BY <1>4 DEF BindFails
  <2>4. bindings' \subseteq (1 .. Services) \X queues
    BY <2>2, <2>3 DEF TypeOK
  <2> QED
    BY <1>4, <1>a, <2>4 DEF BindFails, TypeOK
<1>5. ASSUME NEW h \in Hubs, Reboot(h)
      PROVE  TypeOK'
  BY <1>5, <1>a, NoCalls, BootsAssumption DEF Reboot, TypeOK, brokerVars
<1>6. CASE UNCHANGED vars
  BY <1>6, <1>a DEF vars, brokerVars, hubVars, TypeOK
<1> QED
  BY <1>1, <1>2, <1>3, <1>4, <1>5, <1>6 DEF Next, BootProceeds

(* Only what the configuration creates is ever visited or initialised, and *)
(* only queues that exist are bound.                                       *)
THEOREM BootTypeCorrect == Spec => []TypeOK
  BY TypeInit, TypeStep, PTL DEF Spec

-----------------------------------------------------------------------------
(* The invariants.                                                         *)

\* What is created, needed and fed is what the manifest says, which no step changes.
LEMMA ManifestKept ==
    ASSUME [Next]_vars
    PROVE  /\ manifest' = manifest /\ Created' = Created
           /\ \A mw : Needs(mw)' = Needs(mw)
           /\ \A p : QueuesFedBy(p)' = QueuesFedBy(p)
<1>1. manifest' = manifest
  BY DEF Next, BootProceeds, Visit, Unresolved, Initialize, BindFails, Start, Crash, Reboot,
         vars, brokerVars
<1>2. Created' = Created
  BY <1>1 DEF Created
<1>3. Middlewares' = Middlewares
  BY <1>1 DEF Middlewares
<1>4. \A mw : DeclaredBy(mw)' = DeclaredBy(mw)
  BY <1>3 DEF DeclaredBy
<1>5. \A mw : Needs(mw)' = Needs(mw)
  BY <1>4 DEF Needs
<1>6. \A p : QueuesFedBy(p)' = QueuesFedBy(p)
  BY <1>1 DEF QueuesFedBy, SubscribersOf, BulkSubscribersOf
<1> QED
  BY <1>1, <1>2, <1>5, <1>6

LEMMA BootInvInit == Init => BootInv
  BY NoCalls DEF Init, BootInv, EachOnce, Provided, Through

\* A step that leaves what the hubs have visited alone and unbinds nothing.
LEMMA FramedStep ==
    ASSUME BootInv, [Next]_vars, bindings \subseteq bindings',
           UNCHANGED <<visited, stack, initialized>>,
           \A h \in Hubs : status'[h] = "started" => status[h] = "started"
    PROVE  BootInv'
<1>1. EachOnce'
  BY DEF BootInv, EachOnce
<1>2. Provided'
  BY ManifestKept DEF BootInv, Provided
<1>3. Through'
  BY ManifestKept DEF BootInv, Through
<1> QED
  BY <1>1, <1>2, <1>3 DEF BootInv

LEMMA VisitStep ==
    ASSUME TypeOK, BootInv, NEW h \in Hubs, Visit(h)
    PROVE  BootInv'
<1>a. [Next]_vars
  BY DEF Next, BootProceeds
<1>1. PICK mw \in UpNext(h) \cap Created :
         /\ stack' = [stack EXCEPT ![h] = Append(@, mw)]
         /\ visited' = [visited EXCEPT ![h] = @ \cup {mw}]
  BY DEF Visit
<1>2. /\ status[h] = "booting"
      /\ UNCHANGED <<brokerVars, status, initialized>>
  BY DEF Visit
<1>3. mw \notin visited[h]
  BY <1>1, NextIsUnvisited
<1>4. /\ ToSet(stack'[h]) = ToSet(stack[h]) \cup {mw}
      /\ IsInjective(stack[h]) /\ mw \notin ToSet(stack[h]) => IsInjective(stack'[h])
  <2>1. stack[h] \in Seq(Created) /\ stack'[h] = Append(stack[h], mw)
    BY <1>1 DEF TypeOK
  <2> QED
    BY <1>1, <2>1, PushedCall
<1>5. visited'[h] = visited[h] \cup {mw}
  BY <1>1 DEF TypeOK
<1>6. \A g \in Hubs \ {h} : stack'[g] = stack[g] /\ visited'[g] = visited[g]
  BY <1>1 DEF TypeOK
<1>7. EachOnce'
  <2> SUFFICES ASSUME NEW g \in Hubs
               PROVE  /\ IsInjective(stack'[g])
                      /\ visited'[g] = initialized[g] \cup ToSet(stack'[g])
                      /\ initialized[g] \cap ToSet(stack'[g]) = {}
    BY <1>2 DEF EachOnce
  <2>1. /\ IsInjective(stack[g])
        /\ visited[g] = initialized[g] \cup ToSet(stack[g])
        /\ initialized[g] \cap ToSet(stack[g]) = {}
    BY DEF BootInv, EachOnce
  <2>2. CASE g = h
    BY <1>3, <1>4, <1>5, <2>1, <2>2
  <2>3. CASE g # h
    BY <1>6, <2>1, <2>3
  <2> QED
    BY <2>2, <2>3
<1>8. Provided'
  <2>1. \A g \in Hubs : visited[g] \subseteq visited'[g]
    BY <1>5, <1>6
  <2>2. bindings' = bindings /\ initialized' = initialized
    BY <1>2 DEF brokerVars
  <2> QED
    BY <1>a, <2>1, <2>2, ManifestKept DEF BootInv, Provided
<1>9. Through'
  BY <1>a, <1>2, <1>6, ManifestKept DEF BootInv, Through
<1> QED
  BY <1>7, <1>8, <1>9 DEF BootInv

LEMMA InitializeStep ==
    ASSUME TypeOK, BootInv, NEW h \in Hubs, Initialize(h)
    PROVE  BootInv'
<1>a. [Next]_vars
  BY DEF Next, BootProceeds
<1> DEFINE mw == Top(h)
<1>1. /\ status[h] = "booting" /\ stack[h] # <<>> /\ ToVisit(h) = {}
      /\ stack' = [stack EXCEPT ![h] = Front(@)]
      /\ initialized' = [initialized EXCEPT ![h] = @ \cup {mw}]
      /\ UNCHANGED <<manifest, status, visited>>
  BY DEF Initialize
<1>2. /\ ToSet(stack[h]) = ToSet(Front(stack[h])) \cup {mw}
      /\ IsInjective(stack[h]) => IsInjective(Front(stack[h])) /\ mw \notin ToSet(Front(stack[h]))
  BY <1>1, PoppedCall DEF Top, TypeOK
<1>3. stack'[h] = Front(stack[h]) /\ initialized'[h] = initialized[h] \cup {mw}
  BY <1>1 DEF TypeOK
<1>4. \A g \in Hubs \ {h} : stack'[g] = stack[g] /\ initialized'[g] = initialized[g]
  BY <1>1 DEF TypeOK
<1>5. EachOnce'
  <2> SUFFICES ASSUME NEW g \in Hubs
               PROVE  /\ IsInjective(stack'[g])
                      /\ visited[g] = initialized'[g] \cup ToSet(stack'[g])
                      /\ initialized'[g] \cap ToSet(stack'[g]) = {}
    BY <1>1 DEF EachOnce
  <2>1. /\ IsInjective(stack[g])
        /\ visited[g] = initialized[g] \cup ToSet(stack[g])
        /\ initialized[g] \cap ToSet(stack[g]) = {}
    BY DEF BootInv, EachOnce
  <2>2. CASE g = h
    BY <1>2, <1>3, <2>1, <2>2
  <2>3. CASE g # h
    BY <1>4, <2>1, <2>3
  <2> QED
    BY <2>2, <2>3
<1>6. /\ bindings \subseteq bindings'
      /\ mw.type = "out_queue" => {mw.svc} \X QueuesFedBy(mw.svc) \subseteq bindings'
  BY DEF Initialize
<1>7. Provided'
  <2> SUFFICES ASSUME NEW g \in Hubs, NEW x \in initialized'[g]
               PROVE  /\ Needs(x) \subseteq visited[g]
                      /\ x.type = "out_queue" => {x.svc} \X QueuesFedBy(x.svc) \subseteq bindings'
    BY <1>a, <1>1, ManifestKept DEF Provided
  <2>1. CASE x \in initialized[g]
    BY <1>6, <2>1 DEF BootInv, Provided
  <2>2. CASE x \notin initialized[g]
    <3>1. g = h /\ x = mw
      BY <1>3, <1>4, <2>2
    <3>2. Needs(mw) \subseteq visited[h]
      BY <1>1, NothingLeft
    <3> QED
      BY <1>6, <3>1, <3>2
  <2> QED
    BY <2>1, <2>2
<1>8. Through'
  BY <1>a, <1>1, <1>4, ManifestKept DEF BootInv, Through
<1> QED
  BY <1>5, <1>7, <1>8 DEF BootInv

LEMMA StartStep ==
    ASSUME TypeOK, BootInv, NEW h \in Hubs, Start(h)
    PROVE  BootInv'
<1>a. [Next]_vars
  BY DEF Next, BootProceeds
<1>1. /\ stack[h] = <<>> /\ ToVisit(h) = {}
      /\ status' = [status EXCEPT ![h] = "started"]
      /\ UNCHANGED <<brokerVars, visited, stack, initialized>>
  BY DEF Start
<1>2. Created \subseteq visited[h]
  <2>1. Top(h) = TheHub
    BY <1>1 DEF Top
  <2> QED
    BY <1>1, <2>1, NothingLeft, HubNeedsAll
<1>3. Created \subseteq initialized[h]
  BY <1>1, <1>2, NoCalls DEF BootInv, EachOnce
<1>4. Through'
  BY <1>a, <1>1, <1>3, ManifestKept DEF BootInv, Through, TypeOK
<1>5. EachOnce'
  BY <1>1 DEF BootInv, EachOnce
<1>6. Provided'
  BY <1>a, <1>1, ManifestKept DEF BootInv, Provided, brokerVars
<1> QED
  BY <1>4, <1>5, <1>6 DEF BootInv

LEMMA RebootStep ==
    ASSUME TypeOK, BootInv, NEW h \in Hubs, Reboot(h)
    PROVE  BootInv'
<1>a. [Next]_vars
  BY DEF Next
<1>1. /\ status' = [status EXCEPT ![h] = "booting"]
      /\ visited' = [visited EXCEPT ![h] = {}]
      /\ stack' = [stack EXCEPT ![h] = <<>>]
      /\ initialized' = [initialized EXCEPT ![h] = {}]
      /\ UNCHANGED brokerVars
  BY DEF Reboot
<1>2. visited'[h] = {} /\ stack'[h] = <<>> /\ initialized'[h] = {} /\ status'[h] = "booting"
  BY <1>1 DEF TypeOK
<1>3. \A g \in Hubs \ {h} : /\ visited'[g] = visited[g] /\ stack'[g] = stack[g]
                            /\ initialized'[g] = initialized[g] /\ status'[g] = status[g]
  BY <1>1 DEF TypeOK
<1>4. EachOnce'
  BY <1>2, <1>3, NoCalls DEF BootInv, EachOnce
<1>5. Provided'
  BY <1>a, <1>1, <1>2, <1>3, ManifestKept DEF BootInv, Provided, brokerVars
<1>6. Through'
  BY <1>a, <1>2, <1>3, ManifestKept DEF BootInv, Through
<1> QED
  BY <1>4, <1>5, <1>6 DEF BootInv

LEMMA BootInvStep == ASSUME TypeOK, BootInv, [Next]_vars PROVE BootInv'
<1>1. ASSUME NEW h \in Hubs, Unresolved(h) \/ BindFails(h) \/ Crash(h)
      PROVE  BootInv'
  <2>1. UNCHANGED <<visited, stack, initialized>> /\ bindings \subseteq bindings'
    BY <1>1 DEF Unresolved, BindFails, Crash, brokerVars
  <2>2. \A g \in Hubs : status'[g] = "started" => status[g] = "started"
    BY <1>1 DEF Unresolved, BindFails, Crash, TypeOK
  <2> QED
    BY <2>1, <2>2, FramedStep
<1>2. CASE UNCHANGED vars
  BY <1>2, FramedStep DEF vars, brokerVars, hubVars
<1> QED
  BY <1>1, <1>2, VisitStep, InitializeStep, StartStep, RebootStep DEF Next, BootProceeds

THEOREM BootInvHolds == Spec => []BootInv
<1>1. TypeOK /\ BootInv /\ [Next]_vars => BootInv'
  BY BootInvStep
<1> QED
  BY <1>1, BootInvInit, BootTypeCorrect, PTL DEF Spec

-----------------------------------------------------------------------------

(* However the dependencies are nested, and whatever the configuration, no *)
(* middleware is initialised twice or while its initialisation is under    *)
(* way, and what is visited is one or the other (hub.js:70-81).            *)
THEOREM EachOnceHolds == Spec => []EachOnce
<1>1. BootInv => EachOnce
  BY DEF BootInv
<1> QED
  BY <1>1, BootInvHolds, PTL

LEMMA StartedIsComplete == BootInv => Complete
<1> SUFFICES ASSUME BootInv, NEW h \in Hubs, status[h] = "started", NEW mw \in Created
             PROVE  Needs(mw) \subseteq initialized[h]
  BY DEF Complete
<1>1. stack[h] = <<>> /\ mw \in initialized[h]
  BY DEF BootInv, Through
<1>2. Needs(mw) \subseteq visited[h]
  BY <1>1 DEF BootInv, Provided
<1>3. visited[h] = initialized[h]
  BY <1>1, NoCalls DEF BootInv, EachOnce
<1> QED
  BY <1>2, <1>3

(* A hub that has started has had every mandatory dependency of every      *)
(* middleware injected and initialised, wherever the cycles were cut.      *)
THEOREM CompleteHolds == Spec => []Complete
  BY StartedIsComplete, BootInvHolds, PTL

LEMMA StartedIsRouted == BootInv => Routed
<1> SUFFICES ASSUME BootInv, NEW h \in Hubs, status[h] = "started",
                    Instance("api", 0) \in Created, NEW p \in 1 .. Services
             PROVE  {p} \X QueuesFedBy(p) \subseteq bindings
  BY DEF Routed
<1> DEFINE out == [type |-> "out_queue", svc |-> p]
<1>1. out \in initialized[h]
  BY StartedIsComplete, ApiNeedsOutQueues DEF Complete
<1> QED
  BY <1>1 DEF BootInv, Provided

(* A hub that accepts messages has bound the queues of all the subscribers *)
(* of each, whatever the processes that died in the middle of their boots. *)
THEOREM RoutedHolds == Spec => []Routed
  BY StartedIsRouted, BootInvHolds, PTL

-----------------------------------------------------------------------------
(* The order of the visits.                                                *)

\* The elements of short sequences.
LEMMA ShortSequences ==
    /\ ToSet(<<>>) = {}
    /\ \A a : ToSet(<<a>>) = {a}
    /\ \A a, b : ToSet(<<a, b>>) = {a, b}
    /\ \A a, b, c : ToSet(<<a, b, c>>) = {a, b, c}
    /\ \A a, b, c, d : ToSet(<<a, b, c, d>>) = {a, b, c, d}
    /\ \A a, b, c, d, e : ToSet(<<a, b, c, d, e>>) = {a, b, c, d, e}
<1>1. ToSet(<<>>) = {}
  BY DEF ToSet
<1>2. \A a : ToSet(<<a>>) = {a}
  BY DEF ToSet
<1>3. \A a, b : ToSet(<<a, b>>) = {a, b}
  BY DEF ToSet
<1>4. \A a, b, c : ToSet(<<a, b, c>>) = {a, b, c}
  BY DEF ToSet
<1>5. \A a, b, c, d : ToSet(<<a, b, c, d>>) = {a, b, c, d}
  BY DEF ToSet
<1>6. \A a, b, c, d, e : ToSet(<<a, b, c, d, e>>) = {a, b, c, d, e}
  BY DEF ToSet
<1> QED
  BY <1>1, <1>2, <1>3, <1>4, <1>5, <1>6

\* What the supports of the queues are, written out.
LEMMA QueueSupports ==
    /\ OutQueue.supports = <<Own("concurrency_manager"), Stats, Each("bulk")>>
    /\ InQueue.supports = <<Own("concurrency_manager"), Stats, Own("delivery")>>
    /\ Bulk.supports = <<Own("concurrency_manager"), Stats>>
<1>1. RabbitQueue.supports = <<Own("concurrency_manager"), Stats>>
  BY DEF RabbitQueue
<1>2. ASSUME NEW a, NEW b, NEW c
      PROVE  <<a, b>> \o <<c>> = <<a, b, c>>
  <2> DEFINE S == {a, b, c}
             s == <<a, b>>
             t == <<c>>
             u == <<a, b, c>>
  <2>1. s \in Seq(S) /\ t \in Seq(S) /\ u \in Seq(S) /\ Len(s) = 2 /\ Len(t) = 1 /\ Len(u) = 3
    OBVIOUS
  <2>2. s[1] = a /\ s[2] = b /\ t[1] = c /\ u[1] = a /\ u[2] = b /\ u[3] = c
    OBVIOUS
  <2> HIDE DEF s, t, u, S
  <2>3. /\ s \o t \in Seq(S) /\ Len(s \o t) = 3
        /\ \A i \in 1 .. 3 : (s \o t)[i] = IF i <= 2 THEN s[i] ELSE t[i - 2]
    <3>1. /\ s \o t \in Seq(S) /\ Len(s \o t) = Len(s) + Len(t)
          /\ \A i \in 1 .. Len(s) + Len(t) :
                (s \o t)[i] = IF i <= Len(s) THEN s[i] ELSE t[i - Len(s)]
      <4>1. s \in Seq(S) /\ t \in Seq(S)
        BY <2>1
      <4> QED
        BY <4>1, ConcatProperties
    <3> QED
      BY <2>1, <3>1
  <2>4. \A i \in 1 .. 3 : (s \o t)[i] = u[i]
    BY <2>2, <2>3
  <2>5. s \o t = u
    BY <2>1, <2>3, <2>4, SeqEqual
  <2> QED
    BY <2>5 DEF s, t, u
<1> QED
  BY <1>1, <1>2 DEF OutQueue, InQueue, Bulk

\* What a middleware depends on, in whatever way.
DependsOn(type) == ToSet(Declared[type].needs) \cup ToSet(Declared[type].supports)

LEMMA QueueDependencies ==
    /\ DependsOn("out_queue") = {Each("in_queue"), Own("concurrency_manager"), Stats, Each("bulk")}
    /\ DependsOn("in_queue") = {Own("concurrency_manager"), Stats, Own("delivery")}
    /\ DependsOn("bulk") = {Each("in_queue"), Own("concurrency_manager"), Stats}
    /\ DependsOn("concurrency_manager") = {Own("in_queue"), Own("out_queue")}
    /\ DependsOn("delivery") = {Own("error_handler"), Stats, Own("processing"), Own("scheduler")}
<1>1. /\ OutQueue.needs = <<Each("in_queue")>> /\ InQueue.needs = <<>>
      /\ Bulk.needs = <<Each("in_queue")>>
  BY DEF OutQueue, InQueue, Bulk
<1>2. /\ Declared["out_queue"] = OutQueue /\ Declared["in_queue"] = InQueue
      /\ Declared["bulk"] = Bulk
  BY DEF Declared
<1>3. ToSet(OutQueue.needs) = {Each("in_queue")} /\ ToSet(Bulk.needs) = {Each("in_queue")}
  BY <1>1, ShortSequences
<1>4. DependsOn("out_queue") = {Each("in_queue"), Own("concurrency_manager"), Stats, Each("bulk")}
  BY <1>3, <1>2, ShortSequences, QueueSupports DEF DependsOn
<1>5. DependsOn("in_queue") = {Own("concurrency_manager"), Stats, Own("delivery")}
  BY <1>1, <1>2, ShortSequences, QueueSupports DEF DependsOn
<1>6. DependsOn("bulk") = {Each("in_queue"), Own("concurrency_manager"), Stats}
  BY <1>3, <1>2, ShortSequences, QueueSupports DEF DependsOn
<1>7. /\ DependsOn("concurrency_manager") = {Own("in_queue"), Own("out_queue")}
      /\ DependsOn("delivery") = {Own("error_handler"), Stats, Own("processing"), Own("scheduler")}
  BY ShortSequences DEF DependsOn, Declared, ConcurrencyManager, Delivery
<1> QED
  BY <1>4, <1>5, <1>6, <1>7

LEMMA StoreDependencies ==
    /\ DependsOn("scheduler") = {Own("in_queue"), Own("lock_manager"), Stats}
    /\ DependsOn("error_handler") = {Own("scheduler"), Own("dead_letter"), Stats}
    /\ DependsOn("dead_letter") = {Own("in_queue"), Stats}
    /\ DependsOn("recurring") = {Own("in_queue"), Own("lock_manager")}
    /\ DependsOn("archive") = {Own("in_queue")}
  BY ShortSequences DEF DependsOn, Declared, Scheduler, ErrorHandler, DeadLetter, Recurring, Archive

LEMMA OtherDependencies ==
    /\ DependsOn("api") = {Shared("web_server"), Each("out_queue"), Each("recurring"),
                           Each("scheduler"), Each("dead_letter"), Each("archive"), Stats}
    /\ DependsOn("monitor") = {Own("in_queue"), Own("out_queue"), Own("dead_letter"),
                               Own("scheduler"), Stats}
    /\ DependsOn("inspector") = {Own("dead_letter"), Own("scheduler"), Own("delivery"),
                                 Shared("api")}
    /\ \A type \in {"web_server", "stats_reporter", "lock_manager", "processing"} :
          DependsOn(type) = {}
  BY ShortSequences DEF DependsOn, Declared, API, Monitor, Inspector, None

\* Which types depend on which, and on whose instances.
LEMMA Scopes ==
    ASSUME NEW type \in DOMAIN Declared, NEW d \in DependsOn(type)
    PROVE  /\ d.type = "out_queue" => type = "api" \/ (type \in {"concurrency_manager", "monitor"}
                                                       /\ d.scope = "own")
           /\ d.type = "api" => type = "inspector"
           /\ d.type \notin {"inspector", "monitor"}
           /\ d.type = "bulk" => type = "out_queue"
           /\ d.type = "concurrency_manager" => /\ type \in {"in_queue", "out_queue", "bulk"}
                                                /\ d.scope = "own"
           /\ d.type = "in_queue" => type \in {"out_queue", "bulk"} \/ d.scope = "own"
           /\ type = "bulk" => d.type \in {"in_queue", "concurrency_manager", "stats_reporter"}
           /\ d.scope = "own" \/ d.type \in PerHub \/ type \in {"api", "out_queue", "bulk"}
           /\ d.scope = "own" => d.type \notin PerHub /\ type \notin PerHub
           /\ d.scope = "hub" => d.type \in PerHub
           /\ d.scope \in {"own", "each", "hub"}
<1>1. DOMAIN Declared = {"out_queue", "in_queue", "bulk", "concurrency_manager", "delivery"}
                        \cup {"scheduler", "error_handler", "dead_letter", "recurring", "archive"}
                        \cup {"api", "monitor", "inspector"}
                        \cup {"web_server", "stats_reporter", "lock_manager", "processing"}
  BY DEF Declared
<1>2. CASE type \in {"out_queue", "in_queue", "bulk", "concurrency_manager", "delivery"}
  BY <1>2, QueueDependencies DEF Own, Each, Shared, Stats, PerHub
<1>3. CASE type \in {"scheduler", "error_handler", "dead_letter", "recurring", "archive"}
  BY <1>3, StoreDependencies DEF Own, Each, Shared, Stats, PerHub
<1>4. CASE type \in {"api", "monitor", "inspector"}
  BY <1>4, OtherDependencies DEF Own, Each, Shared, Stats, PerHub
<1>5. CASE type \in {"web_server", "stats_reporter", "lock_manager", "processing"}
  BY <1>5, OtherDependencies
<1> QED
  BY <1>1, <1>2, <1>3, <1>4, <1>5

\* What is created has a declared type, and its place in the manifest or none.
LEMMA CreatedTypes ==
    ASSUME TypeOK, NEW x \in Created
    PROVE  /\ x.type \in DOMAIN Declared /\ x.type \in ToSet(manifest.config)
           /\ x = Instance(x.type, x.svc) /\ DeclaredBy(x) = Declared[x.type]
           /\ x.type \in PerHub => x.svc = 0
           /\ x.type \notin PerHub => x.svc \in 1 .. Services
<1>1. PICK type \in ToSet(manifest.config), s \in 1 .. Services : x = Instance(type, s)
  BY DEF Created
<1>2. x.type = type /\ x.svc = IF type \in PerHub THEN 0 ELSE s
  BY <1>1 DEF Instance
<1>3. type \in DOMAIN Declared
  <2>1. manifest.config \in Seq(DOMAIN Declared)
    BY ManifestsAssumption DEF TypeOK, Manifest
  <2> QED
    BY <1>1, <2>1, ElementOfSeq, LenProperties DEF ToSet
<1>4. x # TheHub
  <2>1. "hub" \notin DOMAIN Declared
    BY DEF Declared
  <2> QED
    BY <1>2, <1>3, <2>1 DEF TheHub
<1> QED
  BY <1>1, <1>2, <1>3, <1>4 DEF Instance, DeclaredBy

LEMMA CreatedOfEach ==
    ASSUME NEW type \in ToSet(manifest.config), NEW s \in 1 .. Services
    PROVE  Instance(type, s) \in Created
  BY DEF Created

\* A dependency of what is created comes from its declarations.
LEMMA DeclaredDependency ==
    ASSUME TypeOK, NEW mw \in Created, NEW e \in Dependencies(mw)
    PROVE  /\ e[1] \in 1 .. 2 /\ e[3] \in 1 .. Services
           /\ \E d \in DependsOn(mw.type) : e[4] = Resolve(mw, d, e[3])
           /\ e[1] = 1 => \E d \in ToSet(Declared[mw.type].needs) : e[4] = Resolve(mw, d, e[3])
           /\ e[1] = 1 => e[4] \in Needs(mw)
<1> DEFINE declared == <<DeclaredBy(mw).needs, DeclaredBy(mw).supports>>
<1>1. PICK k \in 1 .. 2 : e \in {<<k, i, s, Resolve(mw, declared[k][i], s)>> :
                                     i \in DOMAIN declared[k], s \in 1 .. Services}
  BY DEF Dependencies
<1>2. PICK i \in DOMAIN declared[k], s \in 1 .. Services :
         e = <<k, i, s, Resolve(mw, declared[k][i], s)>>
  BY <1>1
<1>3. DeclaredBy(mw) = Declared[mw.type]
  BY CreatedTypes
<1>4. /\ k = 1 => declared[k] = Declared[mw.type].needs
      /\ k = 2 => declared[k] = Declared[mw.type].supports
  BY <1>3
<1>5. declared[k][i] \in ToSet(declared[k])
  BY <1>2 DEF ToSet
<1>6. k = 1 => e[4] \in Needs(mw)
  BY <1>2, <1>3, <1>4, <1>5 DEF Needs
<1> QED
  BY <1>1, <1>2, <1>4, <1>5, <1>6 DEF DependsOn

\* Which instances depend on which.
LEMMA Edges ==
    ASSUME TypeOK, NEW mw \in Created, NEW e \in Dependencies(mw)
    PROVE  /\ e[4].type = "out_queue" => \/ mw.type = "api"
                                         \/ mw.type \in {"concurrency_manager", "monitor"}
                                            /\ e[4] = Out(mw.svc)
           /\ e[4].type = "api" => mw.type = "inspector"
           /\ e[4].type \notin {"inspector", "monitor"}
           /\ e[4].type = "bulk" => mw.type = "out_queue"
           /\ e[4].type = "concurrency_manager" => /\ mw.type \in {"in_queue", "out_queue", "bulk"}
                                                   /\ e[4] = Manager(mw.svc)
           /\ e[4].type = "in_queue" => \/ mw.type \in {"out_queue", "bulk"}
                                        \/ mw.type \notin PerHub /\ e[4] = In(mw.svc)
           /\ mw.type = "bulk" => e[4].type \in {"in_queue", "concurrency_manager", "stats_reporter"}
           /\ \/ e[4].svc = mw.svc /\ mw.type \notin PerHub
              \/ e[4].type \in PerHub
              \/ mw.type \in {"api", "out_queue", "bulk"}
           /\ Declared[mw.type] # None
<1>1. PICK d \in DependsOn(mw.type) : e[4] = Resolve(mw, d, e[3])
  BY DeclaredDependency
<1>2. mw.type \in DOMAIN Declared
  BY CreatedTypes
<1>3. /\ e[4].type = d.type
      /\ d.scope = "own" => e[4] = Instance(d.type, mw.svc)
  BY <1>1 DEF Resolve, Instance
<1>4. Declared[mw.type] # None
  BY ShortSequences DEF DependsOn, None
<1>5. \A type, s : type \notin PerHub => Instance(type, s).svc = s
  BY DEF Instance
<1> QED
  BY <1>2, <1>3, <1>4, <1>5, Scopes DEF Out, Manager, In

\* The one up next is a dependency, and nothing to visit comes before it.
LEMMA NextEntry ==
    ASSUME NEW h, NEW mw \in UpNext(h)
    PROVE  \E e \in Dependencies(Top(h)) :
              /\ e[4] = mw
              /\ e[1] = 2 => mw \in Created
              /\ \A f \in Dependencies(Top(h)) :
                    f[4] \notin visited[h] /\ (f[1] = 2 => f[4] \in Created) => NotAfter(e, f)
  BY DEF UpNext, ToVisit

\* An entry of a list of dependencies of which there is one for each service.
LEMMA EachEntry ==
    ASSUME NEW mw, NEW k \in 1 .. 2, NEW i, NEW d, NEW s \in 1 .. Services,
           LET declared == <<DeclaredBy(mw).needs, DeclaredBy(mw).supports>>
           IN  i \in DOMAIN declared[k] /\ declared[k][i] = d
    PROVE  <<k, i, s, Resolve(mw, d, s)>> \in Dependencies(mw)
  BY DEF Dependencies

\* Mandatory dependencies are visited before the others.
LEMMA NeedsFirstVisited ==
    ASSUME TypeOK, NEW h \in Hubs, Top(h) \in Created,
           NEW mw \in UpNext(h), mw \notin Needs(Top(h))
    PROVE  Needs(Top(h)) \subseteq visited[h]
<1>1. PICK e \in Dependencies(Top(h)) :
         /\ e[4] = mw
         /\ \A f \in Dependencies(Top(h)) :
               f[4] \notin visited[h] /\ (f[1] = 2 => f[4] \in Created) => NotAfter(e, f)
  BY NextEntry
<1>2. e[1] = 2
  BY <1>1, DeclaredDependency
<1> SUFFICES ASSUME NEW x \in Needs(Top(h)), x \notin visited[h] PROVE FALSE
  OBVIOUS
<1>3. PICK i \in DOMAIN DeclaredBy(Top(h)).needs, s \in 1 .. Services :
         x = Resolve(Top(h), DeclaredBy(Top(h)).needs[i], s)
  BY DEF Needs, ToSet
<1>4. <<1, i, s, x>> \in Dependencies(Top(h))
  BY <1>3, EachEntry
<1>5. NotAfter(e, <<1, i, s, x>>)
  BY <1>1, <1>4
<1> QED
  BY <1>2, <1>5 DEF NotAfter

\* An out queue visits the in queues in the order of their services.
LEMMA OutQueueInTurn ==
    ASSUME TypeOK, NEW h \in Hubs, Top(h) \in Created, Top(h).type = "out_queue",
           NEW mw \in UpNext(h), mw.type = "in_queue", NEW t \in 1 .. Services, t < mw.svc
    PROVE  In(t) \in visited[h]
<1>1. PICK e \in Dependencies(Top(h)) :
         /\ e[4] = mw
         /\ \A f \in Dependencies(Top(h)) :
               f[4] \notin visited[h] /\ (f[1] = 2 => f[4] \in Created) => NotAfter(e, f)
  BY NextEntry
<1> SUFFICES ASSUME In(t) \notin visited[h] PROVE FALSE
  OBVIOUS
<1>2. /\ DeclaredBy(Top(h)).needs = <<Each("in_queue")>>
      /\ DeclaredBy(Top(h)).supports = OutQueue.supports
  BY CreatedTypes DEF Declared, OutQueue
<1>3. \A s : Resolve(Top(h), Each("in_queue"), s) = In(s)
  BY DEF Resolve, Each, In
<1>4. <<1, 1, t, In(t)>> \in Dependencies(Top(h))
  BY <1>2, <1>3, EachEntry
<1>5. NotAfter(e, <<1, 1, t, In(t)>>)
  BY <1>1, <1>4
<1>6. \E i \in DOMAIN <<Each("in_queue")>> : \E s \in 1 .. Services :
         e[1] = 1 => e = <<1, i, s, Resolve(Top(h), <<Each("in_queue")>>[i], s)>>
  BY <1>2, ServicesAssumption DEF Dependencies
<1>7. e[1] = 1 => e[2] = 1 /\ e[4] = In(e[3])
  BY <1>3, <1>6
<1>8. e[1] \in 1 .. 2 /\ e[3] \in 1 .. Services
  BY DeclaredDependency
<1> QED
  BY <1>1, <1>5, <1>7, <1>8 DEF NotAfter, In, Instance, PerHub

\* The API visits its out queues in order, and before all but the web server.
LEMMA ApiInTurn ==
    ASSUME TypeOK, NEW h \in Hubs, Top(h) \in Created, Top(h).type = "api",
           NEW mw \in UpNext(h), NEW t \in 1 .. Services
    PROVE  /\ mw.type = "out_queue" /\ t < mw.svc => Out(t) \in visited[h]
           /\ mw.type \notin {"web_server", "out_queue"} => Out(t) \in visited[h]
<1>1. PICK e \in Dependencies(Top(h)) :
         /\ e[4] = mw
         /\ \A f \in Dependencies(Top(h)) :
               f[4] \notin visited[h] /\ (f[1] = 2 => f[4] \in Created) => NotAfter(e, f)
  BY NextEntry
<1> SUFFICES ASSUME Out(t) \notin visited[h]
             PROVE  mw.type = "web_server" \/ (mw.type = "out_queue" /\ ~(t < mw.svc))
  OBVIOUS
<1>2. DeclaredBy(Top(h)).needs = API.needs /\ DOMAIN API.needs = 1 .. 5
  BY CreatedTypes DEF Declared, API
<1>3. API.needs[1] = Shared("web_server") /\ API.needs[2] = Each("out_queue")
  BY DEF API
<1>4. /\ \A s : Resolve(Top(h), Each("out_queue"), s) = Out(s)
      /\ \A s : Resolve(Top(h), Shared("web_server"), s).type = "web_server"
  BY DEF Resolve, Each, Shared, Out, Instance
<1>5. <<1, 2, t, Out(t)>> \in Dependencies(Top(h))
  BY <1>2, <1>3, <1>4, EachEntry
<1>6. NotAfter(e, <<1, 2, t, Out(t)>>)
  BY <1>1, <1>5
<1>7. e[1] \in 1 .. 2 /\ e[3] \in 1 .. Services
  BY DeclaredDependency
<1>8. e[1] = 1
  BY <1>6, <1>7 DEF NotAfter
<1>9. /\ e[2] \in 1 .. 5
      /\ e[4] = Resolve(Top(h), API.needs[e[2]], e[3])
  BY <1>2, <1>8 DEF Dependencies
<1>10. e[2] = 1 \/ (e[2] = 2 /\ e[3] <= t)
  BY <1>6, <1>8, <1>9 DEF NotAfter
<1> QED
  BY <1>1, <1>3, <1>4, <1>7, <1>9, <1>10 DEF Out, Instance, PerHub

\* An in queue goes through the concurrency manager first.
LEMMA ManagerEntry ==
    ASSUME TypeOK, NEW s \in 1 .. Services, In(s) \in Created
    PROVE  /\ DeclaredBy(In(s)).needs = <<>>
           /\ DeclaredBy(In(s)).supports = <<Own("concurrency_manager"), Stats, Own("delivery")>>
           /\ \A n : Resolve(In(s), Own("concurrency_manager"), n) = Manager(s)
           /\ <<2, 1, 1, Manager(s)>> \in Dependencies(In(s))
           /\ \E e \in Dependencies(In(s)) : e[1] = 2 /\ e[4] = Manager(s)
<1>1. /\ DeclaredBy(In(s)).needs = <<>>
      /\ DeclaredBy(In(s)).supports = <<Own("concurrency_manager"), Stats, Own("delivery")>>
  <2>1. In(s).type = "in_queue"
    BY DEF In, Instance
  <2>2. Declared["in_queue"] = InQueue /\ InQueue.needs = <<>>
    BY DEF Declared, InQueue
  <2> QED
    BY <2>1, <2>2, CreatedTypes, QueueSupports
<1>2. \A n : Resolve(In(s), Own("concurrency_manager"), n) = Manager(s)
  BY DEF Resolve, Own, Manager, In, Instance, PerHub
<1>3. <<2, 1, 1, Manager(s)>> \in Dependencies(In(s))
  <2>1. LET declared == <<DeclaredBy(In(s)).needs, DeclaredBy(In(s)).supports>>
        IN  1 \in DOMAIN declared[2] /\ declared[2][1] = Own("concurrency_manager")
    BY <1>1
  <2>2. 1 \in 1 .. Services
    BY ServicesAssumption
  <2> QED
    BY <1>2, <2>1, <2>2, EachEntry
<1> QED
  BY <1>1, <1>2, <1>3

LEMMA InQueueInTurn ==
    ASSUME TypeOK, NEW h \in Hubs, NEW s \in 1 .. Services, Top(h) = In(s), Top(h) \in Created,
           NEW mw \in UpNext(h)
    PROVE  mw = Manager(s) \/ Manager(s) \in visited[h] \/ Manager(s) \notin Created
<1>1. PICK e \in Dependencies(Top(h)) :
         /\ e[4] = mw
         /\ \A f \in Dependencies(Top(h)) :
               f[4] \notin visited[h] /\ (f[1] = 2 => f[4] \in Created) => NotAfter(e, f)
  BY NextEntry
<1> SUFFICES ASSUME Manager(s) \notin visited[h], Manager(s) \in Created PROVE mw = Manager(s)
  OBVIOUS
<1>2. NotAfter(e, <<2, 1, 1, Manager(s)>>)
  BY <1>1, ManagerEntry
<1>3. e[1] \in 1 .. 2 /\ e[3] \in 1 .. Services
  BY DeclaredDependency
<1>4. /\ DeclaredBy(Top(h)).needs = <<>>
      /\ DeclaredBy(Top(h)).supports = <<Own("concurrency_manager"), Stats, Own("delivery")>>
      /\ \A n : Resolve(Top(h), Own("concurrency_manager"), n) = Manager(s)
  BY ManagerEntry
<1>5. e[1] # 1
  BY <1>4 DEF Dependencies
<1>6. e[2] \in 1 .. 3 /\ e[4] = Resolve(Top(h), DeclaredBy(Top(h)).supports[e[2]], e[3])
  BY <1>3, <1>4, <1>5 DEF Dependencies
<1>7. e[2] = 1
  BY <1>2, <1>3, <1>5, <1>6 DEF NotAfter
<1> QED
  BY <1>1, <1>4, <1>6, <1>7

\* The hub goes through its configuration in order, and through a type by service.
LEMMA HubInTurn ==
    ASSUME TypeOK, OutQueuesFirst, NEW h \in Hubs, Top(h) = TheHub, NEW mw \in UpNext(h)
    PROVE  /\ mw \in Created
           /\ mw.type = "out_queue" =>
                 \A t \in 1 .. Services : t < mw.svc => Out(t) \in visited[h]
           /\ \/ mw.type \in {"api", "out_queue"}
              \/ Declared[mw.type] = None
              \/ \E type \in {"api", "out_queue"} \cap ToSet(manifest.config) :
                    \A t \in 1 .. Services : Instance(type, t) \in visited[h]
<1> DEFINE config == manifest.config
<1>1. PICK e \in Dependencies(TheHub) :
         /\ e[4] = mw
         /\ \A f \in Dependencies(TheHub) :
               f[4] \notin visited[h] /\ (f[1] = 2 => f[4] \in Created) => NotAfter(e, f)
  BY NextEntry
<1>2. /\ DeclaredBy(TheHub).needs = [i \in DOMAIN config |-> Each(config[i])]
      /\ DeclaredBy(TheHub).supports = <<>>
  BY DEF DeclaredBy, Middlewares
<1>3. \A type, s : Resolve(TheHub, Each(type), s) = Instance(type, s)
  BY DEF Resolve, Each
<1>4. \A i \in DOMAIN config, t \in 1 .. Services :
         <<1, i, t, Instance(config[i], t)>> \in Dependencies(TheHub)
  BY <1>2, <1>3, EachEntry
<1>5. /\ e[1] = 1 /\ e[2] \in DOMAIN config /\ e[3] \in 1 .. Services
      /\ mw = Instance(config[e[2]], e[3])
  <2>1. PICK k \in 1 .. 2 :
           LET declared == <<DeclaredBy(TheHub).needs, DeclaredBy(TheHub).supports>>
           IN  e \in {<<k, i, s, Resolve(TheHub, declared[k][i], s)>> :
                         i \in DOMAIN declared[k], s \in 1 .. Services}
    BY DEF Dependencies
  <2>2. k = 1
    <3>1. DOMAIN DeclaredBy(TheHub).supports = {}
      BY <1>2
    <3> QED
      BY <2>1, <3>1
  <2>3. PICK i \in DOMAIN config, s \in 1 .. Services :
           e = <<1, i, s, Resolve(TheHub, DeclaredBy(TheHub).needs[i], s)>>
    BY <1>2, <2>1, <2>2
  <2> QED
    BY <1>1, <1>2, <1>3, <2>3
<1>6. DOMAIN config \subseteq Nat /\ \A i \in DOMAIN config : config[i] \in DOMAIN Declared
  <2>1. config \in Seq(DOMAIN Declared)
    BY ManifestsAssumption DEF TypeOK, Manifest
  <2> QED
    BY <2>1, ElementOfSeq, LenProperties
<1>7. ASSUME NEW i \in DOMAIN config, NEW t \in 1 .. Services,
             Instance(config[i], t) \notin visited[h]
      PROVE  e[2] < i \/ (e[2] = i /\ e[3] <= t)
  <2> DEFINE f == <<1, i, t, Instance(config[i], t)>>
  <2>1. f \in Dependencies(TheHub) /\ f[4] \notin visited[h] /\ f[1] # 2
    BY <1>4, <1>7
  <2>2. NotAfter(e, f)
    BY <1>1, <2>1
  <2> QED
    BY <1>5, <2>2 DEF NotAfter
<1>8. mw \in Created
  BY <1>5 DEF Created, ToSet
<1>9. mw.type = config[e[2]] /\ (mw.type \notin PerHub => mw.svc = e[3])
  BY <1>5 DEF Instance
<1>10. mw.type = "out_queue" => \A t \in 1 .. Services : t < mw.svc => Out(t) \in visited[h]
  <2> SUFFICES ASSUME mw.type = "out_queue", NEW t \in 1 .. Services, t < mw.svc,
                      Out(t) \notin visited[h]
               PROVE  FALSE
    OBVIOUS
  <2>1. mw.svc = e[3] /\ Instance(config[e[2]], t) = Out(t)
    BY <1>9 DEF PerHub, Out
  <2>2. e[2] < e[2] \/ e[3] <= t
    BY <1>5, <1>7, <2>1
  <2> QED
    BY <1>5, <1>6, <2>1, <2>2
<1>11. PICK k \in DOMAIN config : /\ config[k] \in {"api", "out_queue"}
                                 /\ \A j \in 1 .. k - 1 : Declared[config[j]] = None
  BY DEF OutQueuesFirst
<1>12. CASE e[2] < k
  <2>1. e[2] \in 1 .. k - 1
    <3>1. config \in Seq(DOMAIN Declared)
      BY ManifestsAssumption DEF TypeOK, Manifest
    <3> QED
      BY <1>5, <1>11, <1>12, <3>1, LenProperties
  <2> QED
    BY <1>8, <1>9, <1>10, <1>11, <2>1
<1>13. CASE e[2] = k
  BY <1>8, <1>9, <1>10, <1>11, <1>13
<1>14. CASE k < e[2]
  <2>1. \A t \in 1 .. Services : Instance(config[k], t) \in visited[h]
    BY <1>5, <1>6, <1>7, <1>14
  <2> QED
    BY <1>8, <1>10, <1>11, <2>1 DEF ToSet
<1> QED
  BY <1>5, <1>6, <1>12, <1>13, <1>14

\* An out queue needs all in queues.
LEMMA OutQueueNeeds ==
    ASSUME NEW p
    PROVE  Needs(Out(p)) = {In(s) : s \in 1 .. Services}
<1>1. DeclaredBy(Out(p)).needs = <<Each("in_queue")>>
  BY DEF DeclaredBy, Out, Instance, TheHub, Declared, OutQueue
<1>2. ToSet(DeclaredBy(Out(p)).needs) = {Each("in_queue")}
  BY <1>1, ShortSequences
<1>3. \A s : Resolve(Out(p), Each("in_queue"), s) = In(s)
  BY DEF Resolve, Each, In
<1> QED
  BY <1>2, <1>3 DEF Needs

\* An out queue or an API that is initialised has had all in queues visited.
LEMMA InQueuesVisited ==
    ASSUME TypeOK, BootInv, NEW h \in Hubs, NEW mw \in initialized[h],
           mw.type = "out_queue" \/ (mw.type = "api" /\ stack[h] = <<>>)
    PROVE  \A s \in 1 .. Services : In(s) \in visited[h]
<1>1. Needs(mw) \subseteq visited[h] /\ mw \in Created
  BY DEF BootInv, Provided, TypeOK
<1>2. CASE mw.type = "out_queue"
  BY <1>1, <1>2, CreatedTypes, OutQueueNeeds DEF Out
<1>3. CASE mw.type = "api" /\ stack[h] = <<>>
  <2>1. 1 \in 1 .. Services
    BY ServicesAssumption
  <2>2. mw = Instance("api", 0)
    BY <1>1, <1>3, CreatedTypes DEF Instance, PerHub
  <2>3. Out(1) \in visited[h]
    BY <1>1, <2>1, <2>2, ApiNeedsOutQueues DEF Out, Instance, PerHub
  <2>4. Out(1) \in initialized[h]
    BY <1>3, <2>3, NoCalls DEF BootInv, EachOnce
  <2>5. Needs(Out(1)) \subseteq visited[h]
    BY <2>4 DEF BootInv, Provided
  <2> QED
    BY <2>5, OutQueueNeeds
<1> QED
  BY <1>2, <1>3

-----------------------------------------------------------------------------
(* What a stack of calls can look like.                                    *)

\* Each call on a stack is for a created middleware, and for a dependency.
LEMMA CallOnStack ==
    ASSUME TypeOK, NEW h \in Hubs, Called(h), NEW i \in DOMAIN stack[h]
    PROVE  /\ i \in 1 .. Len(stack[h]) /\ Len(stack[h]) \in Nat
           /\ stack[h][i] \in Created
           /\ i < Len(stack[h]) => /\ i + 1 \in DOMAIN stack[h]
                                   /\ \E e \in Dependencies(stack[h][i]) : e[4] = stack[h][i + 1]
           /\ i > 1 => /\ i - 1 \in DOMAIN stack[h]
                       /\ \E e \in Dependencies(stack[h][i - 1]) : e[4] = stack[h][i]
<1>1. stack[h] \in Seq(Created)
  BY DEF TypeOK
<1>2. DOMAIN stack[h] = 1 .. Len(stack[h]) /\ Len(stack[h]) \in Nat
  BY <1>1, LenProperties
<1>3. stack[h][i] \in Created
  BY <1>1, <1>2, ElementOfSeq
<1>4. i < Len(stack[h]) => /\ i + 1 \in DOMAIN stack[h]
                          /\ \E e \in Dependencies(stack[h][i]) : e[4] = stack[h][i + 1]
  BY <1>2 DEF Called
<1>5. i > 1 => /\ i - 1 \in DOMAIN stack[h]
               /\ \E e \in Dependencies(stack[h][i - 1]) : e[4] = stack[h][i]
  <2> SUFFICES ASSUME i > 1
               PROVE  /\ i - 1 \in DOMAIN stack[h]
                      /\ \E e \in Dependencies(stack[h][i - 1]) : e[4] = stack[h][i]
    OBVIOUS
  <2>1. i - 1 \in DOMAIN stack[h] /\ i = (i - 1) + 1
    BY <1>2
  <2> QED
    BY <2>1 DEF Called
<1> QED
  BY <1>2, <1>3, <1>4, <1>5

\* Nothing is called by the hub only, but the monitor and the inspector.
LEMMA ApiAtBottom ==
    ASSUME TypeOK, NEW h \in Hubs, Called(h), NEW i \in DOMAIN stack[h]
    PROVE  /\ stack[h][i].type \in {"monitor", "inspector"} => i = 1
           /\ stack[h][i].type = "api" =>
                 \A j \in DOMAIN stack[h] : j < i => stack[h][j].type = "inspector"
<1>1. ASSUME NEW j \in DOMAIN stack[h], stack[h][j].type \in {"monitor", "inspector"}
      PROVE  j = 1
  <2>1. CASE j > 1
    BY <1>1, <2>1, CallOnStack, Edges
  <2> QED
    BY <2>1, CallOnStack
<1>2. ASSUME stack[h][i].type = "api", NEW j \in DOMAIN stack[h], j < i
      PROVE  stack[h][j].type = "inspector"
  <2>1. i > 1 /\ i - 1 \in DOMAIN stack[h]
    BY <1>2, CallOnStack
  <2>2. stack[h][i - 1].type = "inspector"
    BY <1>2, <2>1, CallOnStack, Edges
  <2>3. i - 1 = 1
    BY <1>1, <2>1, <2>2
  <2> QED
    BY <1>2, <2>2, <2>3, CallOnStack
<1> QED
  BY <1>1, <1>2

\* Only what depends on something has calls above it.
LEMMA NoneAtTop ==
    ASSUME TypeOK, NEW h \in Hubs, Called(h), NEW i \in DOMAIN stack[h],
           Declared[stack[h][i].type] = None
    PROVE  i = Len(stack[h])
  BY CallOnStack, Edges

-----------------------------------------------------------------------------
(* The order of one hub's visits.                                          *)

InOrder(h) == Called(h) /\ QueuesInTurn(h) /\ ManagerNext(h) /\ QueuesNested(h)

\* What is on the stack is visited and not initialised; the top is what calls.
LEMMA OnStack ==
    ASSUME TypeOK, BootInv, NEW h \in Hubs
    PROVE  /\ stack[h] = <<>> => Top(h) = TheHub /\ visited[h] = initialized[h]
           /\ stack[h] # <<>> => /\ Len(stack[h]) \in DOMAIN stack[h]
                                 /\ Top(h) = stack[h][Len(stack[h])]
                                 /\ Top(h) \in Created /\ Top(h) \in visited[h]
           /\ \A i \in DOMAIN stack[h] :
                 stack[h][i] \in visited[h] /\ stack[h][i] \notin initialized[h]
           /\ \A mw \in visited[h] \ initialized[h] : \E i \in DOMAIN stack[h] : mw = stack[h][i]
           /\ visited[h] \subseteq Created
<1>1. /\ visited[h] = initialized[h] \cup ToSet(stack[h])
      /\ initialized[h] \cap ToSet(stack[h]) = {}
  BY DEF BootInv, EachOnce
<1>2. stack[h] = <<>> => Top(h) = TheHub /\ visited[h] = initialized[h]
  BY <1>1, NoCalls DEF Top
<1>3. ToSet(stack[h]) = {stack[h][i] : i \in DOMAIN stack[h]}
  BY DEF ToSet
<1>4. ASSUME stack[h] # <<>>
      PROVE  Len(stack[h]) \in DOMAIN stack[h] /\ Top(h) = stack[h][Len(stack[h])]
  <2>1. stack[h] \in Seq(Created)
    BY DEF TypeOK
  <2>2. Len(stack[h]) \in DOMAIN stack[h]
    BY <1>4, <2>1, EmptySeq, LenProperties
  <2> QED
    BY <1>4, <2>2 DEF Top, Last
<1>5. visited[h] \subseteq Created
  BY DEF TypeOK
<1> QED
  BY <1>1, <1>2, <1>3, <1>4, <1>5

LEMMA QueueTypes ==
    /\ \A type \in {"in_queue", "bulk"} : Declared[type] # None
    /\ \A type \in {"web_server", "stats_reporter"} : Declared[type] = None
    /\ \A s : /\ In(s) = [type |-> "in_queue", svc |-> s]
              /\ Out(s) = [type |-> "out_queue", svc |-> s]
              /\ Manager(s) = [type |-> "concurrency_manager", svc |-> s]
              /\ Instance("bulk", s) = [type |-> "bulk", svc |-> s]
    /\ TheHub.type = "hub"
<1>1. Declared["in_queue"] = InQueue /\ Declared["bulk"] = Bulk
  BY DEF Declared
<1>2. Declared["in_queue"] # None /\ Declared["bulk"] # None
  BY <1>1, QueueSupports DEF None
<1>3. \A type \in {"web_server", "stats_reporter"} : Declared[type] = None
  BY DEF Declared
<1> QED
  BY <1>2, <1>3 DEF In, Out, Manager, Instance, PerHub, TheHub

LEMMA ManagersDepend ==
    /\ Declared["concurrency_manager"] # None
    /\ \A s : Out(s) \in Needs(Manager(s)) /\ DeclaredBy(Manager(s)) = ConcurrencyManager
<1>1. Declared["concurrency_manager"] = ConcurrencyManager
  BY DEF Declared
<1>2. ToSet(ConcurrencyManager.needs) = {Own("in_queue"), Own("out_queue")}
  BY ShortSequences DEF ConcurrencyManager
<1>3. Declared["concurrency_manager"] # None
  BY <1>1, <1>2, ShortSequences DEF None
<1>4. \A s : DeclaredBy(Manager(s)) = ConcurrencyManager
  BY <1>1, QueueTypes DEF DeclaredBy, TheHub
<1>5. \A s, t : Resolve(Manager(s), Own("out_queue"), t) = Out(s)
  BY DEF Resolve, Own, Out, Manager, Instance, PerHub
<1>6. 1 \in 1 .. Services
  BY ServicesAssumption
<1>7. \A s : Out(s) \in Needs(Manager(s))
  BY <1>2, <1>4, <1>5, <1>6 DEF Needs
<1> QED
  BY <1>3, <1>4, <1>7

\* The queues among what is created.
LEMMA CreatedQueues ==
    ASSUME TypeOK, NEW mw \in Created
    PROVE  /\ mw.type = "in_queue" => mw = In(mw.svc)
           /\ mw.type = "out_queue" => mw = Out(mw.svc)
           /\ mw.type = "concurrency_manager" => mw = Manager(mw.svc)
           /\ mw.type \notin PerHub => mw.svc \in 1 .. Services
  BY CreatedTypes DEF In, Out, Manager

\* If the hub reaches what depends on something, the in queues have been visited.
LEMMA HubAfterQueues ==
    ASSUME TypeOK, BootInv, OutQueuesFirst, NEW h \in Hubs, stack[h] = <<>>,
           NEW mw \in UpNext(h), Declared[mw.type] # None, mw.type \notin {"api", "out_queue"}
    PROVE  \A s \in 1 .. Services : In(s) \in visited[h]
<1>1. Top(h) = TheHub /\ visited[h] = initialized[h]
  BY OnStack
<1>2. PICK type \in {"api", "out_queue"} :
         \A t \in 1 .. Services : Instance(type, t) \in visited[h]
  BY <1>1, HubInTurn
<1>3. 1 \in 1 .. Services
  BY ServicesAssumption
<1>4. Instance(type, 1) \in initialized[h] /\ Instance(type, 1).type = type
  BY <1>1, <1>2, <1>3 DEF Instance
<1> QED
  BY <1>2, <1>4, InQueuesVisited

\* Nor does an out queue reach anything else before the in queues.
LEMMA OutQueueAfterQueues ==
    ASSUME TypeOK, NEW h \in Hubs, Top(h) \in Created, Top(h).type = "out_queue",
           NEW mw \in UpNext(h), mw.type # "in_queue"
    PROVE  \A s \in 1 .. Services : In(s) \in visited[h]
<1>1. Needs(Top(h)) = {In(s) : s \in 1 .. Services}
  BY CreatedQueues, OutQueueNeeds
<1>2. mw \notin Needs(Top(h))
  BY <1>1, QueueTypes
<1> QED
  BY <1>1, <1>2, NeedsFirstVisited

\* Once the API has visited an out queue, all in queues have been.
LEMMA ApiQueues ==
    ASSUME TypeOK, BootInv, NEW h \in Hubs, Called(h), stack[h] # <<>>, Top(h).type = "api",
           Out(1) \in visited[h]
    PROVE  \A s \in 1 .. Services : In(s) \in visited[h]
<1> DEFINE n == Len(stack[h])
<1>1. n \in DOMAIN stack[h] /\ Top(h) = stack[h][n]
  BY OnStack
<1>2. ASSUME NEW i \in DOMAIN stack[h], stack[h][i] = Out(1)
      PROVE  FALSE
  <2>1. i < n \/ i = n
    BY <1>1, CallOnStack
  <2> QED
    BY <1>1, <1>2, <2>1, ApiAtBottom, QueueTypes
<1>3. Out(1) \in initialized[h] /\ Out(1).type = "out_queue"
  BY <1>2, OnStack, QueueTypes
<1> QED
  BY <1>3, InQueuesVisited

\* It reaches nothing else before, but the web server.
LEMMA ApiAfterQueues ==
    ASSUME TypeOK, BootInv, NEW h \in Hubs, Called(h), stack[h] # <<>>, Top(h).type = "api",
           NEW mw \in UpNext(h),
           mw.type \notin {"web_server", "out_queue"} \/ (mw.type = "out_queue" /\ 1 < mw.svc)
    PROVE  Out(1) \in visited[h] /\ \A s \in 1 .. Services : In(s) \in visited[h]
<1>1. Top(h) \in Created /\ 1 \in 1 .. Services
  BY OnStack, ServicesAssumption
<1>2. Out(1) \in visited[h]
  BY <1>1, ApiInTurn
<1> QED
  BY <1>2, ApiQueues

\* What calls for a dependency has had the in queue of its service visited.
LEMMA CallerAfterQueue ==
    ASSUME TypeOK, BootInv, NEW h \in Hubs, QueuesInTurn(h), stack[h] # <<>>,
           Declared[Top(h).type] # None, Top(h).type \notin PerHub \cup {"out_queue"}
    PROVE  In(Top(h).svc) \in visited[h]
<1>1. Top(h) \in Created /\ Top(h) \in visited[h]
  BY OnStack
<1>2. CASE Top(h).type = "in_queue"
  BY <1>1, <1>2, CreatedQueues
<1>3. CASE Top(h).type # "in_queue"
  BY <1>1, <1>3 DEF QueuesInTurn
<1> QED
  BY <1>2, <1>3

\* Every middleware but the queues follows the in queue of its service.
LEMMA OthersAfterQueue ==
    ASSUME TypeOK, BootInv, OutQueuesFirst, NEW h \in Hubs, InOrder(h),
           NEW mw \in UpNext(h) \cap Created, Declared[mw.type] # None,
           mw.type \notin PerHub \cup {"out_queue", "in_queue"}
    PROVE  In(mw.svc) \in visited[h]
<1>1. mw.svc \in 1 .. Services /\ mw.type # "api"
  BY CreatedQueues DEF PerHub
<1>2. CASE stack[h] = <<>>
  BY <1>1, <1>2, HubAfterQueues
<1>3. CASE stack[h] # <<>> /\ Top(h).type = "api"
  <2>1. mw.type # "web_server"
    BY QueueTypes
  <2> QED
    BY <1>1, <1>3, <2>1, ApiAfterQueues DEF InOrder
<1>4. CASE stack[h] # <<>> /\ Top(h).type = "out_queue"
  BY <1>1, <1>4, OnStack, OutQueueAfterQueues
<1>5. CASE stack[h] # <<>> /\ Top(h).type = "bulk"
  BY <1>1, <1>5, OnStack DEF InOrder, QueuesInTurn
<1>6. CASE stack[h] # <<>> /\ Top(h).type \notin {"api", "out_queue", "bulk"}
  <2>1. Top(h) \in Created
    BY <1>6, OnStack
  <2>2. mw.svc = Top(h).svc /\ Top(h).type \notin PerHub /\ Declared[Top(h).type] # None
    BY <1>6, <2>1, NextEntry, Edges
  <2> QED
    BY <1>6, <2>2, CallerAfterQueue DEF InOrder
<1> QED
  BY <1>2, <1>3, <1>4, <1>5, <1>6

\* An in queue is visited from an out queue.
LEMMA InQueueCaller ==
    ASSUME TypeOK, BootInv, OutQueuesFirst, NEW h \in Hubs, InOrder(h),
           NEW mw \in UpNext(h) \cap Created, mw.type = "in_queue"
    PROVE  stack[h] # <<>> /\ Top(h).type = "out_queue"
<1>1. mw = In(mw.svc) /\ mw.svc \in 1 .. Services /\ mw \notin visited[h]
  BY CreatedQueues, NextIsUnvisited DEF PerHub
<1>2. stack[h] # <<>>
  BY <1>1, QueueTypes, HubAfterQueues
<1>3. Top(h) \in Created /\ Top(h) \in visited[h]
  BY <1>2, OnStack
<1>4. Top(h).type # "bulk"
  BY <1>1, <1>3 DEF InOrder, QueuesInTurn
<1> SUFFICES ASSUME Top(h).type # "out_queue" PROVE FALSE
  BY <1>2
<1>5. /\ Top(h).type \notin PerHub /\ mw = In(Top(h).svc)
      /\ Declared[Top(h).type] # None
  BY <1>3, <1>4, NextEntry, Edges
<1> QED
  BY <1>1, <1>2, <1>5, CallerAfterQueue DEF InOrder

\* The first out queue comes first, the others after the in queues beside them, and
\* one that an in queue waits for is of no earlier service, and not of the first.
LEMMA OutQueueCaller ==
    ASSUME TypeOK, BootInv, OutQueuesFirst, NEW h \in Hubs, InOrder(h),
           NEW mw \in UpNext(h) \cap Created, mw.type = "out_queue"
    PROVE  /\ mw = Out(1) \/ Out(1) \in visited[h]
           /\ 1 < mw.svc => In(mw.svc) \in visited[h]
           /\ \A i \in DOMAIN stack[h] :
                 stack[h][i].type = "in_queue" => 1 < stack[h][i].svc /\ stack[h][i].svc <= mw.svc
<1> DEFINE n == Len(stack[h])
<1>1. mw = Out(mw.svc) /\ mw.svc \in 1 .. Services /\ mw \notin visited[h]
  BY CreatedQueues, NextIsUnvisited DEF PerHub
<1>2. 1 \in 1 .. Services
  BY ServicesAssumption
<1>a. stack[h] # <<>> => /\ n \in DOMAIN stack[h] /\ Top(h) = stack[h][n]
                         /\ Top(h) \in Created /\ Top(h) \in visited[h]
  BY OnStack
<1>b. \A i \in DOMAIN stack[h] : i \in 1 .. n /\ n \in Nat
  BY CallOnStack DEF InOrder
<1>3. CASE stack[h] = <<>>
  <2>1. mw = Out(1) \/ Out(1) \in initialized[h]
    BY <1>1, <1>2, <1>3, HubInTurn, OnStack
  <2>2. Out(1) \in initialized[h] => \A s \in 1 .. Services : In(s) \in visited[h]
    BY InQueuesVisited, QueueTypes
  <2> QED
    BY <1>1, <1>3, <2>1, <2>2, OnStack, QueueTypes
<1>4. CASE stack[h] # <<>> /\ Top(h).type = "api"
  <2>1. mw = Out(1) \/ Out(1) \in visited[h]
    BY <1>1, <1>2, <1>a, <1>4, ApiInTurn
  <2>2. ASSUME NEW i \in DOMAIN stack[h]
        PROVE  stack[h][i].type # "in_queue"
    <3>1. i < n \/ i = n
      BY <1>b, <2>2
    <3> QED
      BY <1>a, <1>4, <3>1, ApiAtBottom DEF InOrder
  <2>3. 1 < mw.svc => In(mw.svc) \in visited[h]
    BY <1>1, <1>4, ApiAfterQueues DEF InOrder
  <2> QED
    BY <2>1, <2>2, <2>3
<1>5. ASSUME stack[h] # <<>>, Top(h).type \in {"concurrency_manager", "monitor"}
      PROVE  /\ mw = Out(Top(h).svc) /\ mw.svc = Top(h).svc
             /\ In(mw.svc) \in visited[h] /\ Out(1) \in visited[h] /\ 1 < mw.svc
  <2>1. mw = Out(Top(h).svc) /\ Declared[Top(h).type] # None
    BY <1>a, <1>5, NextEntry, Edges
  <2>2. mw.svc = Top(h).svc
    BY <2>1, QueueTypes
  <2>3. In(mw.svc) \in visited[h]
    BY <1>5, <2>1, <2>2, CallerAfterQueue DEF InOrder, PerHub
  <2>4. Out(1) \in visited[h]
    BY <2>3, QueueTypes DEF InOrder, QueuesInTurn
  <2> QED
    BY <1>1, <2>1, <2>2, <2>3, <2>4
<1>6. CASE stack[h] # <<>> /\ Top(h).type = "monitor"
  <2>1. n = 1
    BY <1>a, <1>6, ApiAtBottom DEF InOrder
  <2> QED
    BY <1>a, <1>b, <1>5, <1>6, <2>1
<1>7. CASE stack[h] # <<>> /\ Top(h).type = "concurrency_manager"
  <2> SUFFICES ASSUME NEW i \in DOMAIN stack[h], stack[h][i].type = "in_queue"
               PROVE  1 < stack[h][i].svc /\ stack[h][i].svc <= mw.svc
    BY <1>5, <1>7
  <2> DEFINE below == stack[h][n - 1]
  <2>1. i < n
    BY <1>a, <1>b, <1>7
  <2>2. n > 1
    BY <1>b, <2>1
  <2>3. n - 1 \in DOMAIN stack[h] /\ \E e \in Dependencies(below) : e[4] = Top(h)
    BY <1>a, <1>7, <2>2, CallOnStack DEF InOrder
  <2>4. below \in Created /\ below \in visited[h]
    BY <2>3, OnStack
  <2>5. below.type \in {"in_queue", "out_queue", "bulk"} /\ below.svc = Top(h).svc
    BY <1>7, <2>3, <2>4, Edges, QueueTypes
  <2>6. below.type # "out_queue"
    BY <1>1, <1>5, <1>7, <2>4, <2>5, CreatedQueues
  <2>7. below.type # "bulk"
    <3>1. n = (n - 1) + 1
      BY <1>a, <1>b, <1>7
    <3> QED
      BY <1>a, <1>7, <2>3, <3>1 DEF InOrder, QueuesNested
  <2>8. below.type = "in_queue" /\ below.svc = mw.svc
    BY <1>5, <1>7, <2>5, <2>6, <2>7
  <2>9. CASE i = n - 1
    BY <1>1, <1>5, <1>7, <2>8, <2>9
  <2>10. CASE i # n - 1
    <3>1. i < n - 1
      BY <1>b, <2>1, <2>10
    <3>2. 1 < stack[h][i].svc /\ stack[h][i].svc < below.svc
      BY <2>3, <2>8, <3>1 DEF InOrder, QueuesNested
    <3>3. stack[h][i].svc \in 1 .. Services
      BY OnStack, CreatedQueues DEF PerHub
    <3> QED
      BY <1>1, <2>8, <3>2, <3>3
  <2> QED
    BY <2>9, <2>10
<1> QED
  BY <1>3, <1>4, <1>6, <1>7, <1>a, NextEntry, Edges

\* The bulk consumers follow all in queues.
LEMMA BulkAfterQueues ==
    ASSUME TypeOK, BootInv, OutQueuesFirst, NEW h \in Hubs,
           NEW mw \in UpNext(h) \cap Created, mw.type = "bulk"
    PROVE  \A s \in 1 .. Services : In(s) \in visited[h]
<1>1. CASE stack[h] = <<>>
  BY <1>1, QueueTypes, HubAfterQueues
<1>2. CASE stack[h] # <<>>
  <2>1. Top(h) \in Created
    BY <1>2, OnStack
  <2>2. Top(h).type = "out_queue"
    BY <2>1, NextEntry, Edges
  <2> QED
    BY <2>1, <2>2, OutQueueAfterQueues
<1> QED
  BY <1>1, <1>2

\* With all in queues visited, a bulk consumer has the statistics left.
LEMMA BulkCalls ==
    ASSUME TypeOK, BootInv, NEW h \in Hubs, InOrder(h), stack[h] # <<>>, Top(h).type = "bulk",
           NEW mw \in UpNext(h) \cap Created
    PROVE  mw.type = "stats_reporter"
<1>1. Top(h) \in Created /\ Top(h) \in visited[h] /\ mw \notin visited[h]
  BY OnStack, NextIsUnvisited
<1>2. Top(h).svc \in 1 .. Services /\ \A s \in 1 .. Services : In(s) \in visited[h]
  BY <1>1, CreatedQueues DEF InOrder, QueuesInTurn, PerHub
<1>3. mw.type # "in_queue"
  BY <1>1, <1>2, CreatedQueues DEF PerHub
<1>4. mw.type # "concurrency_manager"
  <2>1. Top(h) # In(Top(h).svc)
    BY QueueTypes
  <2>2. Manager(Top(h).svc) \in visited[h] \/ Manager(Top(h).svc) \notin Created
    BY <1>2, <2>1 DEF InOrder, ManagerNext
  <2>3. mw.type = "concurrency_manager" => mw = Manager(Top(h).svc)
    BY <1>1, NextEntry, Edges
  <2> QED
    BY <1>1, <2>2, <2>3
<1> QED
  BY <1>1, <1>3, <1>4, NextEntry, Edges

-----------------------------------------------------------------------------
(* The order is kept.                                                      *)

\* What a middleware depends on does not change either.
LEMMA DependenciesKept ==
    ASSUME [Next]_vars
    PROVE  /\ \A mw : Dependencies(mw)' = Dependencies(mw)
           /\ Resolvable' = Resolvable /\ OutQueuesFirst' = OutQueuesFirst
           /\ Bootable' = Bootable
<1>1. manifest' = manifest
  BY ManifestKept
<1>2. Middlewares' = Middlewares
  BY <1>1 DEF Middlewares
<1>3. \A mw : DeclaredBy(mw)' = DeclaredBy(mw)
  BY <1>2 DEF DeclaredBy
<1>4. \A mw : Dependencies(mw)' = Dependencies(mw)
  BY <1>3 DEF Dependencies
<1>5. Resolvable' = Resolvable /\ OutQueuesFirst' = OutQueuesFirst
  BY <1>1 DEF Resolvable, OutQueuesFirst
<1> QED
  BY <1>1, <1>4, <1>5 DEF Bootable, LateFeed

\* A hub whose calls and visits a step leaves alone.
LEMMA OrderFramed ==
    ASSUME [Next]_vars, NEW h, InOrder(h), stack'[h] = stack[h], visited'[h] = visited[h]
    PROVE  InOrder(h)'
<1>1. Called(h)'
  BY DependenciesKept DEF InOrder, Called
<1>2. QueuesInTurn(h)'
  BY DEF InOrder, QueuesInTurn
<1>3. ManagerNext(h)'
  BY ManifestKept DEF InOrder, ManagerNext, Top
<1>4. QueuesNested(h)'
  BY DEF InOrder, QueuesNested
<1> QED
  BY <1>1, <1>2, <1>3, <1>4 DEF InOrder

\* A hub that has no call under way and has visited nothing.
LEMMA OrderEmpty ==
    ASSUME NEW h, stack[h] = <<>>, visited[h] = {}
    PROVE  InOrder(h)
  BY DEF InOrder, Called, QueuesInTurn, ManagerNext, QueuesNested

LEMMA OrderVisit ==
    ASSUME TypeOK, BootInv, OutQueuesFirst, NEW h \in Hubs, InOrder(h), Visit(h)
    PROVE  InOrder(h)'
<1>a. [Next]_vars
  BY DEF Next, BootProceeds
<1>1. PICK mw \in UpNext(h) \cap Created :
         /\ stack' = [stack EXCEPT ![h] = Append(@, mw)]
         /\ visited' = [visited EXCEPT ![h] = @ \cup {mw}]
  BY DEF Visit
<1> DEFINE n == Len(stack[h])
<1>2. /\ stack[h] \in Seq(Created) /\ stack'[h] = Append(stack[h], mw)
      /\ visited'[h] = visited[h] \cup {mw}
  BY <1>1 DEF TypeOK
<1>3. /\ n \in Nat /\ DOMAIN stack[h] = 1 .. n /\ DOMAIN stack'[h] = 1 .. n + 1
      /\ \A i \in 1 .. n : stack'[h][i] = stack[h][i]
      /\ stack'[h][n + 1] = mw
  BY <1>2, LenProperties, AppendProperties
<1>4. Top(h)' = mw
  <2>1. stack'[h] # <<>> /\ Len(stack'[h]) = n + 1
    BY <1>2, <1>3, AppendProperties, EmptySeq, LenProperties
  <2> QED
    BY <1>3, <2>1 DEF Top, Last
<1>5. n \in DOMAIN stack[h] => stack[h] # <<>>
  BY <1>2, <1>3, EmptySeq
<1>6. Called(h)'
  <2> SUFFICES ASSUME NEW i \in DOMAIN stack'[h], i + 1 \in DOMAIN stack'[h]
               PROVE  stack'[h][i + 1] \in {d[4] : d \in Dependencies(stack'[h][i])}
    BY <1>a, DependenciesKept DEF Called
  <2>1. CASE i + 1 \in 1 .. n
    BY <1>3, <2>1 DEF InOrder, Called
  <2>2. CASE i + 1 \notin 1 .. n
    <3>1. i = n /\ n \in DOMAIN stack[h]
      BY <1>3, <2>2
    <3>2. Top(h) = stack[h][n]
      BY <1>5, <3>1, OnStack
    <3> QED
      BY <1>3, <3>1, <3>2, NextEntry
  <2> QED
    BY <2>1, <2>2
<1>7. QueuesInTurn(h)'
  <2> SUFFICES ASSUME NEW x \in visited'[h]
               PROVE  /\ x.type \in {"in_queue", "out_queue"} => Out(1) \in visited'[h]
                      /\ x.type = "out_queue" /\ 1 < x.svc => In(x.svc) \in visited'[h]
                      /\ x.type = "in_queue" => \A s \in 1 .. x.svc : In(s) \in visited'[h]
                      /\ x.type = "bulk" => \A s \in 1 .. Services : In(s) \in visited'[h]
                      /\ Declared[x.type] # None /\ x.type \notin PerHub \cup {"out_queue"}
                            => In(x.svc) \in visited'[h]
    BY DEF QueuesInTurn
  <2>1. CASE x \in visited[h]
    BY <1>2, <2>1 DEF InOrder, QueuesInTurn
  <2>2. CASE x = mw /\ x.type = "in_queue"
    <3>1. stack[h] # <<>> /\ Top(h).type = "out_queue"
      BY <2>2, InQueueCaller
    <3>2. Top(h) \in Created /\ Top(h) \in visited[h]
      BY <3>1, OnStack
    <3>3. Out(1) \in visited[h]
      BY <3>1, <3>2 DEF InOrder, QueuesInTurn
    <3>4. x = In(x.svc) /\ x.svc \in 1 .. Services
      BY <2>2, CreatedQueues DEF PerHub
    <3>5. \A s \in 1 .. x.svc : In(s) \in visited'[h]
      <4> SUFFICES ASSUME NEW s \in 1 .. x.svc PROVE In(s) \in visited'[h]
        OBVIOUS
      <4>1. s = x.svc \/ (s \in 1 .. Services /\ s < x.svc)
        BY <3>4, ServicesAssumption
      <4> QED
        BY <1>2, <2>2, <3>1, <3>2, <3>4, <4>1, OutQueueInTurn
    <3> QED
      BY <1>2, <2>2, <3>3, <3>4, <3>5
  <2>3. CASE x = mw /\ x.type = "out_queue"
    BY <1>2, <2>3, OutQueueCaller
  <2>4. CASE x = mw /\ x.type \notin {"in_queue", "out_queue"}
    BY <1>2, <2>4, BulkAfterQueues, OthersAfterQueue
  <2> QED
    BY <1>2, <2>1, <2>2, <2>3, <2>4
<1>8. ManagerNext(h)'
  <2> SUFFICES ASSUME NEW s \in 1 .. Services, In(s) \in visited'[h], mw # In(s)
               PROVE  Manager(s) \in visited'[h] \/ Manager(s) \notin Created
    BY <1>a, <1>4, ManifestKept DEF ManagerNext
  <2>1. In(s) \in visited[h]
    BY <1>2
  <2>2. CASE Top(h) # In(s)
    BY <1>2, <2>1, <2>2 DEF InOrder, ManagerNext
  <2>3. CASE Top(h) = In(s)
    <3>1. Top(h) \in Created
      BY <2>1, <2>3, OnStack
    <3> QED
      BY <1>2, <2>3, <3>1, InQueueInTurn
  <2> QED
    BY <2>2, <2>3
<1>9. QueuesNested(h)'
  <2> SUFFICES ASSUME NEW i \in DOMAIN stack'[h], NEW j \in DOMAIN stack'[h]
               PROVE  /\ i < j /\ stack'[h][i].type = "in_queue" =>
                           /\ stack'[h][j].type = "in_queue" =>
                                 1 < stack'[h][i].svc /\ stack'[h][i].svc < stack'[h][j].svc
                           /\ stack'[h][j].type = "out_queue" =>
                                 1 < stack'[h][i].svc /\ stack'[h][i].svc <= stack'[h][j].svc
                      /\ i < j /\ stack'[h][i].type = "out_queue"
                               /\ stack'[h][j].type = "in_queue" =>
                            stack'[h][j].svc = 1 \/ stack'[h][i].svc < stack'[h][j].svc
                      /\ i < j /\ stack'[h][i].type = "concurrency_manager" =>
                            stack'[h][j] # In(stack'[h][i].svc)
                      /\ j = i + 1 /\ stack'[h][i].type = "bulk" =>
                            stack'[h][j].type = "stats_reporter"
    BY DEF QueuesNested
  <2>1. CASE i \in 1 .. n /\ j \in 1 .. n
    BY <1>3, <2>1 DEF InOrder, QueuesNested
  <2>2. CASE i \in 1 .. n /\ j = n + 1
    <3>1. /\ stack'[h][i] = stack[h][i] /\ stack'[h][j] = mw /\ i \in DOMAIN stack[h]
          /\ stack[h][i] \in Created /\ stack[h][i] \in visited[h] /\ mw \notin visited[h]
      BY <1>3, <2>2, OnStack, NextIsUnvisited
    <3>2. ASSUME stack[h][i].type = "in_queue", mw.type = "in_queue"
          PROVE  1 < stack[h][i].svc /\ stack[h][i].svc < mw.svc
      <4>1. stack[h] # <<>> /\ Top(h).type = "out_queue"
        BY <3>2, InQueueCaller
      <4>2. n \in DOMAIN stack[h] /\ Top(h) = stack[h][n]
        BY <4>1, OnStack
      <4>3. i < n
        BY <1>3, <2>2, <3>2, <4>1, <4>2
      <4>4. 1 < stack[h][i].svc
        BY <3>1, <3>2, <4>1, <4>2, <4>3 DEF InOrder, QueuesNested
      <4>5. /\ mw = In(mw.svc) /\ stack[h][i] = In(stack[h][i].svc)
            /\ mw.svc \in 1 .. Services /\ stack[h][i].svc \in 1 .. Services
        BY <3>1, <3>2, CreatedQueues DEF PerHub
      <4>6. \A s \in 1 .. stack[h][i].svc : In(s) \in visited[h]
        BY <3>1, <3>2 DEF InOrder, QueuesInTurn
      <4>7. mw.svc \notin 1 .. stack[h][i].svc
        BY <3>1, <4>5, <4>6
      <4> QED
        BY <4>4, <4>5, <4>7, ServicesAssumption
    <3>3. stack[h][i].type = "in_queue" /\ mw.type = "out_queue" =>
             1 < stack[h][i].svc /\ stack[h][i].svc <= mw.svc
      BY <3>1, OutQueueCaller
    <3>4. ASSUME j = i + 1, stack[h][i].type = "bulk"
          PROVE  mw.type = "stats_reporter"
      <4>1. i = n
        BY <1>3, <2>2, <3>4
      <4>2. stack[h] # <<>> /\ Top(h) = stack[h][n]
        BY <1>5, <3>1, <4>1, OnStack
      <4> QED
        BY <3>4, <4>1, <4>2, BulkCalls
    <3>5. ASSUME stack[h][i].type = "out_queue", mw.type = "in_queue"
          PROVE  mw.svc = 1 \/ stack[h][i].svc < mw.svc
      <4> DEFINE p == stack[h][i].svc
      <4>1. /\ mw = In(mw.svc) /\ mw.svc \in 1 .. Services /\ p \in 1 .. Services
        BY <3>1, <3>5, CreatedQueues DEF PerHub
      <4> SUFFICES ASSUME 1 < p, mw.svc <= p PROVE FALSE
        BY <4>1, ServicesAssumption
      <4>2. In(p) \in visited[h] /\ In(p).type = "in_queue" /\ In(p).svc = p
        BY <3>1, <3>5, QueueTypes DEF InOrder, QueuesInTurn
      <4>3. \A s \in 1 .. p : In(s) \in visited[h]
        BY <4>2 DEF InOrder, QueuesInTurn
      <4> QED
        BY <3>1, <4>1, <4>3, ServicesAssumption
    <3>6. stack[h][i].type = "concurrency_manager" => mw # In(stack[h][i].svc)
      <4>1. Declared["concurrency_manager"] # None
        BY ManagersDepend
      <4> QED
        BY <3>1, <4>1 DEF InOrder, QueuesInTurn, PerHub
    <3> QED
      BY <3>1, <3>2, <3>3, <3>4, <3>5, <3>6
  <2>3. CASE i = n + 1
    <3>1. ~(i < j) /\ j # i + 1
      BY <1>3, <2>3
    <3> QED
      BY <3>1
  <2> QED
    BY <1>3, <2>1, <2>2, <2>3
<1> QED
  BY <1>6, <1>7, <1>8, <1>9 DEF InOrder

LEMMA OrderInitialize ==
    ASSUME TypeOK, BootInv, NEW h \in Hubs, InOrder(h), Initialize(h)
    PROVE  InOrder(h)'
<1>a. [Next]_vars
  BY DEF Next, BootProceeds
<1> DEFINE n == Len(stack[h])
<1>1. /\ stack[h] # <<>> /\ ToVisit(h) = {}
      /\ stack'[h] = Front(stack[h]) /\ visited' = visited
      /\ stack[h] \in Seq(Created)
  BY DEF Initialize, TypeOK
<1>2. /\ n \in Nat /\ DOMAIN stack[h] = 1 .. n /\ DOMAIN stack'[h] = 1 .. n - 1
      /\ \A i \in DOMAIN stack'[h] : i \in DOMAIN stack[h] /\ stack'[h][i] = stack[h][i]
  <2>1. n \in Nat /\ n > 0 /\ DOMAIN stack[h] = 1 .. n
    BY <1>1, EmptySeq, LenProperties
  <2>2. stack'[h] \in Seq(Created) /\ Len(stack'[h]) = n - 1
    BY <1>1, <2>1, SubSeqProperties DEF Front
  <2>3. \A i \in 1 .. n - 1 : stack'[h][i] = stack[h][i]
    BY <1>1, <2>1, SubSeqProperties DEF Front
  <2> QED
    BY <2>1, <2>2, <2>3, LenProperties
<1>3. Called(h)'
  BY <1>a, <1>2, DependenciesKept DEF InOrder, Called
<1>4. QueuesInTurn(h)'
  BY <1>1 DEF InOrder, QueuesInTurn
<1>5. ManagerNext(h)'
  <2> SUFFICES ASSUME NEW s \in 1 .. Services, In(s) \in visited[h]
               PROVE  Manager(s) \in visited[h] \/ Manager(s) \notin Created
    BY <1>a, <1>1, ManifestKept DEF ManagerNext
  <2>1. CASE Top(h) # In(s)
    BY <2>1 DEF InOrder, ManagerNext
  <2>2. CASE Top(h) = In(s)
    <3>1. Top(h) \in Created
      BY <1>1, OnStack
    <3>2. \E e \in Dependencies(Top(h)) : e[1] = 2 /\ e[4] = Manager(s)
      BY <2>2, <3>1, ManagerEntry
    <3> QED
      BY <1>1, <3>2 DEF ToVisit
  <2> QED
    BY <2>1, <2>2
<1>6. QueuesNested(h)'
  BY <1>2 DEF InOrder, QueuesNested
<1> QED
  BY <1>3, <1>4, <1>5, <1>6 DEF InOrder

LEMMA OrderInit == Init => OrderInv
<1> SUFFICES ASSUME Init PROVE OrderInv
  OBVIOUS
<1>1. Declares
  BY DEF Init, Declares
<1>2. \A h \in Hubs : InOrder(h)
  BY OrderEmpty DEF Init
<1> QED
  BY <1>1, <1>2 DEF OrderInv, InTurn, InOrder

LEMMA DeclaresStep ==
    ASSUME TypeOK, Declares, [Next]_vars
    PROVE  Declares'
<1>1. ASSUME NEW h \in Hubs, Initialize(h)
      PROVE  Declares'
  <2>1. /\ queues' = queues \cup QueuesOf(Top(h))
        /\ initialized' = [initialized EXCEPT ![h] = @ \cup {Top(h)}]
    BY <1>1 DEF Initialize
  <2> SUFFICES ASSUME NEW g \in Hubs, NEW mw \in initialized'[g]
               PROVE  QueuesOf(mw) \subseteq queues'
    BY DEF Declares
  <2>2. mw \in initialized[g] \/ mw = Top(h)
    BY <2>1 DEF TypeOK
  <2> QED
    BY <2>1, <2>2 DEF Declares
<1>2. ASSUME NEW h \in Hubs, Reboot(h)
      PROVE  Declares'
  <2>1. queues' = queues /\ \A g \in Hubs : initialized'[g] \subseteq initialized[g]
    BY <1>2 DEF Reboot, brokerVars, TypeOK
  <2> QED
    BY <2>1 DEF Declares
<1>3. ASSUME UNCHANGED <<queues, initialized>>
      PROVE  Declares'
  BY <1>3 DEF Declares
<1> QED
  BY <1>1, <1>2, <1>3 DEF Next, BootProceeds, Visit, Unresolved, BindFails, Start, Crash,
     vars, brokerVars, hubVars

LEMMA InTurnStep ==
    ASSUME TypeOK, BootInv, InTurn, [Next]_vars
    PROVE  InTurn'
<1> SUFFICES ASSUME Resolvable, OutQueuesFirst, NEW g \in Hubs
             PROVE  InOrder(g)'
  BY DependenciesKept DEF InTurn, InOrder
<1>1. InOrder(g)
  BY DEF InTurn, InOrder
<1>2. ASSUME NEW h \in Hubs, Visit(h)
      PROVE  InOrder(g)'
  <2>1. CASE g = h
    BY <1>1, <1>2, <2>1, OrderVisit
  <2>2. CASE g # h
    <3>1. stack'[g] = stack[g] /\ visited'[g] = visited[g]
      BY <1>2, <2>2 DEF Visit, TypeOK
    <3> QED
      BY <1>1, <3>1, OrderFramed
  <2> QED
    BY <2>1, <2>2
<1>3. ASSUME NEW h \in Hubs, Initialize(h)
      PROVE  InOrder(g)'
  <2>1. CASE g = h
    BY <1>1, <1>3, <2>1, OrderInitialize
  <2>2. CASE g # h
    <3>1. stack'[g] = stack[g] /\ visited'[g] = visited[g]
      BY <1>3, <2>2 DEF Initialize, TypeOK
    <3> QED
      BY <1>1, <3>1, OrderFramed
  <2> QED
    BY <2>1, <2>2
<1>4. ASSUME NEW h \in Hubs, Reboot(h)
      PROVE  InOrder(g)'
  <2>1. CASE g = h
    <3>1. stack'[g] = <<>> /\ visited'[g] = {}
      BY <1>4, <2>1 DEF Reboot, TypeOK
    <3> QED
      BY <3>1 DEF InOrder, Called, QueuesInTurn, ManagerNext, QueuesNested
  <2>2. CASE g # h
    <3>1. stack'[g] = stack[g] /\ visited'[g] = visited[g]
      BY <1>4, <2>2 DEF Reboot, TypeOK
    <3> QED
      BY <1>1, <3>1, OrderFramed
  <2> QED
    BY <2>1, <2>2
<1>5. ASSUME UNCHANGED <<stack, visited>>
      PROVE  InOrder(g)'
  BY <1>1, <1>5, OrderFramed
<1> QED
  BY <1>2, <1>3, <1>4, <1>5 DEF Next, BootProceeds, Unresolved, BindFails, Start, Crash,
     vars, brokerVars, hubVars

-----------------------------------------------------------------------------
(* Why a boot fails.                                                       *)

\* With a configuration that names what is needed, all that comes next exists.
LEMMA NextExists ==
    ASSUME TypeOK, BootInv, Resolvable, OutQueuesFirst, NEW h \in Hubs
    PROVE  UpNext(h) \subseteq Created
<1> SUFFICES ASSUME NEW mw \in UpNext(h) PROVE mw \in Created
  OBVIOUS
<1>1. CASE stack[h] = <<>>
  BY <1>1, OnStack, HubInTurn
<1>2. CASE stack[h] # <<>>
  <2>1. Top(h) \in Created
    BY <1>2, OnStack
  <2>2. PICK e \in Dependencies(Top(h)) : e[4] = mw /\ (e[1] = 2 => mw \in Created)
    BY NextEntry
  <2> SUFFICES ASSUME e[1] = 1 PROVE mw \in Created
    BY <2>1, <2>2, DeclaredDependency
  <2>3. PICK d \in ToSet(Declared[Top(h).type].needs) : mw = Resolve(Top(h), d, e[3])
    BY <2>1, <2>2, DeclaredDependency
  <2>4. /\ e[3] \in 1 .. Services /\ 1 \in 1 .. Services
        /\ Top(h).type \in DOMAIN Declared /\ Top(h).type \in ToSet(manifest.config)
        /\ Top(h).type \notin PerHub => Top(h).svc \in 1 .. Services
    BY <2>1, DeclaredDependency, CreatedTypes, ServicesAssumption
  <2>5. d.type \in ToSet(manifest.config)
    BY <2>3, <2>4 DEF Resolvable
  <2>6. /\ d.scope \in {"own", "each", "hub"}
        /\ d.scope = "own" => Top(h).type \notin PerHub
        /\ d.scope = "hub" => d.type \in PerHub
    BY <2>3, <2>4, Scopes DEF DependsOn
  <2>7. d.type \in PerHub => \A s : Instance(d.type, s) = Instance(d.type, 1)
    BY DEF Instance
  <2> QED
    BY <2>3, <2>4, <2>5, <2>6, <2>7, CreatedOfEach DEF Resolve
<1> QED
  BY <1>1, <1>2

\* An out queue finds all the queues that it has to bind.
LEMMA QueuesFound ==
    ASSUME TypeOK, BootInv, Declares, Bootable, NEW h \in Hubs, InOrder(h),
           stack[h] # <<>>, ToVisit(h) = {}, Top(h).type = "out_queue"
    PROVE  QueuesFedBy(Top(h).svc) \subseteq queues
<1> DEFINE n == Len(stack[h])
           p == Top(h).svc
<1>1. n \in DOMAIN stack[h] /\ Top(h) = stack[h][n] /\ Top(h) \in Created
  BY OnStack
<1>2. Top(h) = Out(p) /\ p \in 1 .. Services
  BY <1>1, CreatedQueues DEF PerHub
<1>3. ASSUME NEW s \in SubscribersOf(p)
      PROVE  <<"in", s>> \in queues
  <2>1. s \in 1 .. Services /\ ~(1 < s /\ s <= p)
    BY <1>3, <1>2 DEF SubscribersOf, Bootable, LateFeed
  <2>2. In(s) \in visited[h]
    <3>1. In(s) \in Needs(Top(h))
      BY <1>2, <2>1, OutQueueNeeds
    <3> QED
      BY <3>1, NothingLeft
  <2>3. ASSUME NEW i \in DOMAIN stack[h], stack[h][i] = In(s)
        PROVE  FALSE
    <3>1. i # n
      BY <1>1, <2>3, QueueTypes
    <3>2. i < n
      BY <3>1, CallOnStack DEF InOrder
    <3> QED
      BY <1>1, <2>1, <2>3, <3>2, QueueTypes DEF InOrder, QueuesNested
  <2>4. In(s) \in initialized[h]
    BY <2>2, <2>3, OnStack
  <2> QED
    BY <2>4, QueueTypes DEF Declares, QueuesOf
<1>4. ASSUME NEW s \in BulkSubscribersOf(p)
      PROVE  <<"bulk", s>> \in queues
  <2> DEFINE b == Instance("bulk", s)
  <2>1. s \in 1 .. Services /\ "bulk" \in ToSet(manifest.config)
    BY <1>4 DEF BulkSubscribersOf, Bootable, Resolvable
  <2>2. b \in Created /\ b.type = "bulk" /\ b.svc = s
    BY <2>1, CreatedOfEach, QueueTypes
  <2>3. <<2, 3, s, Resolve(Top(h), Each("bulk"), s)>> \in Dependencies(Top(h))
    <3>1. DeclaredBy(Top(h)).supports = <<Own("concurrency_manager"), Stats, Each("bulk")>>
      BY <1>1, CreatedTypes, QueueSupports DEF Declared
    <3>2. LET declared == <<DeclaredBy(Top(h)).needs, DeclaredBy(Top(h)).supports>>
          IN  3 \in DOMAIN declared[2] /\ declared[2][3] = Each("bulk")
      BY <3>1
    <3> QED
      BY <2>1, <3>2, EachEntry
  <2>4. Resolve(Top(h), Each("bulk"), s) = b
    BY DEF Resolve, Each
  <2>5. b \in visited[h]
    BY <2>2, <2>3, <2>4 DEF ToVisit
  <2>6. ASSUME NEW i \in DOMAIN stack[h], stack[h][i] = b
        PROVE  FALSE
    <3>1. i # n
      BY <1>1, <2>2, <2>6
    <3>2. i < n /\ i + 1 \in DOMAIN stack[h]
      BY <3>1, CallOnStack DEF InOrder
    <3>3. stack[h][i + 1].type = "stats_reporter"
      BY <2>2, <2>6, <3>2 DEF InOrder, QueuesNested
    <3>4. i + 1 = n
      BY <3>2, <3>3, NoneAtTop, QueueTypes DEF InOrder
    <3> QED
      BY <1>1, <3>3, <3>4
  <2>7. b \in initialized[h]
    BY <2>5, <2>6, OnStack
  <2> QED
    BY <2>2, <2>7 DEF Declares, QueuesOf
<1> QED
  BY <1>3, <1>4 DEF QueuesFedBy

LEMMA FailsStep ==
    ASSUME TypeOK, BootInv, OrderInv, FailsOnLateFeedOnly, [Next]_vars
    PROVE  FailsOnLateFeedOnly'
<1> SUFFICES ASSUME Bootable, NEW g \in Hubs, status'[g] = "failed" PROVE FALSE
  BY DependenciesKept DEF FailsOnLateFeedOnly
<1>1. status[g] # "failed"
  BY DEF FailsOnLateFeedOnly
<1>2. Resolvable /\ OutQueuesFirst /\ Declares /\ \A h \in Hubs : InOrder(h)
  BY DEF Bootable, OrderInv, InTurn, InOrder
<1>3. ASSUME NEW h \in Hubs, Unresolved(h)
      PROVE  FALSE
  BY <1>2, <1>3, NextExists DEF Unresolved
<1>4. ASSUME NEW h \in Hubs, BindFails(h)
      PROVE  FALSE
  BY <1>2, <1>4, QueuesFound DEF BindFails
<1>5. ASSUME NEW h \in Hubs, Start(h) \/ Crash(h) \/ Reboot(h)
      PROVE  FALSE
  BY <1>1, <1>5 DEF Start, Crash, Reboot, TypeOK
<1>6. CASE UNCHANGED status
  BY <1>1, <1>6
<1> QED
  BY <1>3, <1>4, <1>5, <1>6 DEF Next, BootProceeds, Visit, Initialize, vars, hubVars

(* A hub whose configuration is complete and names the API or the out      *)
(* queue before the other dependent middlewares boots, unless some service *)
(* but the first is fed by itself or by a later one: however many services *)
(* and processes there are, and whenever these die.                        *)
THEOREM FailsOnLateFeedOnlyHolds == Spec => []FailsOnLateFeedOnly
<1>1. Init => OrderInv /\ FailsOnLateFeedOnly
  BY OrderInit DEF Init, FailsOnLateFeedOnly
<1>2. TypeOK /\ BootInv /\ OrderInv /\ FailsOnLateFeedOnly /\ [Next]_vars
         => OrderInv' /\ FailsOnLateFeedOnly'
  BY DeclaresStep, InTurnStep, FailsStep DEF OrderInv
<1> QED
  BY <1>1, <1>2, BootTypeCorrect, BootInvHolds, PTL DEF Spec

-----------------------------------------------------------------------------
(* Why it fails again.                                                     *)

\* Before an in queue after the first is initialised, the out queues of its
\* service and of the later ones have been.
LEMMA BoundBefore ==
    ASSUME TypeOK, BootInv, BindsFirst, Managed, NEW h \in Hubs, InOrder(h),
           stack[h] # <<>>, ToVisit(h) = {},
           NEW s \in 1 .. Services, 1 < s, Top(h) = In(s), NEW p \in s .. Services
    PROVE  Out(p) \in initialized[h]
<1> DEFINE n == Len(stack[h])
<1>1. n \in DOMAIN stack[h] /\ Top(h) = stack[h][n] /\ Top(h) \in Created
  BY OnStack
<1>2. /\ \A i \in DOMAIN stack[h] : i < n \/ i = n
      /\ stack[h][n] = In(s) /\ stack[h][n].type = "in_queue" /\ stack[h][n].svc = s
  <2>1. \A i \in DOMAIN stack[h] : i < n \/ i = n
    BY <1>1, CallOnStack DEF InOrder
  <2>2. In(s).type = "in_queue" /\ In(s).svc = s
    BY QueueTypes
  <2> QED
    BY <1>1, <2>1, <2>2
<1>3. Manager(s) \in initialized[h]
  <2>1. Manager(s) \in Created
    BY CreatedOfEach DEF Managed, Manager
  <2>2. Manager(s) \in visited[h]
    BY <1>1, <2>1, ManagerEntry DEF ToVisit
  <2>3. ASSUME NEW i \in DOMAIN stack[h], stack[h][i] = Manager(s)
        PROVE  FALSE
    <3>1. stack[h][i].type = "concurrency_manager" /\ stack[h][i].svc = s
      BY <2>3, QueueTypes
    <3>2. i < n
      BY <1>2, <3>1
    <3> QED
      BY <1>1, <1>2, <3>1, <3>2 DEF InOrder, QueuesNested
  <2> QED
    BY <2>2, <2>3, OnStack
<1>4. Out(s) \in initialized[h]
  <2>1. Out(s) \in visited[h]
    BY <1>3, ManagersDepend DEF BootInv, Provided
  <2>2. ASSUME NEW i \in DOMAIN stack[h], stack[h][i] = Out(s)
        PROVE  FALSE
    <3>1. stack[h][i].type = "out_queue" /\ stack[h][i].svc = s
      BY <2>2, QueueTypes
    <3>2. i < n
      BY <1>2, <3>1
    <3>3. stack[h][n].svc = 1 \/ stack[h][i].svc < stack[h][n].svc
      BY <1>1, <1>2, <3>1, <3>2 DEF InOrder, QueuesNested
    <3>4. s = 1 \/ s < s
      BY <1>2, <3>1, <3>3
    <3> QED
      BY <3>4, ServicesAssumption
  <2> QED
    BY <2>1, <2>2, OnStack
<1>5. CASE p = s
  BY <1>4, <1>5
<1>6. CASE p # s
  <2>1. p \in 1 .. Services /\ p \in 2 .. Services /\ s < p
    BY <1>6, ServicesAssumption
  <2>2. In(p) \in visited[h]
    BY <1>4, <2>1, InQueuesVisited, QueueTypes
  <2>3. ASSUME NEW i \in DOMAIN stack[h], stack[h][i] = In(p)
        PROVE  FALSE
    <3>1. stack[h][i].type = "in_queue" /\ stack[h][i].svc = p
      BY <2>3, QueueTypes
    <3>2. i < n
      BY <1>2, <1>6, <3>1
    <3>3. p < s
      BY <1>1, <1>2, <3>1, <3>2 DEF InOrder, QueuesNested
    <3> QED
      BY <2>1, <3>3
  <2>4. In(p) \in initialized[h]
    BY <2>2, <2>3, OnStack
  <2> QED
    BY <2>1, <2>4 DEF BindsFirst
<1> QED
  BY <1>5, <1>6

LEMMA ManagedKept ==
    ASSUME [Next]_vars
    PROVE  Managed' = Managed /\ LateFeed' = LateFeed /\ manifest' = manifest
  BY ManifestKept, DependenciesKept DEF Managed, LateFeed

LEMMA BindsFirstStep ==
    ASSUME TypeOK, BootInv, InTurn, BindsFirst, [Next]_vars
    PROVE  BindsFirst'
<1> SUFFICES ASSUME Managed, NEW g \in Hubs, NEW s \in 2 .. Services, In(s) \in initialized'[g]
             PROVE  Out(s) \in initialized'[g]
  BY ManagedKept DEF BindsFirst
<1>1. ASSUME NEW h \in Hubs, Initialize(h)
      PROVE  Out(s) \in initialized'[g]
  <2>1. /\ initialized[g] \subseteq initialized'[g]
        /\ g # h => initialized'[g] = initialized[g]
        /\ initialized'[h] = initialized[h] \cup {Top(h)}
    BY <1>1 DEF Initialize, TypeOK
  <2>2. CASE In(s) \in initialized[g]
    BY <2>1, <2>2 DEF BindsFirst
  <2>3. CASE In(s) \notin initialized[g]
    <3>1. g = h /\ Top(h) = In(s)
      BY <2>1, <2>3
    <3>2. InOrder(h) /\ stack[h] # <<>> /\ ToVisit(h) = {}
      BY <1>1 DEF Initialize, InTurn, InOrder, Managed
    <3>3. s \in 1 .. Services /\ 1 < s /\ s \in s .. Services
      BY ServicesAssumption
    <3> QED
      BY <2>1, <3>1, <3>2, <3>3, BoundBefore
  <2> QED
    BY <2>2, <2>3
<1>2. ASSUME NEW h \in Hubs, Reboot(h)
      PROVE  Out(s) \in initialized'[g]
  <2>1. g # h /\ initialized'[g] = initialized[g]
    BY <1>2 DEF Reboot, TypeOK
  <2> QED
    BY <2>1 DEF BindsFirst
<1>3. CASE UNCHANGED initialized
  BY <1>3 DEF BindsFirst
<1> QED
  BY <1>1, <1>2, <1>3 DEF Next, BootProceeds, Visit, Unresolved, BindFails, Start, Crash,
     vars, hubVars

LEMMA LateUndeclaredStep ==
    ASSUME TypeOK, BootInv, InTurn, LateInv, [Next]_vars
    PROVE  LateUndeclared'
<1> SUFFICES ASSUME Managed, NEW feed \in manifest.feeds, 1 < feed[2], feed[2] <= feed[1],
                    <<"in", feed[2]>> \in queues'
             PROVE  FALSE
  BY ManagedKept DEF LateUndeclared
<1> DEFINE p == feed[1]
           q == feed[2]
<1>1. p \in 1 .. Services /\ q \in 1 .. Services /\ p \in q .. Services /\ feed = <<p, q>>
  <2>1. feed \in (1 .. Services) \X (1 .. Services)
    BY DEF TypeOK, Manifest
  <2> QED
    BY <2>1, ServicesAssumption
<1>2. <<"in", q>> \notin queues
  BY DEF LateInv, LateUndeclared
<1>3. ASSUME NEW h \in Hubs, Initialize(h)
      PROVE  FALSE
  <2>1. stack[h] # <<>> /\ ToVisit(h) = {} /\ <<"in", q>> \in QueuesOf(Top(h))
    BY <1>2, <1>3 DEF Initialize
  <2>2. Top(h).type = "in_queue" /\ Top(h).svc = q
    BY <2>1 DEF QueuesOf
  <2>3. Top(h) = In(q)
    BY <2>1, <2>2, OnStack, CreatedQueues
  <2>4. InOrder(h)
    BY DEF InTurn, InOrder, Managed
  <2>5. Out(p) \in initialized[h]
    BY <1>1, <2>1, <2>3, <2>4, BoundBefore DEF LateInv
  <2>6. {p} \X QueuesFedBy(p) \subseteq bindings
    BY <2>5, QueueTypes DEF BootInv, Provided
  <2>7. <<"in", q>> \in QueuesFedBy(p)
    BY <1>1 DEF QueuesFedBy, SubscribersOf
  <2>8. <<p, <<"in", q>>>> \in bindings
    BY <2>6, <2>7
  <2> QED
    BY <1>2, <2>8 DEF TypeOK
<1>4. CASE UNCHANGED queues
  BY <1>2, <1>4
<1> QED
  BY <1>3, <1>4 DEF Next, BootProceeds, Visit, Unresolved, BindFails, Start, Crash, Reboot,
     vars, brokerVars

LEMMA UndeclaredNeverStarts == TypeOK /\ BootInv /\ Declares /\ LateInv => NeverOnLateFeed
<1> SUFFICES ASSUME TypeOK, BootInv, Declares, LateInv, Managed, LateFeed,
                    NEW h \in Hubs, status[h] = "started"
             PROVE  FALSE
  BY DEF NeverOnLateFeed
<1>1. PICK feed \in manifest.feeds : 1 < feed[2] /\ feed[2] <= feed[1]
  BY DEF LateFeed
<1>2. feed[2] \in 1 .. Services
  BY DEF TypeOK, Manifest
<1>3. "in_queue" \in ToSet(manifest.config)
  <2>1. Own("in_queue") \in ToSet(Declared["concurrency_manager"].needs)
    BY ShortSequences DEF Declared, ConcurrencyManager
  <2> QED
    BY <2>1 DEF Managed, Resolvable, Own
<1>4. In(feed[2]) \in initialized[h]
  BY <1>2, <1>3, CreatedOfEach DEF BootInv, Through, In
<1>5. <<"in", feed[2]>> \in queues
  BY <1>4, QueueTypes DEF Declares, QueuesOf
<1> QED
  BY <1>1, <1>5 DEF LateInv, LateUndeclared

(* With the concurrency managers a late feed is fatal for ever: no process *)
(* gets through its boot, however many try, how often, and wherever they   *)
(* are cut short, since the queue it lacks is declared after its own bind. *)
THEOREM NeverOnLateFeedHolds == Spec => []NeverOnLateFeed
<1>1. Init => OrderInv /\ LateInv
  BY OrderInit DEF Init, LateInv, BindsFirst, LateUndeclared
<1>2. TypeOK /\ BootInv /\ OrderInv /\ LateInv /\ [Next]_vars => OrderInv' /\ LateInv'
  BY DeclaresStep, InTurnStep, BindsFirstStep, LateUndeclaredStep DEF OrderInv, LateInv
<1>3. TypeOK /\ BootInv /\ OrderInv /\ LateInv => NeverOnLateFeed
  BY UndeclaredNeverStarts DEF OrderInv
<1> QED
  BY <1>1, <1>2, <1>3, BootTypeCorrect, BootInvHolds, PTL DEF Spec

=============================================================================
