------------------------ MODULE PluginAndMonitorProofs ------------------------
(***************************************************************************)
(* Proofs about PluginRegistry for every set of names, and hence every     *)
(* dependency graph, and about ResourceMonitor, for every set of client    *)
(* threads and every history size.  Of the inductive invariants, IInv says *)
(* what the depth-first search of PluginRegistry keeps true of its stack   *)
(* and its result, and what the loops over that result have done so far;   *)
(* MonitorIInv says where the threads of ResourceMonitor can be, and what  *)
(* each of them then knows.                                                *)
(***************************************************************************)
EXTENDS TLAPS, ResourceMonitor, PluginRegistry

(***************************************************************************)
(* PluginRegistry                                                          *)
(***************************************************************************)

(* Between two calls the search's variables are as at the start of one. *)
Idle ==
    phase = "idle" =>
        /\ op = "none" /\ stack = <<>> /\ visiting = {} /\ visited = {} /\ result = <<>>
        /\ queue = <<>> /\ failed = {}

(* The stack: distinct names, those being visited; each depends on the name  *)
(* above it, and what it has dealt with has been visited or is that name.    *)
OnStack ==
    /\ \A i \in 1..Len(stack) :
          stack[i].name \in visiting /\ stack[i].left \subseteq deps[stack[i].name]
    /\ \A n \in visiting : \E i \in 1..Len(stack) : stack[i].name = n
Distinct == \A i, j \in 1..Len(stack) : stack[i].name = stack[j].name => i = j
Chain == \A i, j \in 1..Len(stack) : j = i + 1 => stack[j].name \in deps[stack[i].name]
DealtWith ==
    \A i \in 1..Len(stack) : \A d \in plugins_ :
        d \in deps[stack[i].name] /\ d \notin stack[i].left =>
            d \in visited \/ (i < Len(stack) /\ d = stack[i + 1].name)

Path == OnStack /\ Distinct /\ Chain /\ DealtWith

(* The result: what has been visited, once, dependencies first. *)
Sorted ==
    /\ visiting \cap visited = {}
    /\ \A n \in visited : deps[n] \cap plugins_ \subseteq visited
    /\ \A n \in visited : \E i \in 1..Len(result) : result[i] = n
    /\ \A i \in 1..Len(result) : result[i] \in visited
    /\ \A i, j \in 1..Len(result) : result[i] = result[j] => i = j
    /\ \A i, j \in 1..Len(result) : result[j] \in deps[result[i]] => j < i

(* No cycle has been visited. *)
CycleIn(S) == S # {} /\ \A n \in S : \E m \in S : m \in deps[n]
Acyclic == \A S \in SUBSET visited : ~CycleIn(S)

(* The loops over the order, and what they have done. *)
Loops ==
    phase = "run" =>
        /\ stack = <<>> /\ plugins_ \subseteq visited
        /\ Len(queue) <= Len(result)
        /\ op = "initializeAll" =>
              /\ \A i \in 1..Len(queue) : queue[i] = result[Len(result) - Len(queue) + i]
              /\ \A i \in 1..(Len(result) - Len(queue)) :
                    \/ result[i] \in initialized \/ result[i] \in failed
                    \/ ~validateDependencies(result[i])
        /\ op = "shutdownAll" =>
              /\ \A i \in 1..Len(queue) : queue[i] = result[Len(queue) + 1 - i]
              /\ \A i \in 1..Len(result) :
                    i > Len(queue) /\ result[i] \in initialized => result[i] \in failed

(* The inductive invariant. *)
IInv ==
    /\ TypeOK /\ Idle /\ Path /\ Sorted /\ Acyclic /\ Loops
    /\ phase = "throw" => Cyclic

-----------------------------------------------------------------------------
LEMMA InitIInv == Init => IInv
BY DEF Init, IInv, TypeOK, Idle, Path, OnStack, Distinct, Chain, DealtWith,
       Sorted, Acyclic, CycleIn, Loops

(* Between two calls nothing is left of the search, so that whatever happens *)
(* to the plugins preserves IInv.                                            *)
LEMMA IdleIInv ==
    ASSUME IInv, phase = "idle", UNCHANGED callVars, files' \in Nat,
           plugins_' \subseteq Names, deps' \in [Names -> SUBSET Names],
           initialized' \subseteq plugins_'
    PROVE  IInv'
BY DEF IInv, TypeOK, Idle, Path, OnStack, Distinct, Chain, DealtWith,
       Sorted, Acyclic, CycleIn, Loops, callVars, dfsVars

(* A plugin is pushed on the stack: a root, or a dependency of the top.      *)
LEMMA EnterIInv ==
    ASSUME IInv, phase = "visit", NEW n \in plugins_ \ (visited \cup visiting),
           NEW frames \in Seq([name : plugins_, left : SUBSET Names]),
           Len(frames) = Len(stack),
           \A i \in 1..Len(stack) : /\ frames[i].name = stack[i].name
                                    /\ frames[i].left \subseteq stack[i].left
                                    /\ i < Len(stack) => frames[i].left = stack[i].left,
           frames # <<>> => /\ n \in deps[top.name]
                            /\ frames[Len(stack)].left = top.left \ {n},
           Enter(n, frames),
           UNCHANGED <<plugins_, deps, initialized, op, phase, queue, failed, files>>
    PROVE  IInv'
<1> DEFINE L == Len(stack)
<1>1. /\ stack' \in Seq([name : plugins_, left : SUBSET Names])
      /\ Len(stack') = L + 1 /\ stack'[L + 1] = Frame(n)
      /\ \A i \in 1..L : stack'[i] = frames[i]
      /\ L \in Nat
  BY DEF IInv, TypeOK, Enter, Frame
<1>2. TypeOK'
  BY <1>1 DEF IInv, TypeOK, Enter
<1>3. OnStack'
  <2>1. \A i \in 1..L :
          stack'[i].name \in visiting' /\ stack'[i].left \subseteq deps'[stack'[i].name]
    <3> TAKE i \in 1..L
    <3>1. stack[i].name \in visiting /\ stack[i].left \subseteq deps[stack[i].name]
      BY DEF IInv, Path, OnStack
    <3>2. stack'[i].name = stack[i].name /\ stack'[i].left \subseteq stack[i].left
      BY <1>1
    <3> QED BY <3>1, <3>2 DEF Enter
  <2>2. stack'[L + 1].name \in visiting' /\ stack'[L + 1].left \subseteq deps'[stack'[L + 1].name]
    BY <1>1 DEF Enter, Frame
  <2>3. \A m \in visiting : \E i \in 1..L : stack'[i].name = m
    BY <1>1 DEF IInv, Path, OnStack
  <2>4. stack'[L + 1].name = n /\ visiting' = visiting \cup {n}
    BY <1>1 DEF Enter, Frame
  <2>5. 1..Len(stack') = 1..L \cup {L + 1}
    BY <1>1
  <2> QED BY <2>1, <2>2, <2>3, <2>4, <2>5, Zenon DEF OnStack
<1>4. Distinct'
  <2> SUFFICES ASSUME NEW i \in 1..(L + 1), NEW j \in 1..(L + 1), stack'[i].name = stack'[j].name
               PROVE  i = j
    BY <1>1 DEF Distinct
  <2>1. \A k \in 1..L : stack'[k].name = stack[k].name /\ stack[k].name # n
    BY <1>1 DEF IInv, Path, OnStack
  <2>2. stack'[L + 1].name = n
    BY <1>1 DEF Frame
  <2>3. CASE i \in 1..L /\ j \in 1..L
    BY <2>1, <2>3 DEF IInv, Path, Distinct
  <2>4. CASE i = L + 1 \/ j = L + 1
    BY <1>1, <2>1, <2>2, <2>4
  <2> QED BY <1>1, <2>3, <2>4
<1>5. Chain'
  <2> SUFFICES ASSUME NEW i \in 1..Len(stack'), NEW j \in 1..Len(stack'), j = i + 1
               PROVE  stack'[j].name \in deps'[stack'[i].name]
    BY DEF Chain
  <2>1. CASE i = L
    BY <1>1, <2>1 DEF IInv, TypeOK, Frame, top
  <2>2. CASE i # L
    <3>1. i \in 1..L /\ j \in 1..L
      BY <1>1, <2>2
    <3>2. stack[j].name \in deps[stack[i].name]
      BY <3>1 DEF IInv, Path, Chain
    <3>3. stack'[i].name = stack[i].name /\ stack'[j].name = stack[j].name
      BY <1>1, <3>1, Zenon
    <3> QED BY <3>2, <3>3
  <2> QED BY <2>1, <2>2
<1>6. DealtWith'
  <2> SUFFICES ASSUME NEW i \in 1..(L + 1), NEW d \in plugins_,
                      d \in deps[stack'[i].name], d \notin stack'[i].left
               PROVE  d \in visited \/ (i < L + 1 /\ d = stack'[i + 1].name)
    BY <1>1 DEF DealtWith, Enter
  <2>1. CASE i = L + 1
    BY <1>1, <2>1 DEF Frame
  <2>2. CASE i = L
    <3>1. L \in 1..L /\ frames # <<>>
      BY <1>1, <2>2
    <3>2. d \in deps[stack[L].name] /\ (d = n \/ d \notin stack[L].left)
      BY <1>1, <2>2, <3>1, Zenon DEF top
    <3>3. d \notin stack[L].left => d \in visited
      BY <1>1, <3>1, <3>2 DEF IInv, Path, DealtWith
    <3> QED BY <1>1, <2>2, <3>1, <3>2, <3>3 DEF Frame
  <2>3. CASE i < L
    <3>1. i \in 1..L /\ i + 1 \in 1..L
      BY <1>1, <2>3
    <3>2. /\ stack'[i].name = stack[i].name /\ stack'[i].left = stack[i].left
          /\ stack'[i + 1].name = stack[i + 1].name
      BY <1>1, <2>3, <3>1, Zenon
    <3> QED BY <2>3, <3>1, <3>2 DEF IInv, Path, DealtWith
  <2> QED BY <1>1, <2>1, <2>2, <2>3
<1>7. Sorted'
  BY DEF IInv, Sorted, Enter
<1>8. Acyclic'
  BY DEF IInv, Acyclic, CycleIn, Enter
<1> QED BY <1>2, <1>3, <1>4, <1>5, <1>6, <1>7, <1>8, Zenon DEF IInv, Path, Idle, Loops

(* Every frame of the stack has its type. *)
LEMMA FrameTyping ==
    ASSUME IInv
    PROVE  /\ Len(stack) \in Nat
           /\ stack # <<>> => Len(stack) \in 1..Len(stack)
           /\ \A i \in 1..Len(stack) : /\ stack[i] \in [name : plugins_, left : SUBSET Names]
                                       /\ stack[i].name \in plugins_
                                       /\ stack[i].left \subseteq Names
<1> DEFINE F == [name : plugins_, left : SUBSET Names]
<1>1. stack \in Seq(F)
  BY DEF IInv, TypeOK
<1>2. ASSUME NEW i \in 1..Len(stack) PROVE stack[i] \in F
  <2> HIDE DEF F
  <2> QED BY <1>1
<1>3. Len(stack) \in Nat /\ (stack # <<>> => Len(stack) \in 1..Len(stack))
  BY <1>1
<1> QED BY <1>2, <1>3

(* The stack without dependency d of its top. *)
Without(d) == [stack EXCEPT ![Len(stack)].left = @ \ {d}]

LEMMA FramesTyping ==
    ASSUME IInv, stack # <<>>, NEW d \in top.left
    PROVE  /\ Len(stack) \in Nat
           /\ Without(d) \in Seq([name : plugins_, left : SUBSET Names])
           /\ Len(Without(d)) = Len(stack)
           /\ \A i \in 1..Len(stack) : /\ Without(d)[i].name = stack[i].name
                                       /\ Without(d)[i].left \subseteq stack[i].left
                                       /\ i < Len(stack) => Without(d)[i].left = stack[i].left
           /\ Without(d)[Len(stack)].left = top.left \ {d}
           /\ d \in deps[top.name]
<1> DEFINE frames == Without(d)
<1> DEFINE L == Len(stack)
<1> DEFINE F == [name : plugins_, left : SUBSET Names]
<1> DEFINE e == [stack[L] EXCEPT !.left = @ \ {d}]
<1>1. L \in Nat /\ L \in 1..L /\ stack[L] \in F
  BY FrameTyping
<1>2. e \in F /\ e.name = stack[L].name /\ e.left = stack[L].left \ {d}
  BY <1>1
<1>3. frames = [stack EXCEPT ![L] = e]
  BY DEF Without
<1>4. stack \in Seq(F)
  BY Zenon DEF IInv, TypeOK
<1>5. /\ frames \in Seq(F) /\ Len(frames) = L
      /\ \A i \in 1..L : frames[i] = IF i = L THEN e ELSE stack[i]
  <2> HIDE DEF F, e
  <2>1. stack \in [1..L -> F]
    BY <1>4
  <2>2. /\ frames \in [1..L -> F]
        /\ \A i \in 1..L : frames[i] = IF i = L THEN e ELSE stack[i]
    BY <1>1, <1>2, <1>3, <2>1
  <2>3. frames \in Seq(F) /\ Len(frames) = L
    BY <1>1, <2>2
  <2> QED BY <2>2, <2>3, Zenon
<1>6. d \in deps[stack[L].name]
  BY <1>1 DEF IInv, Path, OnStack, top
<1> HIDE DEF e
<1> QED BY <1>1, <1>2, <1>5, <1>6 DEF top

(* The search throws: the stack from the plugin met again to the top is a    *)
(* cycle.                                                                    *)
LEMMA StackCycle ==
    ASSUME IInv, stack # <<>>, NEW d \in top.left, d \in visiting
    PROVE  Cyclic
<1> DEFINE L == Len(stack)
<1>1. PICK k \in 1..L : stack[k].name = d
  BY DEF IInv, Path, OnStack
<1> DEFINE S == {stack[i].name : i \in k..L}
<1>2. L \in Nat /\ \A i \in 1..L : stack[i].name \in plugins_
  BY FrameTyping
<1>3. S \subseteq plugins_ /\ d \in S
  BY <1>1, <1>2
<1>4. ASSUME NEW i \in k..L PROVE \E m \in S : m \in deps[stack[i].name]
  <2>1. CASE i = L
    <3>1. d \in deps[stack[L].name]
      BY <1>1, <1>2 DEF IInv, Path, OnStack, top
    <3> QED BY <1>3, <2>1, <3>1
  <2>2. CASE i # L
    <3>1. i \in 1..L /\ i + 1 \in 1..L /\ i + 1 \in k..L
      BY <1>1, <1>2, <2>2
    <3>2. stack[i + 1].name \in deps[stack[i].name]
      BY <3>1 DEF IInv, Path, Chain
    <3> QED BY <3>1, <3>2
  <2> QED BY <2>1, <2>2
<1>5. \A n \in S : \E m \in S : m \in deps[n]
  BY <1>4, Zenon
<1> HIDE DEF S
<1> QED BY <1>3, <1>5 DEF Cyclic

LEMMA VisitDependencyIInv == ASSUME IInv, VisitDependency PROVE IInv'
<1>0. /\ phase = "visit" /\ stack # <<>>
      /\ UNCHANGED <<plugins_, deps, initialized, op, queue, failed, files>>
  BY DEF VisitDependency
<1>1. PICK d \in top.left :
        LET frames == [stack EXCEPT ![Len(stack)].left = @ \ {d}]
        IN  IF d \in plugins_ /\ d \in visiting
            THEN phase' = "throw" /\ UNCHANGED dfsVars
            ELSE /\ UNCHANGED phase
                 /\ IF d \in plugins_ \ visited THEN Enter(d, frames)
                    ELSE stack' = frames /\ UNCHANGED <<visiting, visited, result>>
  BY Zenon DEF VisitDependency
<1>a. /\ Without(d) \in Seq([name : plugins_, left : SUBSET Names])
      /\ Len(Without(d)) = Len(stack) /\ Len(stack) \in Nat
      /\ \A i \in 1..Len(stack) : /\ Without(d)[i].name = stack[i].name
                                  /\ Without(d)[i].left \subseteq stack[i].left
                                  /\ i < Len(stack) => Without(d)[i].left = stack[i].left
      /\ Without(d)[Len(stack)].left = top.left \ {d}
      /\ d \in deps[top.name]
  BY <1>0, FramesTyping, Zenon
<1>2. CASE d \in plugins_ /\ d \in visiting
  <2>1. Cyclic
    BY <1>0, <1>2, StackCycle
  <2>2. Cyclic'
    BY <1>0, <2>1 DEF Cyclic
  <2>3. phase' = "throw" /\ UNCHANGED dfsVars
    BY <1>1, <1>2
  <2>4. TypeOK'
    BY <1>0, <2>3 DEF dfsVars, IInv, TypeOK
  <2>5. Path'
    BY <1>0, <2>3 DEF dfsVars, IInv, Path, OnStack, Distinct, Chain, DealtWith
  <2>6. Sorted' /\ Acyclic'
    BY <1>0, <2>3, ZenonT(30) DEF dfsVars, IInv, Sorted, Acyclic, CycleIn
  <2> QED BY <1>0, <2>2, <2>3, <2>4, <2>5, <2>6 DEF IInv, Idle, Loops
<1>3. CASE d \in plugins_ \ (visited \cup visiting)
  <2>1. Enter(d, Without(d)) /\ phase' = phase
    BY <1>1, <1>3 DEF Without
  <2> QED BY <1>0, <1>3, <1>a, <2>1, EnterIInv, Zenon
<1>4. CASE d \notin plugins_ \/ (d \in visited /\ d \notin visiting)
  <2>1. /\ stack' = Without(d) /\ phase' = phase
        /\ UNCHANGED <<visiting, visited, result>>
    BY <1>1, <1>4 DEF Without
  <2>2. TypeOK'
    BY <1>0, <1>a, <2>1 DEF IInv, TypeOK
  <2>3. OnStack' /\ Distinct' /\ Chain'
    <3>1. /\ Len(stack') = Len(stack) /\ deps' = deps /\ visiting' = visiting
          /\ \A i \in 1..Len(stack) : /\ stack'[i].name = stack[i].name
                                      /\ stack'[i].left \subseteq stack[i].left
      BY <1>0, <1>a, <2>1, Zenon
    <3>2. OnStack'
      BY <3>1, Zenon DEF IInv, Path, OnStack
    <3>3. Distinct'
      BY <3>1 DEF IInv, Path, Distinct
    <3>4. Chain'
      BY <3>1 DEF IInv, Path, Chain
    <3> QED BY <3>2, <3>3, <3>4, Zenon
  <2>4. DealtWith'
    <3> SUFFICES ASSUME NEW i \in 1..Len(stack), NEW c \in plugins_,
                        c \in deps[stack[i].name], c \notin Without(d)[i].left
                 PROVE  c \in visited \/ (i < Len(stack) /\ c = Without(d)[i + 1].name)
      BY <1>0, <1>a, <2>1, Zenon DEF DealtWith
    <3>1. c \notin stack[i].left \/ c = d
      BY <1>a DEF top
    <3>2. c = d => c \in visited
      BY <1>4, Zenon
    <3>3. c \in visited \/ (i < Len(stack) /\ c = stack[i + 1].name)
      BY <3>1, <3>2, Zenon DEF IInv, Path, DealtWith
    <3> QED BY <1>a, <3>3
  <2>5. Sorted' /\ Acyclic'
    BY <1>0, <2>1 DEF IInv, Sorted, Acyclic, CycleIn
  <2> QED BY <1>0, <2>1, <2>2, <2>3, <2>4, <2>5 DEF IInv, Path, Idle, Loops
<1> QED
  <2>1. visited \cap visiting = {}
    BY DEF IInv, Sorted
  <2> QED BY <2>1, <1>2, <1>3, <1>4

(* What is left of a sequence without its last element. *)
LEMMA Popped ==
    ASSUME NEW S, NEW s \in Seq(S), s # <<>>
    PROVE  /\ SubSeq(s, 1, Len(s) - 1) \in Seq(S)
           /\ Len(SubSeq(s, 1, Len(s) - 1)) = Len(s) - 1
           /\ \A i \in 1..(Len(s) - 1) : SubSeq(s, 1, Len(s) - 1)[i] = s[i]
<1> DEFINE n == Len(s) - 1
<1>1. n \in Nat /\ n <= Len(s) /\ Len(s) \in Nat
  OBVIOUS
<1> HIDE DEF n
<1>2. SubSeq(s, 1, n) \in Seq(S)
  BY <1>1
<1>3. Len(SubSeq(s, 1, n)) = n
  BY <1>1
<1>4. \A i \in 1..n : SubSeq(s, 1, n)[i] = s[i]
  BY <1>1
<1> QED BY <1>2, <1>3, <1>4 DEF n

(* The top of the stack is popped, and its name is the last of the result.   *)
LEMMA VisitEndIInv == ASSUME IInv, VisitEnd PROVE IInv'
<1> DEFINE L == Len(stack)
<1> DEFINE R == Len(result)
<1> DEFINE n == top.name
<1>1. /\ phase = "visit" /\ phase' = phase /\ stack # <<>> /\ top.left = {}
      /\ visiting' = visiting \ {n} /\ visited' = visited \cup {n}
      /\ result' = Append(result, n) /\ stack' = SubSeq(stack, 1, L - 1)
      /\ UNCHANGED <<plugins_, deps, initialized, op, queue, failed, files>>
  BY Zenon DEF VisitEnd
<1>2. /\ L \in Nat /\ L \in 1..L /\ stack[L] = top /\ n \in plugins_ /\ n \in visiting
      /\ n \notin visited
  BY <1>1, FrameTyping DEF top, IInv, Path, OnStack, Sorted
<1>3. /\ stack' \in Seq([name : plugins_, left : SUBSET Names])
      /\ Len(stack') = L - 1
      /\ \A i \in 1..(L - 1) : stack'[i] = stack[i]
  <2> DEFINE F == [name : plugins_, left : SUBSET Names]
  <2>1. stack \in Seq(F)
    BY DEF IInv, TypeOK
  <2> HIDE DEF F
  <2>2. stack' \in Seq(F) /\ Len(stack') = L - 1 /\ \A i \in 1..(L - 1) : stack'[i] = stack[i]
    BY <1>1, <2>1, Popped, Zenon
  <2> QED BY <2>2 DEF F
<1>4. /\ R \in Nat /\ result' \in Seq(plugins_) /\ Len(result') = R + 1 /\ result'[R + 1] = n
      /\ \A i \in 1..R : result'[i] = result[i]
  BY <1>1, <1>2 DEF IInv, TypeOK
<1> HIDE DEF L, R, n
<1>5. TypeOK'
  BY <1>1, <1>2, <1>3, <1>4, Zenon DEF IInv, TypeOK
<1>6. /\ \A i \in 1..(L - 1) : i \in 1..L /\ stack[i].name # n
      /\ \A m \in visiting : m # n => \E i \in 1..(L - 1) : stack[i].name = m
  BY <1>2 DEF IInv, Path, Distinct, OnStack, L, n
<1>7. OnStack'
  BY <1>1, <1>3, <1>6 DEF IInv, Path, OnStack, L
<1>8. Distinct'
  BY <1>1, <1>3, <1>6 DEF IInv, Path, Distinct, L
<1>9. Chain'
  BY <1>1, <1>3, <1>6 DEF IInv, Path, Chain, L
<1>10. DealtWith'
  <2> SUFFICES ASSUME NEW i \in 1..(L - 1), NEW d \in plugins_,
                      d \in deps[stack[i].name], d \notin stack[i].left
               PROVE  d \in visited \/ d = n \/ (i < L - 1 /\ d = stack'[i + 1].name)
    BY <1>1, <1>3 DEF DealtWith
  <2>1. d \in visited \/ (i < L /\ d = stack[i + 1].name)
    BY <1>6, Zenon DEF IInv, Path, DealtWith, L
  <2>2. CASE i = L - 1
    BY <1>2, <2>1, <2>2 DEF n
  <2>3. CASE i < L - 1
    BY <1>2, <1>3, <2>1, <2>3
  <2> QED BY <1>2, <2>2, <2>3
<1>11. deps[n] \cap plugins_ \subseteq visited
  BY <1>1, <1>2 DEF IInv, Path, DealtWith, L, n
<1>12. n \notin deps[n]
  BY <1>2, <1>11, Zenon
<1>13. Sorted'
  <2>1. /\ visiting' \cap visited' = {}
        /\ \A m \in visited' : deps'[m] \cap plugins_' \subseteq visited'
    BY <1>1, <1>11, Zenon DEF IInv, Sorted
  <2>2. /\ \A m \in visited' : \E i \in 1..(R + 1) : result'[i] = m
        /\ \A i \in 1..(R + 1) : result'[i] \in visited'
    BY <1>1, <1>4 DEF IInv, Sorted, R
  <2>3. \A i \in 1..R : result'[i] # n
    BY <1>2, <1>4, Zenon DEF IInv, Sorted, R
  <2>4. \A i, j \in 1..(R + 1) : result'[i] = result'[j] => i = j
    BY <1>4, <2>3 DEF IInv, Sorted, R
  <2>5. ASSUME NEW i \in 1..(R + 1), NEW j \in 1..(R + 1), result'[j] \in deps[result'[i]]
        PROVE  j < i
    <3>1. CASE i = R + 1
      BY <1>4, <1>12, <2>5, <3>1
    <3>2. CASE i \in 1..R /\ j = R + 1
      <4>1. n \in visited
        BY <1>2, <1>4, <2>5, <3>2, Zenon DEF IInv, Sorted, R
      <4> QED BY <1>2, <4>1, Zenon
    <3>3. CASE i \in 1..R /\ j \in 1..R
      BY <1>4, <2>5, <3>3, Zenon DEF IInv, Sorted, R
    <3> QED BY <1>4, <3>1, <3>2, <3>3
  <2> QED BY <1>1, <1>4, <2>1, <2>2, <2>4, <2>5 DEF Sorted
<1>14. Acyclic'
  <2> SUFFICES ASSUME NEW S \in SUBSET (visited \cup {n}), CycleIn(S)
               PROVE  FALSE
    BY <1>1, Zenon DEF Acyclic, CycleIn
  <2>1. \A k \in visited \cap S : \E m \in S \ {n} : m \in deps[k]
    BY <1>2 DEF IInv, TypeOK, Sorted, CycleIn
  <2>2. n \in S => \E m \in S \ {n} : m \in deps[n]
    BY <1>12, Zenon DEF CycleIn
  <2>3. CycleIn(S \ {n}) /\ S \ {n} \in SUBSET visited
    BY <2>1, <2>2, Zenon DEF CycleIn
  <2> QED BY <2>3 DEF IInv, Acyclic
<1> QED BY <1>1, <1>5, <1>7, <1>8, <1>9, <1>10, <1>13, <1>14, Zenon DEF IInv, Path, Idle, Loops

(* A step that leaves the search alone preserves what is said about it.      *)
LEMMA SearchUnchanged ==
    ASSUME IInv, UNCHANGED <<plugins_, deps, dfsVars>>
    PROVE  Path' /\ Sorted' /\ Acyclic'
BY DEF IInv, Path, OnStack, Distinct, Chain, DealtWith, Sorted, Acyclic, CycleIn, dfsVars

LEMMA CallIInv == ASSUME IInv, NEW call \in {"getLoadOrder", "initializeAll", "shutdownAll"},
                         Call(call)
                  PROVE  IInv'
BY SearchUnchanged, Zenon DEF Call, IInv, TypeOK, Idle, Loops, dfsVars

LEMMA OrderedIInv == ASSUME IInv, Ordered PROVE IInv'
<1> DEFINE R == Len(result)
<1>1. R \in Nat /\ result \in Seq(plugins_)
  BY DEF IInv, TypeOK
<1>2. /\ reversed \in Seq(plugins_) /\ Len(reversed) = R
      /\ \A i \in 1..R : reversed[i] = result[R - i + 1]
  <2>1. reversed = [i \in 1..R |-> result[(R - i) + 1]]
    BY DEF reversed
  <2>2. \A i \in 1..R : result[(R - i) + 1] \in plugins_
    BY <1>1
  <2>3. reversed \in [1..R -> plugins_]
    BY <2>1, <2>2
  <2> QED BY <1>1, <2>1, <2>3
<1>3. queue' \in Seq(plugins_)
  BY <1>1, <1>2 DEF Ordered
<1>4. TypeOK'
  BY <1>3 DEF Ordered, IInv, TypeOK, dfsVars
<1>5. Path' /\ Sorted' /\ Acyclic'
  BY SearchUnchanged DEF Ordered
<1>6. Loops'
  <2>1. CASE op = "initializeAll"
    BY <1>1, <2>1 DEF Ordered, Loops, dfsVars
  <2>2. CASE op = "shutdownAll"
    <3>1. queue' = reversed /\ UNCHANGED <<op, result, stack, plugins_, visited>>
      BY <2>2, Zenon DEF Ordered, dfsVars
    <3>2. Len(queue') = R /\ \A i \in 1..R : queue'[i] = result[R + 1 - i]
      BY <1>1, <1>2, <3>1
    <3> QED BY <1>1, <2>2, <3>1, <3>2 DEF Ordered, Loops
  <2>3. CASE op \notin {"initializeAll", "shutdownAll"}
    <3>1. queue' = <<>> /\ UNCHANGED <<op, result, stack, plugins_, visited>>
      BY <2>3 DEF Ordered, dfsVars
    <3>2. Len(queue') <= Len(result')
      BY <1>1, <3>1
    <3> QED BY <2>3, <3>1, <3>2, Zenon DEF Ordered, Loops
  <2> QED BY <2>1, <2>2, <2>3, Zenon
<1> QED BY <1>4, <1>5, <1>6, Zenon DEF Ordered, IInv, Idle

(* The head of a loop's queue, and the queue without it. *)
LEMMA QueueTyping ==
    ASSUME IInv, queue # <<>>
    PROVE  /\ Len(queue) \in Nat \ {0} /\ Len(result) \in Nat
           /\ Head(queue) = queue[1] /\ Head(queue) \in plugins_
           /\ Tail(queue) \in Seq(plugins_) /\ Len(Tail(queue)) = Len(queue) - 1
           /\ \A i \in 1..(Len(queue) - 1) : Tail(queue)[i] = queue[i + 1]
BY DEF IInv, TypeOK

LEMMA InitializeNextIInv == ASSUME IInv, InitializeNext PROVE IInv'
<1> DEFINE R == Len(result)
<1> DEFINE Q == Len(queue)
<1> DEFINE n == Head(queue)
<1> DEFINE Blocked(m) == \E d \in deps[m] : d \notin plugins_ \/ d \notin initialized'
<1>1. /\ phase = "run" /\ op = "initializeAll" /\ queue # <<>> /\ Initialize(n)
      /\ failed' = IF n \in initialized' \/ ~validateDependencies(n) THEN failed ELSE failed \cup {n}
      /\ queue' = Tail(queue)
      /\ UNCHANGED <<plugins_, deps, op, phase, dfsVars, files>>
  BY DEF InitializeNext
<1>2. /\ Q \in Nat \ {0} /\ R \in Nat /\ n = queue[1] /\ n \in plugins_
      /\ queue' \in Seq(plugins_) /\ Len(queue') = Q - 1
      /\ \A i \in 1..(Q - 1) : queue'[i] = queue[i + 1]
  BY <1>1, QueueTyping
<1>3. /\ Q <= R /\ \A i \in 1..Q : queue[i] = result[R - Q + i]
      /\ \A i \in 1..(R - Q) : \/ result[i] \in initialized \/ result[i] \in failed
                               \/ ~validateDependencies(result[i])
      /\ stack = <<>> /\ plugins_ \subseteq visited
  BY <1>1 DEF IInv, Loops
<1>4. \A i, j \in 1..R : result[j] \in deps[result[i]] => j < i
  BY Zenon DEF IInv, Sorted
<1>5. initialized' \subseteq plugins_ /\ initialized' \in {initialized, initialized \cup {n}}
  BY <1>1, <1>2, Zenon DEF Initialize, IInv, TypeOK
<1> HIDE DEF R, Q, n
<1>6. TypeOK'
  BY <1>1, <1>2, <1>5, Zenon DEF IInv, TypeOK, dfsVars
<1>7. n = result[R - Q + 1] /\ R - Q + 1 \in 1..R
  BY <1>2, <1>3
<1>8. \A i \in 1..(R - Q) : \/ result[i] \in initialized' \/ result[i] \in failed'
                            \/ Blocked(result[i])
  <2> TAKE i \in 1..(R - Q)
  <2>1. n \notin deps[result[i]]
    <3>0. Q \in Nat /\ R \in Nat /\ Q <= R
      BY <1>2, <1>3
    <3>1. i \in 1..R /\ ~(R - Q + 1 < i)
      BY <3>0
    <3> QED BY <1>4, <1>7, <3>1, Zenon
  <2>2. ~validateDependencies(result[i]) => Blocked(result[i])
    BY <1>1, <1>5, <2>1, Zenon DEF validateDependencies, isDependencySatisfied, dfsVars
  <2> QED BY <1>1, <1>3, <1>5, <2>2, Zenon
<1>9. n \in initialized' \/ n \in failed' \/ Blocked(n)
  BY <1>1, <1>5, Zenon DEF validateDependencies, isDependencySatisfied
<1>10. Loops'
  <2>1. \A i \in 1..(Q - 1) : queue'[i] = result[R - (Q - 1) + i]
    <3> TAKE i \in 1..(Q - 1)
    <3>1. i + 1 \in 1..Q /\ R - Q + (i + 1) = R - (Q - 1) + i
      BY <1>2
    <3>2. queue'[i] = queue[i + 1] /\ queue[i + 1] = result[R - Q + (i + 1)]
      BY <1>2, <1>3, <3>1, Zenon
    <3> QED BY <3>1, <3>2
  <2>2. \A i \in 1..(R - (Q - 1)) : \/ result[i] \in initialized' \/ result[i] \in failed'
                                    \/ Blocked(result[i])
    <3> HIDE DEF Blocked
    <3> QED BY <1>2, <1>3, <1>7, <1>8, <1>9
  <2>3. /\ result' = result /\ op' = op /\ phase' = phase /\ stack' = stack
        /\ UNCHANGED <<plugins_, visited>>
    BY <1>1 DEF dfsVars
  <2>4. Len(queue') <= Len(result')
    <3>1. Q \in Nat /\ R \in Nat /\ Q <= R /\ Len(queue') = Q - 1
      BY <1>2, <1>3
    <3>2. Len(result') = R
      BY <2>3 DEF R
    <3> QED BY <3>1, <3>2
  <2>5. \A i \in 1..(R - (Q - 1)) : \/ result'[i] \in initialized' \/ result'[i] \in failed'
                                    \/ ~validateDependencies(result[i])'
    BY <1>1, <2>2, <2>3, Zenon DEF validateDependencies, isDependencySatisfied
  <2> QED BY <1>1, <1>2, <1>3, <2>1, <2>3, <2>4, <2>5, Zenon DEF Loops, R
<1> QED BY <1>1, <1>6, <1>10, SearchUnchanged DEF IInv, Idle

LEMMA ShutdownNextIInv == ASSUME IInv, ShutdownNext PROVE IInv'
<1> DEFINE R == Len(result)
<1> DEFINE Q == Len(queue)
<1> DEFINE n == Head(queue)
<1>1. /\ phase = "run" /\ op = "shutdownAll" /\ queue # <<>>
      /\ initialized' \subseteq initialized
      /\ failed' = IF n \in initialized' THEN failed \cup {n} ELSE failed
      /\ queue' = Tail(queue)
      /\ UNCHANGED <<plugins_, deps, op, phase, dfsVars, files>>
  BY DEF ShutdownNext
<1>2. /\ Q \in Nat \ {0} /\ R \in Nat /\ n = queue[1] /\ n \in plugins_
      /\ queue' \in Seq(plugins_) /\ Len(queue') = Q - 1
      /\ \A i \in 1..(Q - 1) : queue'[i] = queue[i + 1]
  BY <1>1, QueueTyping, Zenon
<1>3. /\ Q <= R /\ \A i \in 1..Q : queue[i] = result[Q + 1 - i]
      /\ \A i \in 1..R : i > Q /\ result[i] \in initialized => result[i] \in failed
      /\ stack = <<>> /\ plugins_ \subseteq visited
  BY <1>1, Zenon DEF IInv, Loops
<1> HIDE DEF R, Q, n
<1>4. TypeOK'
  BY <1>1, <1>2, Zenon DEF IInv, TypeOK, dfsVars
<1>5. n = result[Q]
  BY <1>2, <1>3
<1>6. Loops'
  <2>1. \A i \in 1..(Q - 1) : queue'[i] = result[(Q - 1) + 1 - i]
    BY <1>2, <1>3
  <2>2. ASSUME NEW i \in 1..R, i > Q - 1, result[i] \in initialized'
        PROVE  result[i] \in failed'
    BY <1>1, <1>2, <1>3, <1>5, <2>2
  <2>3. /\ result' = result /\ op' = op /\ phase' = phase /\ stack' = stack
        /\ UNCHANGED <<plugins_, visited>>
    BY <1>1, Zenon DEF dfsVars
  <2>4. Len(queue') <= Len(result')
    <3>1. Q \in Nat /\ R \in Nat /\ Q <= R /\ Len(queue') = Q - 1
      BY <1>2, <1>3, Zenon
    <3>2. Len(result') = R
      BY <2>3 DEF R
    <3> QED BY <3>1, <3>2
  <2> QED BY <1>1, <1>2, <1>3, <2>1, <2>2, <2>3, <2>4, Zenon DEF Loops, R
<1> QED BY <1>1, <1>4, <1>6, SearchUnchanged, Zenon DEF IInv, Idle

LEMMA ReturnIInv == ASSUME IInv, Return PROVE IInv'
<1>1. /\ phase' = "idle" /\ op' = "none" /\ stack' = <<>> /\ visiting' = {} /\ visited' = {}
      /\ result' = <<>> /\ queue' = <<>> /\ failed' = {}
      /\ UNCHANGED <<plugins_, deps, initialized, files>>
  BY DEF Return
<1>2. Idle'
  BY <1>1, Zenon DEF Idle
<1>3. Path'
  BY <1>1 DEF Path, OnStack, Distinct, Chain, DealtWith
<1>4. Sorted' /\ Acyclic'
  BY <1>1 DEF Sorted, Acyclic, CycleIn
<1>5. Loops'
  BY <1>1, Zenon DEF Loops
<1>6. TypeOK'
  BY <1>1 DEF IInv, TypeOK
<1> QED BY <1>1, <1>2, <1>3, <1>4, <1>5, <1>6, Zenon DEF IInv

LEMMA VisitRootIInv == ASSUME IInv, VisitRoot PROVE IInv'
<1>1. PICK n \in plugins_ \ visited : Enter(n, stack)
  BY DEF VisitRoot
<1>2. /\ phase = "visit" /\ stack = <<>> /\ visiting = {}
      /\ UNCHANGED <<plugins_, deps, initialized, op, phase, queue, failed, files>>
  BY DEF VisitRoot, IInv, Path, OnStack
<1>3. stack \in Seq([name : plugins_, left : SUBSET Names]) /\ 1..Len(stack) = {}
  BY <1>2 DEF IInv, TypeOK
<1> QED BY <1>1, <1>2, <1>3, EnterIInv, Zenon

LEMMA NextIInv == IInv /\ [Next]_vars => IInv'
<1> SUFFICES ASSUME IInv, [Next]_vars PROVE IInv'
  BY Zenon
<1> USE PluginAssumption
<1>1. ASSUME NEW n \in Names, NEW ds \in SUBSET Names, Register(n, ds), files' \in Nat PROVE IInv'
  BY <1>1, IdleIInv, Zenon DEF Register, IInv, TypeOK
<1>2. ASSUME NEW n \in Names, NEW ds \in SUBSET Names, registerPlugin(n, ds) PROVE IInv'
  BY <1>1, <1>2, Zenon DEF registerPlugin, IInv, TypeOK
<1>3. ASSUME NEW n \in Names, unregisterPlugin(n) PROVE IInv'
  <2>1. /\ deps' \in [Names -> SUBSET Names] /\ plugins_' \subseteq Names
        /\ initialized' \subseteq plugins_'
    BY <1>3 DEF unregisterPlugin, IInv, TypeOK
  <2>2. phase = "idle" /\ UNCHANGED callVars /\ files' \in Nat
    BY <1>3 DEF unregisterPlugin, IInv, TypeOK
  <2> QED BY <2>1, <2>2, IdleIInv
<1>4. ASSUME NEW n \in Names, initializePlugin(n) PROVE IInv'
  BY <1>4, IdleIInv DEF initializePlugin, Initialize, IInv, TypeOK
<1>5. ASSUME NEW n \in Names, shutdownPlugin(n) PROVE IInv'
  BY <1>5, IdleIInv, Zenon DEF shutdownPlugin, IInv, TypeOK
<1>6. ASSUME UNCHANGED <<plugins_, deps, initialized, callVars>>, files' \in Nat PROVE IInv'
  <2>1. TypeOK'
    BY <1>6, Zenon DEF callVars, dfsVars, IInv, TypeOK
  <2>2. Loops'
    BY <1>6, Zenon DEF callVars, dfsVars, IInv, Loops, validateDependencies, isDependencySatisfied
  <2>3. (phase = "throw" => Cyclic)'
    BY <1>6 DEF callVars, IInv, Cyclic
  <2> QED BY <1>6, <2>1, <2>2, <2>3, SearchUnchanged, Zenon DEF callVars, dfsVars, IInv, Idle
<1>7. CASE loadPluginsFromDirectory
  BY <1>6, <1>7 DEF loadPluginsFromDirectory
<1>8. CASE LoadFile
  <2>1. files' \in Nat
    BY <1>8 DEF LoadFile, IInv, TypeOK
  <2> QED BY <1>1, <1>6, <1>8, <2>1, Zenon DEF LoadFile
<1>9. ASSUME NEW call \in {"getLoadOrder", "initializeAll", "shutdownAll"}, Call(call) PROVE IInv'
  BY <1>9, CallIInv, Zenon
<1>10. CASE Step
  BY <1>10, VisitRootIInv, VisitDependencyIInv, VisitEndIInv, OrderedIInv, InitializeNextIInv,
     ShutdownNextIInv, ReturnIInv, Zenon DEF Step
<1>11. CASE UNCHANGED vars
  BY <1>6, <1>11 DEF vars, IInv, TypeOK
<1> QED BY <1>2, <1>3, <1>4, <1>5, <1>7, <1>8, <1>9, <1>10, <1>11 DEF Next

-----------------------------------------------------------------------------
LEMMA SpecIInv == Spec => []IInv
BY InitIInv, NextIInv, PTL DEF Spec

(* The registry's state keeps its type: in particular nothing is initialized *)
(* that is not registered, and the search never leaves the registered ones.  *)
THEOREM TypeCorrect == Spec => []TypeOK
<1>1. IInv => TypeOK
  BY DEF IInv
<1> QED BY <1>1, SpecIInv, PTL

(* On every dependency graph the search throws only if there is a cycle, and *)
(* gives an order only if there is none.                                     *)
THEOREM CyclesFound == Spec => []CycleIffThrow
<1>1. IInv => CycleIffThrow
  <2> SUFFICES ASSUME IInv, phase = "run", Cyclic PROVE FALSE
    BY DEF CycleIffThrow, IInv
  <2>1. PICK S \in SUBSET plugins_ : S # {} /\ \A n \in S : \E m \in S : m \in deps[n]
    BY Zenon DEF Cyclic
  <2>2. S \in SUBSET visited /\ CycleIn(S)
    BY <2>1, Zenon DEF IInv, Loops, CycleIn
  <2> QED BY <2>2 DEF IInv, Acyclic
<1> QED BY <1>1, SpecIInv, PTL

(* The load order is a topological order of the registered plugins. *)
THEOREM OrderIsTopological == Spec => []LoadOrder
<1>1. IInv => LoadOrder
  BY Zenon DEF IInv, LoadOrder, Loops, Sorted
<1> QED BY <1>1, SpecIInv, PTL

(* The loops leave no plugin out. *)
THEOREM LoopsComplete == Spec => []NothingLeftOut
<1>1. IInv => NothingLeftOut
  <2> SUFFICES ASSUME IInv, phase = "run", queue = <<>> PROVE NothingLeftOut
    BY DEF NothingLeftOut
  <2>1. Len(queue) = 0 /\ Len(result) \in Nat
    BY DEF IInv, TypeOK
  <2>2. \A n \in plugins_ : \E i \in 1..Len(result) : result[i] = n
    BY Zenon DEF IInv, Loops, Sorted
  <2>3. op = "initializeAll" =>
          \A n \in plugins_ \ initialized : n \in failed \/ ~validateDependencies(n)
    BY <2>1, <2>2 DEF IInv, Loops
  <2>4. op = "shutdownAll" => initialized \subseteq failed
    BY <2>1, <2>2 DEF IInv, TypeOK, Loops
  <2> QED BY <2>3, <2>4 DEF NothingLeftOut
<1> QED BY <1>1, SpecIInv, PTL

(* shutdownAllPlugins() shuts every plugin down after its dependents. *)
THEOREM ShutdownOrder == Spec => DependentsFirst
<1> DEFINE A == op = "shutdownAll" =>
                   \A n \in initialized \ initialized' : \A m \in initialized : n \in deps[m] => m \in failed
<1>1. IInv /\ [Next]_vars => [A]_vars
  <2> SUFFICES ASSUME IInv, Next, op = "shutdownAll", NEW n \in initialized \ initialized',
                      NEW m \in initialized, n \in deps[m]
               PROVE  m \in failed
    BY Zenon DEF vars
  <2>1. phase # "idle"
    BY Zenon DEF IInv, Idle
  <2>2. ShutdownNext
    BY <2>1, Zenon DEF Next, Step, registerPlugin, Register, unregisterPlugin, initializePlugin,
       shutdownPlugin, loadPluginsFromDirectory, LoadFile, Call, VisitRoot, VisitDependency,
       VisitEnd, Ordered, InitializeNext, Return
  <2>3. phase = "run" /\ queue # <<>> /\ n = Head(queue)
    BY <2>2, Zenon DEF ShutdownNext
  <2>4. /\ Len(queue) \in Nat \ {0} /\ Len(queue) <= Len(result) /\ n = result[Len(queue)]
        /\ Len(result) \in Nat
    BY <2>3, QueueTyping DEF IInv, Loops
  <2>5. PICK i \in 1..Len(result) : result[i] = m
    BY <2>3, Zenon DEF IInv, TypeOK, Loops, Sorted
  <2>6. Len(queue) < i
    BY <2>4, <2>5 DEF IInv, Sorted
  <2>7. \A j \in 1..Len(result) :
          j > Len(queue) /\ result[j] \in initialized => result[j] \in failed
    BY <2>3 DEF IInv, Loops
  <2> QED BY <2>4, <2>5, <2>6, <2>7, Zenon
<1>2. [][A]_vars => DependentsFirst
  BY Zenon DEF DependentsFirst
<1> QED BY <1>1, <1>2, SpecIInv, PTL DEF Spec

-----------------------------------------------------------------------------
(***************************************************************************)
(* ResourceMonitor                                                         *)
(***************************************************************************)

ClientSteps == {"idle", "read", "evict", "join", "destroyJoin", "destroyed"}

(* The steps of the monitoring thread at which it holds monitoring_mutex_,   *)
(* and among them those at which it deals with one group.                    *)
GroupSteps ==
    {"collectRead", "collectEvict", "store", "alertRead", "alertEvict", "compare", "trigger"}
RoundSteps == GroupSteps \cup {"collect", "alerts"}
MonitorSteps == RoundSteps \cup {"none", "loop", "collectLock", "alertsLock", "done"}

(* Where the threads are, and the group each of them deals with. *)
Positions ==
    /\ at \in [Threads -> ClientSteps \cup MonitorSteps]
    /\ \A t \in Clients : at[t] \in ClientSteps
    /\ at[Monitor] \in MonitorSteps
    /\ \A t \in Clients : at[t] \in {"read", "evict"} => cur[t] \in Groups
    /\ at[Monitor] \in GroupSteps => cur[Monitor] \in Groups

(* Who holds monitoring_mutex_, and what is true while a client does: it     *)
(* waits in stopMonitoring() for a thread that has been told to end.         *)
Locks ==
    /\ \A t \in Clients : at[t] = "join" <=> monitoring_mutex_ = t
    /\ at[Monitor] \in RoundSteps => monitoring_mutex_ = Monitor
    /\ monitoring_mutex_ \in Clients =>
          Usable /\ ~monitoring_active_ /\ monitored_cgroups_ = {} /\ at[Monitor] # "none"

MonitorIInv == MonitorTypeOK /\ Positions /\ Locks /\ ThreadIffGroups

LEMMA MonitorInitIInv == MonitorInit => MonitorIInv
<1> SUFFICES ASSUME MonitorInit PROVE MonitorIInv
  BY Zenon
<1> USE MonitorAssumption DEF MonitorInit, Threads
<1>1. MonitorTypeOK
  <2>1. metrics_history_ \in [Groups -> 0..MaxHistory]
    OBVIOUS
  <2>2. cur \in [Threads -> Groups \cup {NoGroup}] /\ listed \in [Threads -> SUBSET Procs]
    OBVIOUS
  <2>3. dir \in [Groups -> BOOLEAN] /\ member \in [Procs -> Groups \cup {Root}]
    BY DEF TreeInit
  <2> QED BY <2>1, <2>2, <2>3, Zenon DEF MonitorTypeOK
<1>2. Positions
  BY DEF Positions, ClientSteps, MonitorSteps, RoundSteps, GroupSteps
<1>3. Locks
  BY Zenon DEF Locks, RoundSteps, GroupSteps
<1>4. ThreadIffGroups
  BY DEF ThreadIffGroups
<1> QED BY <1>1, <1>2, <1>3, <1>4, Zenon DEF MonitorIInv

(* What any manager does to the groups keeps their types. *)
LEMMA TreeTyping ==
    ASSUME MonitorTypeOK, [TreeNext]_treeVars
    PROVE  dir' \in [Groups -> BOOLEAN] /\ member' \in [Procs -> Groups \cup {Root}]
<1>0. dir \in [Groups -> BOOLEAN] /\ member \in [Procs -> Groups \cup {Root}]
  BY Zenon DEF MonitorTypeOK
<1>1. ASSUME NEW g \in Groups, MakeGroup(g)
      PROVE  dir' \in [Groups -> BOOLEAN] /\ member' \in [Procs -> Groups \cup {Root}]
  BY <1>0, <1>1 DEF MakeGroup
<1>2. ASSUME NEW g \in Groups, NEW p \in Procs, addProcess(g, p) \/ removeProcess(g, p)
      PROVE  dir' \in [Groups -> BOOLEAN] /\ member' \in [Procs -> Groups \cup {Root}]
  BY <1>0, <1>2 DEF addProcess, removeProcess
<1>3. ASSUME NEW g \in Groups, NEW moved \in SUBSET Procs, DestroyGroup(g, moved)
      PROVE  dir' \in [Groups -> BOOLEAN] /\ member' \in [Procs -> Groups \cup {Root}]
  BY <1>0, <1>3, Zenon DEF DestroyGroup
<1>4. CASE UNCHANGED treeVars
  BY <1>0, <1>4 DEF treeVars
<1> QED BY <1>1, <1>2, <1>3, <1>4 DEF TreeNext

(* The destructor of a temporary manager is a step of a manager of the path. *)
LEMMA EvictIsTreeStep ==
    ASSUME MonitorTypeOK, NEW t \in Threads, cur[t] \in Groups, Evict(t)
    PROVE  [TreeNext]_treeVars
BY DEF MonitorTypeOK, Evict, TreeNext

(* Every step of the monitor and its environment does to the groups only     *)
(* what a manager may do.                                                    *)
LEMMA NextTree == MonitorIInv /\ [MonitorNext]_monitoringVars => [TreeNext]_treeVars
<1> SUFFICES ASSUME MonitorIInv, [MonitorNext]_monitoringVars PROVE [TreeNext]_treeVars
  OBVIOUS
<1>1. ASSUME NEW t \in Clients, ClientCall(t) PROVE UNCHANGED treeVars
  BY <1>1 DEF ClientCall, startMonitoring, stopMonitoring, setThreshold, getCurrentMetrics, hasAlert,
     DestroyMonitor
<1>2. ASSUME NEW t \in Clients, ClientStep(t) PROVE [TreeNext]_treeVars
  BY <1>2, EvictIsTreeStep, Zenon DEF ClientStep, Join, Read, ClientEvict, MonitorIInv, Positions,
     Threads
<1>3. ASSUME MonitorStep PROVE [TreeNext]_treeVars
  <2>1. ASSUME NEW evict \in {"collectEvict", "alertEvict"}, NEW next, MonitorEvict(evict, next)
        PROVE  [TreeNext]_treeVars
    BY <2>1, EvictIsTreeStep, Zenon DEF MonitorEvict, MonitorIInv, Positions, GroupSteps, Threads
  <2> QED BY <1>3, <2>1, Zenon DEF MonitorStep, Loop, LockRound, NextGroup, Store, EndRound,
             Compare, Alert, Read
<1> QED BY <1>1, <1>2, <1>3 DEF MonitorNext, Owner, monitoringVars, treeVars

(* Types and positions. *)
LEMMA NextTypes == MonitorIInv /\ [MonitorNext]_monitoringVars => MonitorTypeOK' /\ Positions'
<1> SUFFICES ASSUME MonitorIInv, [MonitorNext]_monitoringVars PROVE MonitorTypeOK' /\ Positions'
  OBVIOUS
<1>t. dir' \in [Groups -> BOOLEAN] /\ member' \in [Procs -> Groups \cup {Root}]
  BY NextTree, TreeTyping, Zenon DEF MonitorIInv
<1> USE <1>t, MonitorAssumption
    DEF MonitorIInv, MonitorTypeOK, Positions, Threads, ClientSteps, MonitorSteps, RoundSteps,
        GroupSteps, MonitorGoto, Leave, lockVars, monitorVars, threadVars
<1>1. ASSUME NEW t \in Clients, NEW g \in Groups, startMonitoring(t, g)
      PROVE  MonitorTypeOK' /\ Positions'
  <2>1. MonitorTypeOK'
    BY <1>1, Zenon DEF startMonitoring
  <2>2. at' = at \/ at' = [at EXCEPT ![Monitor] = "loop"]
    BY <1>1 DEF startMonitoring
  <2>3. Positions'
    BY <1>1, <2>2 DEF startMonitoring
  <2> QED BY <2>1, <2>3, Zenon
<1>2. ASSUME NEW t \in Clients, NEW g \in Groups, stopMonitoring(t, g)
      PROVE  MonitorTypeOK' /\ Positions'
  <2>1. MonitorTypeOK'
    BY <1>2, Zenon DEF stopMonitoring
  <2>2. at' = at \/ at' = [at EXCEPT ![t] = "join"]
    BY <1>2 DEF stopMonitoring
  <2>3. Positions'
    BY <1>2, <2>2 DEF stopMonitoring
  <2> QED BY <2>1, <2>3
<1>3. ASSUME NEW t \in Clients, NEW g \in Groups,
             setThreshold(t, g) \/ getCurrentMetrics(t, g) \/ hasAlert(t, g)
      PROVE  MonitorTypeOK' /\ Positions'
  BY <1>3 DEF setThreshold, getCurrentMetrics, hasAlert
<1>4. ASSUME NEW t \in Clients, DestroyMonitor(t) \/ Join(t) PROVE MonitorTypeOK' /\ Positions'
  <2>1. MonitorTypeOK'
    BY <1>4, ZenonT(30) DEF DestroyMonitor, Join
  <2>2. CASE DestroyMonitor(t)
    BY <2>2, ZenonT(30) DEF DestroyMonitor
  <2>3. CASE Join(t)
    BY <2>3 DEF Join
  <2> QED BY <1>4, <2>1, <2>2, <2>3, Zenon
<1>5. ASSUME NEW t \in Threads, Read(t) PROVE MonitorTypeOK' /\ Positions'
  <2>1. MonitorTypeOK'
    BY <1>5, Zenon DEF Read, Members
  <2>2. Positions'
    BY <1>5, Zenon DEF Read
  <2> QED BY <2>1, <2>2, Zenon
<1>6. ASSUME NEW t \in Clients, ClientEvict(t) PROVE MonitorTypeOK' /\ Positions'
  BY <1>6, Zenon DEF ClientEvict
<1>7. CASE Loop
  BY <1>7, Zenon DEF Loop
<1>8. ASSUME NEW lock, NEW round \in {"collect", "alerts"}, LockRound(lock, round)
      PROVE  MonitorTypeOK' /\ Positions'
  BY <1>8, Zenon DEF LockRound
<1>9. ASSUME NEW round, NEW read \in {"collectRead", "alertRead"}, NextGroup(round, read)
      PROVE  MonitorTypeOK' /\ Positions'
  BY <1>9 DEF NextGroup
<1>10. ASSUME NEW round, NEW next \in {"alertsLock", "loop"}, EndRound(round, next)
       PROVE  MonitorTypeOK' /\ Positions'
  BY <1>10 DEF EndRound
<1>11. ASSUME NEW evict \in {"collectEvict", "alertEvict"}, NEW next \in {"store", "compare"},
              MonitorEvict(evict, next)
       PROVE  MonitorTypeOK' /\ Positions'
  BY <1>11, Zenon DEF MonitorEvict
<1>12. CASE Store
  <2>1. cur[Monitor] \in Groups /\ Push(metrics_history_[cur[Monitor]]) \in 0..MaxHistory
    BY <1>12 DEF Store, Push
  <2>2. metrics_history_' \in [Groups -> 0..MaxHistory]
    BY <1>12, <2>1, Zenon DEF Store
  <2> QED BY <1>12, <2>2, Zenon DEF Store
<1>13. CASE Compare \/ Alert
  BY <1>13 DEF Compare, Alert
<1>14. CASE Owner \/ UNCHANGED monitoringVars
  BY <1>14 DEF Owner, monitoringVars
<1> QED BY <1>1, <1>2, <1>3, <1>4, <1>5, <1>6, <1>7, <1>8, <1>9, <1>10, <1>11, <1>12, <1>13,
           <1>14, ZenonT(30) DEF MonitorNext, ClientCall, ClientStep, MonitorStep

(* Who holds monitoring_mutex_, and when there is a monitoring thread. *)
LEMMA NextControl == MonitorIInv /\ [MonitorNext]_monitoringVars => Locks' /\ ThreadIffGroups'
<1> SUFFICES ASSUME MonitorIInv, [MonitorNext]_monitoringVars PROVE Locks' /\ ThreadIffGroups'
  BY Zenon
<1> USE MonitorAssumption
    DEF MonitorIInv, Positions, Threads, ClientSteps, MonitorSteps, RoundSteps, GroupSteps,
        Locks, ThreadIffGroups, Usable, MonitorGoto, Leave, lockVars, monitorVars, threadVars
<1>1. ASSUME NEW t \in Clients, NEW g \in Groups, startMonitoring(t, g)
      PROVE  Locks' /\ ThreadIffGroups'
  <2>1. CASE monitoring_active_
    BY <1>1, <2>1, Zenon DEF startMonitoring
  <2>2. CASE ~monitoring_active_
    BY <1>1, <2>2 DEF startMonitoring
  <2> QED BY <2>1, <2>2, Zenon
<1>2. ASSUME NEW t \in Clients, NEW g \in Groups, stopMonitoring(t, g)
      PROVE  Locks' /\ ThreadIffGroups'
  <2>1. CASE monitored_cgroups_ = {g}
    BY <1>2, <2>1 DEF stopMonitoring
  <2>2. CASE monitored_cgroups_ # {g}
    BY <1>2, <2>2 DEF stopMonitoring
  <2> QED BY <2>1, <2>2, Zenon
<1>3. ASSUME NEW t \in Clients, NEW g \in Groups,
             setThreshold(t, g) \/ getCurrentMetrics(t, g) \/ hasAlert(t, g)
      PROVE  Locks' /\ ThreadIffGroups'
  BY <1>3 DEF setThreshold, getCurrentMetrics, hasAlert
<1>4. ASSUME NEW t \in Clients, DestroyMonitor(t) PROVE Locks' /\ ThreadIffGroups'
  BY <1>4, Zenon DEF DestroyMonitor
<1>5. ASSUME NEW t \in Clients, Join(t) PROVE Locks' /\ ThreadIffGroups'
  <2>1. CASE at[t] = "join"
    BY <1>5, <2>1, Zenon DEF Join
  <2>2. CASE at[t] = "destroyJoin"
    BY <1>5, <2>2, Zenon DEF Join
  <2> QED BY <1>5, <2>1, <2>2, Zenon DEF Join
<1>6. ASSUME NEW t \in Threads, Read(t) PROVE Locks' /\ ThreadIffGroups'
  BY <1>6, Zenon DEF Read
<1>7. ASSUME NEW t \in Clients, ClientEvict(t) PROVE Locks' /\ ThreadIffGroups'
  BY <1>7, Zenon DEF ClientEvict
<1>8. CASE Loop
  BY <1>8, Zenon DEF Loop
<1>9. ASSUME NEW lock \in {"collectLock", "alertsLock"}, NEW round \in {"collect", "alerts"},
             LockRound(lock, round)
      PROVE  Locks' /\ ThreadIffGroups'
  BY <1>9, Zenon DEF LockRound
<1>10. ASSUME NEW round \in {"collect", "alerts"}, NEW read \in {"collectRead", "alertRead"},
              NextGroup(round, read)
       PROVE  Locks' /\ ThreadIffGroups'
  BY <1>10, Zenon DEF NextGroup
<1>11. ASSUME NEW round \in {"collect", "alerts"}, NEW next \in {"alertsLock", "loop"},
              EndRound(round, next)
       PROVE  Locks' /\ ThreadIffGroups'
  BY <1>11, Zenon DEF EndRound
<1>12. ASSUME NEW evict \in {"collectEvict", "alertEvict"}, NEW next \in {"store", "compare"},
              MonitorEvict(evict, next)
       PROVE  Locks' /\ ThreadIffGroups'
  BY <1>12, Zenon DEF MonitorEvict
<1>13. CASE Store \/ Compare \/ Alert
  BY <1>13, Zenon DEF Store, Compare, Alert
<1>14. CASE Owner \/ UNCHANGED monitoringVars
  BY <1>14 DEF Owner, monitoringVars
<1> QED BY <1>1, <1>2, <1>3, <1>4, <1>5, <1>6, <1>7, <1>8, <1>9, <1>10, <1>11, <1>12, <1>13,
           <1>14, Zenon DEF MonitorNext, ClientCall, ClientStep, MonitorStep

-----------------------------------------------------------------------------
LEMMA MonitorSpecIInv == MonitorSpec => []MonitorIInv
<1>1. MonitorIInv /\ [MonitorNext]_monitoringVars => MonitorIInv'
  BY NextTypes, NextControl, Zenon DEF MonitorIInv
<1> QED BY <1>1, MonitorInitIInv, PTL DEF MonitorSpec

(* The monitor's state keeps its type; no history grows past its bound. *)
THEOREM MonitorTyped == MonitorSpec => []MonitorTypeOK
<1>1. MonitorIInv => MonitorTypeOK
  BY DEF MonitorIInv
<1> QED BY <1>1, MonitorSpecIInv, PTL

(* However the clients interleave, there is a monitoring thread exactly when *)
(* there is something to monitor.                                            *)
THEOREM ThreadWhenNeeded == MonitorSpec => []ThreadIffGroups
<1>1. MonitorIInv => ThreadIffGroups
  BY DEF MonitorIInv
<1> QED BY <1>1, MonitorSpecIInv, PTL

(* startMonitoring() never overwrites a std::thread that can be joined. *)
THEOREM ThreadStartedOnce == MonitorSpec => OneThread
<1> DEFINE A == ~monitoring_active_ /\ monitoring_active_' => at[Monitor] = "none"
<1>1. MonitorIInv /\ [MonitorNext]_monitoringVars => [A]_monitoringVars
  <2> SUFFICES ASSUME MonitorIInv, MonitorNext, ~monitoring_active_, monitoring_active_'
               PROVE  at[Monitor] = "none"
    BY ZenonT(30) DEF monitoringVars
  <2>1. PICK t \in Clients, g \in Groups : startMonitoring(t, g)
    BY ZenonT(30) DEF MonitorIInv, MonitorTypeOK, MonitorNext, ClientCall, ClientStep,
       MonitorStep, Owner, stopMonitoring, setThreshold, getCurrentMetrics, hasAlert, DestroyMonitor,
       Join, Read, ClientEvict, Loop, LockRound, NextGroup, EndRound, MonitorEvict, Store, Compare,
       Alert, monitorVars
  <2> QED BY <2>1, MonitorAssumption, Zenon DEF startMonitoring, MonitorIInv, ThreadIffGroups,
             Threads
<1>2. [][A]_monitoringVars => OneThread
  BY DEF OneThread
<1> QED BY <1>1, <1>2, MonitorSpecIInv, PTL DEF MonitorSpec

===============================================================================
