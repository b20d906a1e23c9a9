------------------------- MODULE AgentConfigProofs -------------------------
(***************************************************************************)
(* For any number of commands, edits and crashes and any files to start    *)
(* with: init writes nothing when one of its targets cannot be written;    *)
(* what is not scut's stays; no event grows; a command run again on what   *)
(* it writes changes nothing; and status and doctor see what was written.  *)
(*                                                                         *)
(* The first half is about the merges alone: the foreign groups of a list  *)
(* as a walk along it, what a merge does to one event's groups, and what   *)
(* it does to a file.  The second half is about the commands: the types,   *)
(* and then KeptInv, that every file and every plan is Sound, a file that  *)
(* a command could start from without losing anything of the original.     *)
(***************************************************************************)
EXTENDS AgentConfig, NaturalsInduction, WellFoundedInduction, FiniteSetTheorems, TLAPS

(* init: the preflight. *)

Label == {"start", "preflight", "read", "truncate", "write", "ok", "error", "killed"}

Types ==
    /\ pc \in [Proc -> Label]
    /\ checks \in [Proc -> Seq(Agent)]
    /\ written = [p \in Proc |-> written[p]]
    /\ \A p \in Proc : command[p].agents \subseteq Agent

IsInit(p) == command[p].op = "init"

Denied(p) == command[p].agents \intersect host.denied

(* While an init is in its preflight, what it cannot write is still ahead  *)
(* of it; past it there is no such target, or nothing will be written.     *)
Guarded(p) ==
    IsInit(p) /\ Denied(p) # {} =>
        /\ written[p] = {}
        /\ pc[p] = "preflight" => Denied(p) \subseteq Range(checks[p])
        /\ pc[p] = "read" => command[p].dryRun
        /\ pc[p] \notin {"truncate", "write"}

PreflightInv == Types /\ \A p \in Proc : Guarded(p)

LEMMA PreflightInit == Init => PreflightInv
  <1> SUFFICES ASSUME Init PROVE PreflightInv
    OBVIOUS
  <1>1. Types
    BY AgentConfigAssumption DEF AgentConfigAssumption, Init, Types, Label
  <1>2. ASSUME NEW p \in Proc PROVE Guarded(p)
    BY DEF Init, Guarded
  <1> QED BY <1>1, <1>2 DEF PreflightInv

(* What InOrder lists is the set it is given.                              *)
LEMMA InOrderLists ==
    ASSUME NEW S \in SUBSET Agent
    PROVE  InOrder(S) \in Seq(Agent) /\ S \subseteq Range(InOrder(S))
  <1> DEFINE s == InOrder(S)
  <1> SUFFICES s \in Seq(Agent) /\ S \subseteq Range(s)
    OBVIOUS
  <1>1. CASE S = {}
    <2>1. s = <<>>
      BY <1>1 DEF InOrder
    <2>2. s \in Seq(Agent)
      BY <2>1
    <2> QED BY <1>1, <2>2
  <1>2. CASE S = Agent
    <2>1. s = <<"claude", "codex">>
      <3>1. S # {}
        BY <1>2 DEF Agent
      <3> QED BY <1>2, <3>1 DEF InOrder
    <2>2. s \in Seq(Agent) /\ 1 \in DOMAIN s /\ s[1] = "claude" /\ 2 \in DOMAIN s /\ s[2] = "codex"
      BY <2>1 DEF Agent
    <2>3. "claude" \in Range(s) /\ "codex" \in Range(s)
      BY <2>2 DEF Range
    <2> HIDE DEF s
    <2> QED BY <1>2, <2>2, <2>3 DEF Agent
  <1>3. CASE S # {} /\ S # Agent
    <2>1. PICK a \in Agent : S = {a}
      BY <1>3 DEF Agent
    <2>2. s = <<a>>
      BY <1>3, <2>1 DEF InOrder
    <2>3. s \in Seq(Agent) /\ 1 \in DOMAIN s /\ s[1] = a
      BY <2>2
    <2>4. a \in Range(s)
      BY <2>3 DEF Range
    <2> HIDE DEF s
    <2> QED BY <2>1, <2>3, <2>4
  <1> QED BY <1>1, <1>2, <1>3

(* A step of p that leaves the other commands alone.                       *)
LEMMA OthersKeep ==
    ASSUME PreflightInv, NEW p \in Proc, Types', Guarded(p)', UNCHANGED <<command, host>>,
           \A q \in Proc \ {p} : /\ pc'[q] = pc[q] /\ checks'[q] = checks[q]
                                 /\ written'[q] = written[q]
    PROVE  PreflightInv'
  <1>1. ASSUME NEW q \in Proc \ {p} PROVE Guarded(q)'
    BY <1>1 DEF PreflightInv, Guarded, IsInit, Denied
  <1> QED BY <1>1 DEF PreflightInv

LEMMA StartGuarded == ASSUME PreflightInv, NEW p \in Proc, Start(p) PROVE PreflightInv'
  <1> DEFINE todo == InOrder(Selected(command[p]))
  <1>1. UNCHANGED <<command, host, written>>
    BY DEF Start
  <1>2. CASE IsInit(p) /\ ~command[p].dryRun
    <2>1. pc' = [pc EXCEPT ![p] = "preflight"] /\ checks' = [checks EXCEPT ![p] = todo]
      BY <1>2 DEF Start, Goto, IsInit
    <2>2. Selected(command[p]) \subseteq Agent
      BY <1>2 DEF Selected, IsInit, Detected, PreflightInv, Types
    <2>3. todo \in Seq(Agent) /\ Selected(command[p]) \subseteq Range(todo)
      BY <2>2, InOrderLists
    <2>4. Denied(p) # {} => Selected(command[p]) = command[p].agents
      BY DEF Denied, Selected
    <2>5. Types'
      BY <1>1, <2>1, <2>3 DEF PreflightInv, Types, Label
    <2>6. Guarded(p)'
      BY <1>1, <2>1, <2>3, <2>4 DEF PreflightInv, Types, Guarded, IsInit, Denied
    <2> QED BY <1>1, <2>1, <2>5, <2>6, OthersKeep DEF PreflightInv, Types
  <1>3. CASE ~IsInit(p) \/ command[p].dryRun
    <2>1. pc' = [pc EXCEPT ![p] = "read"] /\ UNCHANGED checks
      BY <1>3 DEF Start, Goto, IsInit
    <2>2. Types'
      BY <1>1, <2>1 DEF PreflightInv, Types, Label
    <2>3. Guarded(p)'
      BY <1>1, <1>3, <2>1 DEF PreflightInv, Types, Guarded, IsInit, Denied
    <2> QED BY <1>1, <2>1, <2>2, <2>3, OthersKeep DEF PreflightInv, Types
  <1> QED BY <1>2, <1>3

(* A target that passes its preflight is none of those that cannot be      *)
(* written, so these are still in the tail.                                *)
LEMMA PreflightStep == ASSUME PreflightInv, NEW p \in Proc, Preflight(p) PROVE PreflightInv'
  <1>1. pc[p] = "preflight" /\ checks[p] # <<>> /\ UNCHANGED <<command, host, written>>
    BY DEF Preflight
  <1>2. CASE Head(checks[p]) \in host.denied
    <2>1. pc' = [pc EXCEPT ![p] = "error"] /\ UNCHANGED checks
      BY <1>2 DEF Preflight, Goto
    <2>2. Types'
      BY <1>1, <2>1 DEF PreflightInv, Types, Label
    <2>3. Guarded(p)'
      BY <1>1, <2>1 DEF PreflightInv, Types, Guarded, IsInit, Denied
    <2> QED BY <1>1, <2>1, <2>2, <2>3, OthersKeep DEF PreflightInv, Types
  <1>3. CASE Head(checks[p]) \notin host.denied
    <2>1. checks' = [checks EXCEPT ![p] = Tail(@)] /\ UNCHANGED pc
      BY <1>3 DEF Preflight
    <2>2. checks[p] \in Seq(Agent) /\ Tail(checks[p]) \in Seq(Agent)
      BY <1>1 DEF PreflightInv, Types
    <2>3. Range(checks[p]) = {Head(checks[p])} \union Range(Tail(checks[p]))
      <3>1. ASSUME NEW i \in DOMAIN checks[p], i # 1 PROVE checks[p][i] = Tail(checks[p])[i - 1] /\ i - 1 \in DOMAIN Tail(checks[p])
        BY <1>1, <2>2, <3>1
      <3>2. ASSUME NEW i \in DOMAIN Tail(checks[p]) PROVE checks[p][i + 1] = Tail(checks[p])[i] /\ i + 1 \in DOMAIN checks[p]
        BY <1>1, <2>2, <3>2
      <3>3. 1 \in DOMAIN checks[p] /\ checks[p][1] = Head(checks[p])
        BY <1>1, <2>2
      <3> QED BY <3>1, <3>2, <3>3 DEF Range
    <2>4. Types'
      BY <1>1, <2>1, <2>2 DEF PreflightInv, Types
    <2>5. Guarded(p)'
      <3>1. IsInit(p) /\ Denied(p) # {} => Denied(p) \subseteq Range(Tail(checks[p]))
        BY <1>1, <1>3, <2>3 DEF PreflightInv, Guarded, Denied
      <3>2. checks'[p] = Tail(checks[p])
        BY <2>1 DEF PreflightInv, Types
      <3> QED BY <1>1, <2>1, <3>1, <3>2 DEF PreflightInv, Guarded, IsInit, Denied
    <2> QED BY <1>1, <2>1, <2>4, <2>5, OthersKeep DEF PreflightInv, Types
  <1> QED BY <1>2, <1>3

LEMMA PreflightedStep == ASSUME PreflightInv, NEW p \in Proc, Preflighted(p) PROVE PreflightInv'
  <1>1. /\ pc[p] = "preflight" /\ checks[p] = <<>> /\ pc' = [pc EXCEPT ![p] = "read"]
        /\ UNCHANGED <<command, host, written, checks>>
    BY DEF Preflighted, Goto
  <1>2. Range(checks[p]) = {}
    BY <1>1 DEF Range
  <1>3. Types'
    BY <1>1 DEF PreflightInv, Types, Label
  <1>4. Guarded(p)'
    BY <1>1, <1>2 DEF PreflightInv, Types, Guarded, IsInit, Denied
  <1> QED BY <1>1, <1>3, <1>4, OthersKeep DEF PreflightInv, Types

(* An init that is at a write has no target that cannot be written; the    *)
(* steps between go nowhere near one.                                      *)
LEMMA CommandSteps ==
    ASSUME PreflightInv, NEW p \in Proc,
           \/ ReadFails(p) \/ NothingToRemove(p) \/ Refuse(p) \/ DryRun(p) \/ MergeFile(p)
           \/ ShowStatus(p) \/ Diagnose(p) \/ Finish(p)
           \/ Truncate(p) \/ Write(p) \/ WriteFails(p) \/ Crash(p)
    PROVE  PreflightInv'
  <1> DEFINE Goes(x) == pc' = [pc EXCEPT ![p] = x] /\ UNCHANGED <<command, host, written, checks>>
  <1>1. ASSUME NEW x \in Label, Goes(x), x \notin {"preflight", "read", "truncate", "write"}
        PROVE  PreflightInv'
    <2>1. Types'
      BY <1>1 DEF PreflightInv, Types
    <2>2. Guarded(p)'
      BY <1>1 DEF PreflightInv, Types, Guarded, IsInit, Denied
    <2> QED BY <1>1, <2>1, <2>2, OthersKeep DEF PreflightInv, Types
  <1>2. CASE ReadFails(p) \/ Refuse(p) \/ WriteFails(p)
    <2>1. Goes("error")
      BY <1>2 DEF ReadFails, Refuse, WriteFails, Goto
    <2> QED BY <2>1, <1>1 DEF Label
  <1>3. CASE Crash(p)
    <2>1. Goes("killed")
      BY <1>3 DEF Crash, Goto
    <2> QED BY <2>1, <1>1 DEF Label
  <1>4. CASE Finish(p)
    <2>1. Goes("error") \/ Goes("ok")
      BY <1>4 DEF Finish, Goto
    <2> QED BY <2>1, <1>1 DEF Label
  <1>5. CASE NothingToRemove(p) \/ DryRun(p) \/ ShowStatus(p) \/ Diagnose(p)
    <2>1. UNCHANGED <<pc, command, host, written, checks>>
      BY <1>5 DEF NothingToRemove, DryRun, ShowStatus, Diagnose
    <2> QED BY <2>1 DEF PreflightInv, Types, Guarded, IsInit, Denied
  <1>6. CASE MergeFile(p)
    <2>1. /\ pc[p] = "read" /\ ~command[p].dryRun
          /\ pc' = [pc EXCEPT ![p] = "truncate"] /\ UNCHANGED <<command, host, written, checks>>
      BY <1>6 DEF MergeFile, Merging, Reading, Goto
    <2>2. Types'
      BY <2>1 DEF PreflightInv, Types, Label
    <2>3. Guarded(p)'
      BY <2>1 DEF PreflightInv, Types, Guarded, IsInit, Denied
    <2> QED BY <2>1, <2>2, <2>3, OthersKeep DEF PreflightInv, Types
  <1>7. CASE Truncate(p)
    <2>1. pc[p] = "truncate" /\ UNCHANGED <<command, host, checks>>
      BY <1>7 DEF Truncate
    <2>2. CASE Head(agents[p]) \in host.denied
      <3>1. Goes("error")
        BY <1>7, <2>2 DEF Truncate, Goto
      <3> QED BY <3>1, <1>1 DEF Label
    <2>3. CASE Head(agents[p]) \notin host.denied
      <3>1. /\ pc' = [pc EXCEPT ![p] = "write"]
            /\ written' = [written EXCEPT ![p] = @ \union {Head(agents[p])}]
            /\ file' = [file EXCEPT ![Head(agents[p])] = Empty]
        BY <1>7, <2>3 DEF Truncate, Goto
      <3>2. Types'
        BY <2>1, <3>1 DEF PreflightInv, Types, Label
      <3>3. Guarded(p)'
        BY <2>1 DEF PreflightInv, Types, Guarded, IsInit, Denied
      <3> QED BY <2>1, <3>1, <3>2, <3>3, OthersKeep DEF PreflightInv, Types
    <2> QED BY <2>2, <2>3
  <1>8. CASE Write(p)
    <2>1. /\ pc[p] = "write" /\ pc' = [pc EXCEPT ![p] = "read"]
          /\ UNCHANGED <<command, host, written, checks>>
      BY <1>8 DEF Write, Goto
    <2>2. Types'
      BY <2>1 DEF PreflightInv, Types, Label
    <2>3. Guarded(p)'
      BY <2>1 DEF PreflightInv, Types, Guarded, IsInit, Denied
    <2> QED BY <2>1, <2>2, <2>3, OthersKeep DEF PreflightInv, Types
  <1> QED BY <1>2, <1>3, <1>4, <1>5, <1>6, <1>7, <1>8

LEMMA PreflightNext == PreflightInv /\ [Next]_vars => PreflightInv'
  <1> SUFFICES ASSUME PreflightInv, [Next]_vars PROVE PreflightInv'
    OBVIOUS
  <1>1. ASSUME NEW a \in Agent, Edit(a) PROVE PreflightInv'
    BY <1>1 DEF Edit, PreflightInv, Types, Guarded, IsInit, Denied
  <1>2. CASE UNCHANGED vars
    BY <1>2 DEF vars, PreflightInv, Types, Guarded, IsInit, Denied
  <1> QED BY <1>1, <1>2, StartGuarded, PreflightStep, PreflightedStep, CommandSteps DEF Next

(* An init with a target it cannot write has opened no file for writing,   *)
(* whatever other commands, edits and crashes do to its targets meanwhile. *)
THEOREM InitPreflightsFirst == Spec => []PreflightGuards
  <1>1. PreflightInv => PreflightGuards
    BY DEF PreflightInv, Guarded, PreflightGuards, IsInit, Denied
  <1>2. PreflightInv /\ [Next]_vars => PreflightInv'
    BY PreflightNext
  <1> QED BY <1>1, <1>2, PreflightInit, PTL DEF Spec

-----------------------------------------------------------------------------
(* The walk that Foreign takes. *)

(* Induction on the naturals, for a set.                                   *)
LEMMA NatsAreAll ==
    ASSUME NEW P, 0 \in P, \A n \in Nat : n \in P => n + 1 \in P
    PROVE  Nat \subseteq P
  <1> DEFINE Bad == {n \in Nat : n \notin P}
  <1>1. SUFFICES ASSUME Bad # {} PROVE FALSE
    OBVIOUS
  <1>2. IsWellFoundedOn(OpToRel(<, Nat), Nat)
    BY NatLessThanWellFounded
  <1>3. PICK n \in Bad : \A m \in Bad : ~(<<m, n>> \in OpToRel(<, Nat))
    <2> HIDE DEF Bad
    <2>1. Bad \subseteq Nat
      BY DEF Bad
    <2> QED BY <1>1, <1>2, <2>1, WFMin
  <1>4. \A m \in Bad : ~(m < n)
    BY <1>3 DEF OpToRel
  <1>5. n # 0 /\ n - 1 \in Nat
    OBVIOUS
  <1>6. n - 1 \in P
    BY <1>4, <1>5
  <1> QED BY <1>5, <1>6

-----------------------------------------------------------------------------
(* F[i] is what is kept of the first i groups, for i up to n.              *)
Walk(a, s, F, n) ==
    /\ F = [i \in 0 .. n |-> F[i]]
    /\ F[0] = <<>>
    /\ \A i \in 1 .. n : F[i] = IF IsScutGroup(a, s[i]) THEN F[i - 1] ELSE Append(F[i - 1], s[i])

LEMMA WalkExists ==
    ASSUME NEW a, NEW s, NEW n \in Nat
    PROVE  \E F : Walk(a, s, F, n)
  <1> DEFINE P == {k \in Nat : \E F : Walk(a, s, F, k)}
  <1>1. 0 \in P
    <2>1. Walk(a, s, [i \in 0 .. 0 |-> <<>>], 0)
      BY DEF Walk
    <2> QED BY <2>1
  <1>2. ASSUME NEW k \in Nat, k \in P PROVE k + 1 \in P
    <2>1. PICK F : Walk(a, s, F, k)
      BY <1>2
    <2> DEFINE G == [i \in 0 .. k + 1 |->
                       IF i <= k THEN F[i]
                       ELSE IF IsScutGroup(a, s[k + 1]) THEN F[k] ELSE Append(F[k], s[k + 1])]
    <2>2. Walk(a, s, G, k + 1)
      <3>1. G = [i \in 0 .. k + 1 |-> G[i]] /\ G[0] = <<>>
        BY <2>1 DEF Walk
      <3>2. ASSUME NEW i \in 1 .. k
            PROVE  G[i] = IF IsScutGroup(a, s[i]) THEN G[i - 1] ELSE Append(G[i - 1], s[i])
        <4>1. G[i] = F[i] /\ G[i - 1] = F[i - 1]
          OBVIOUS
        <4> HIDE DEF G
        <4> QED BY <2>1, <4>1 DEF Walk
      <3>3. G[k + 1] = IF IsScutGroup(a, s[k + 1]) THEN G[k] ELSE Append(G[k], s[k + 1])
        OBVIOUS
      <3> HIDE DEF G
      <3>4. ASSUME NEW i \in 1 .. k + 1
            PROVE  G[i] = IF IsScutGroup(a, s[i]) THEN G[i - 1] ELSE Append(G[i - 1], s[i])
        <4>1. CASE i = k + 1
          <5>1. i - 1 = k
            BY <4>1
          <5> QED BY <3>3, <4>1, <5>1
        <4>2. CASE i # k + 1
          <5>1. i \in 1 .. k
            BY <4>2
          <5> QED BY <3>2, <5>1
        <4> QED BY <4>1, <4>2
      <3> QED BY <3>1, <3>4 DEF Walk
    <2> HIDE DEF G
    <2> QED BY <2>2
  <1> HIDE DEF P
  <1>3. Nat \subseteq P
    BY <1>1, <1>2, NatsAreAll
  <1> QED BY <1>3 DEF P

(* Foreign(a, s) is the last one of a walk.                                *)
LEMMA ForeignWalk ==
    ASSUME NEW a, NEW s, Len(s) \in Nat
    PROVE  \E F : Walk(a, s, F, Len(s)) /\ Foreign(a, s) = F[Len(s)]
  <1> DEFINE H(F) == F = [n \in 0 .. Len(s) |->
                            IF n = 0 THEN <<>>
                            ELSE IF IsScutGroup(a, s[n]) THEN F[n - 1]
                            ELSE Append(F[n - 1], s[n])]
  <1>1. Foreign(a, s) = (CHOOSE F : H(F))[Len(s)]
    BY DEF Foreign
  <1>2. PICK G : Walk(a, s, G, Len(s))
    BY WalkExists
  <1>3. H(G)
    <2>1. ASSUME NEW n \in 0 .. Len(s)
          PROVE  G[n] = IF n = 0 THEN <<>>
                        ELSE IF IsScutGroup(a, s[n]) THEN G[n - 1]
                        ELSE Append(G[n - 1], s[n])
      BY <1>2 DEF Walk
    <2>2. G = [n \in 0 .. Len(s) |-> G[n]]
      BY <1>2 DEF Walk
    <2> QED BY <2>1, <2>2, Zenon
  <1>4. ASSUME NEW F, H(F) PROVE Walk(a, s, F, Len(s))
    <2>1. \A n \in 0 .. Len(s) :
            F[n] = IF n = 0 THEN <<>>
                   ELSE IF IsScutGroup(a, s[n]) THEN F[n - 1]
                   ELSE Append(F[n - 1], s[n])
      BY <1>4, Zenon
    <2>2. F = [n \in 0 .. Len(s) |-> F[n]]
      BY <1>4, <2>1, Zenon
    <2> HIDE DEF H
    <2> QED BY <2>1, <2>2 DEF Walk
  <1>5. H(CHOOSE F : H(F))
    <2> HIDE DEF H
    <2> QED BY <1>3
  <1> HIDE DEF H
  <1> QED BY <1>1, <1>4, <1>5

ForeignIn(a, S) == {g \in S : ~IsScutGroup(a, g)}

LEMMA WalkBounded ==
    ASSUME NEW a, NEW S, NEW s \in Seq(S), NEW F, Walk(a, s, F, Len(s)),
           NEW n \in 0 .. Len(s)
    PROVE  F[n] \in Seq(ForeignIn(a, S)) /\ Len(F[n]) <= n
  <1> DEFINE T == ForeignIn(a, S)
             P == {k \in Nat : k <= Len(s) => F[k] \in Seq(T) /\ Len(F[k]) <= k}
  <1>1. 0 \in P
    BY DEF Walk
  <1>2. ASSUME NEW k \in Nat, k \in P PROVE k + 1 \in P
    <2>1. SUFFICES ASSUME k + 1 <= Len(s)
                   PROVE  F[k + 1] \in Seq(T) /\ Len(F[k + 1]) <= k + 1
      OBVIOUS
    <2>2. F[k] \in Seq(T) /\ Len(F[k]) <= k
      BY <1>2, <2>1
    <2>3. F[k + 1] = IF IsScutGroup(a, s[k + 1]) THEN F[k] ELSE Append(F[k], s[k + 1])
      <3>1. k + 1 \in 1 .. Len(s) /\ (k + 1) - 1 = k
        BY <2>1
      <3> QED BY <3>1 DEF Walk
    <2>4. CASE IsScutGroup(a, s[k + 1])
      BY <2>2, <2>3, <2>4
    <2>5. CASE ~IsScutGroup(a, s[k + 1])
      <3>1. s[k + 1] \in T
        BY <2>1, <2>5 DEF ForeignIn
      <3> HIDE DEF T
      <3> QED BY <2>2, <2>3, <2>5, <3>1
    <2> QED BY <2>4, <2>5
  <1> HIDE DEF P
  <1>3. Nat \subseteq P
    BY <1>1, <1>2, NatsAreAll
  <1> QED BY <1>3 DEF P

(* Lists that differ only in groups of scut's, up to an index: their walks *)
(* keep the same.                                                          *)
Alike(a, s, t, m) ==
    \A i \in 1 .. m : s[i] = t[i] \/ (IsScutGroup(a, s[i]) /\ IsScutGroup(a, t[i]))

LEMMA WalksAgree ==
    ASSUME NEW a, NEW S, NEW s \in Seq(S), NEW t \in Seq(S), NEW F, NEW G,
           Walk(a, s, F, Len(s)), Walk(a, t, G, Len(t)),
           NEW m \in Nat, m <= Len(s), m <= Len(t), Alike(a, s, t, m)
    PROVE  F[m] = G[m]
  <1> DEFINE P == {k \in Nat : k <= m => F[k] = G[k]}
  <1>1. 0 \in P
    BY DEF Walk
  <1>2. ASSUME NEW k \in Nat, k \in P PROVE k + 1 \in P
    <2>1. SUFFICES ASSUME k + 1 <= m PROVE F[k + 1] = G[k + 1]
      OBVIOUS
    <2>2. F[k] = G[k]
      BY <1>2, <2>1
    <2>3. /\ F[k + 1] = IF IsScutGroup(a, s[k + 1]) THEN F[k] ELSE Append(F[k], s[k + 1])
          /\ G[k + 1] = IF IsScutGroup(a, t[k + 1]) THEN G[k] ELSE Append(G[k], t[k + 1])
      <3>1. k + 1 \in 1 .. Len(s) /\ k + 1 \in 1 .. Len(t) /\ (k + 1) - 1 = k
        BY <2>1
      <3> QED BY <3>1 DEF Walk
    <2>4. s[k + 1] = t[k + 1] \/ (IsScutGroup(a, s[k + 1]) /\ IsScutGroup(a, t[k + 1]))
      BY <2>1 DEF Alike
    <2> QED BY <2>2, <2>3, <2>4
  <1> HIDE DEF P
  <1>3. Nat \subseteq P
    BY <1>1, <1>2, NatsAreAll
  <1> QED BY <1>3 DEF P

LEMMA ForeignElements ==
    ASSUME NEW a, NEW S, NEW s \in Seq(S)
    PROVE  Foreign(a, s) \in Seq(ForeignIn(a, S)) /\ Len(Foreign(a, s)) <= Len(s)
  <1>1. PICK F : Walk(a, s, F, Len(s)) /\ Foreign(a, s) = F[Len(s)]
    BY ForeignWalk
  <1>2. Len(s) \in 0 .. Len(s)
    OBVIOUS
  <1> QED BY <1>1, <1>2, WalkBounded

LEMMA ForeignEmpty == ASSUME NEW a PROVE Foreign(a, <<>>) = <<>>
  <1>1. <<>> \in Seq({}) /\ Len(<<>>) = 0
    OBVIOUS
  <1>2. PICK F : Walk(a, <<>>, F, 0) /\ Foreign(a, <<>>) = F[0]
    BY <1>1, ForeignWalk
  <1> QED BY <1>2 DEF Walk

LEMMA ForeignSame ==
    ASSUME NEW a, NEW S, NEW s \in Seq(S), NEW t \in Seq(S), Len(s) = Len(t),
           Alike(a, s, t, Len(s))
    PROVE  Foreign(a, s) = Foreign(a, t)
  <1>1. PICK F : Walk(a, s, F, Len(s)) /\ Foreign(a, s) = F[Len(s)]
    BY ForeignWalk
  <1>2. PICK G : Walk(a, t, G, Len(t)) /\ Foreign(a, t) = G[Len(t)]
    BY ForeignWalk
  <1>3. F[Len(s)] = G[Len(s)]
    BY <1>1, <1>2, WalksAgree
  <1> QED BY <1>1, <1>2, <1>3

LEMMA ForeignAppend ==
    ASSUME NEW a, NEW S, NEW s \in Seq(S), NEW g \in S
    PROVE  Foreign(a, Append(s, g)) = IF IsScutGroup(a, g) THEN Foreign(a, s)
                                      ELSE Append(Foreign(a, s), g)
  <1>1. PICK t \in Seq(S) : t = Append(s, g)
    <2>1. Append(s, g) \in Seq(S)
      OBVIOUS
    <2> QED BY <2>1
  <1>2. PICK m \in Nat : m = Len(s)
    <2>1. Len(s) \in Nat
      OBVIOUS
    <2> QED BY <2>1
  <1>3. Len(t) = m + 1 /\ t[m + 1] = g /\ \A i \in 1 .. m : s[i] = t[i]
    BY <1>1, <1>2
  <1>4. PICK F : Walk(a, s, F, Len(s)) /\ Foreign(a, s) = F[m]
    BY <1>2, ForeignWalk
  <1>5. PICK G : Walk(a, t, G, Len(t)) /\ Foreign(a, t) = G[Len(t)]
    BY ForeignWalk
  <1>6. F[m] = G[m]
    <2>1. m <= Len(s) /\ m <= Len(t)
      BY <1>2, <1>3
    <2>2. Alike(a, s, t, m)
      BY <1>3 DEF Alike
    <2> QED BY <1>4, <1>5, <2>1, <2>2, WalksAgree
  <1>7. G[m + 1] = IF IsScutGroup(a, g) THEN G[m] ELSE Append(G[m], g)
    <2>1. m + 1 \in 1 .. Len(t) /\ (m + 1) - 1 = m
      BY <1>3
    <2> QED BY <1>3, <1>5, <2>1 DEF Walk
  <1> QED BY <1>1, <1>3, <1>4, <1>5, <1>6, <1>7

LEMMA ForeignOfForeign ==
    ASSUME NEW a, NEW S, NEW s \in Seq(ForeignIn(a, S))
    PROVE  Foreign(a, s) = s
  <1>1. PICK F : Walk(a, s, F, Len(s)) /\ Foreign(a, s) = F[Len(s)]
    BY ForeignWalk
  <1> DEFINE P == {k \in Nat : k <= Len(s) => F[k] = SubSeq(s, 1, k)}
  <1>2. 0 \in P
    BY <1>1 DEF Walk
  <1>3. ASSUME NEW k \in Nat, k \in P PROVE k + 1 \in P
    <2>1. SUFFICES ASSUME k + 1 <= Len(s) PROVE F[k + 1] = SubSeq(s, 1, k + 1)
      OBVIOUS
    <2>2. F[k] = SubSeq(s, 1, k)
      BY <1>3, <2>1
    <2>3. F[k + 1] = IF IsScutGroup(a, s[k + 1]) THEN F[k] ELSE Append(F[k], s[k + 1])
      <3>1. k + 1 \in 1 .. Len(s) /\ (k + 1) - 1 = k
        BY <2>1
      <3> QED BY <1>1, <3>1 DEF Walk
    <2>4. ~IsScutGroup(a, s[k + 1])
      BY <2>1 DEF ForeignIn
    <2>5. SubSeq(s, 1, k + 1) = Append(SubSeq(s, 1, k), s[k + 1])
      BY <2>1
    <2> QED BY <2>2, <2>3, <2>4, <2>5
  <1> HIDE DEF P
  <1>4. Nat \subseteq P
    BY <1>2, <1>3, NatsAreAll
  <1>5. F[Len(s)] = SubSeq(s, 1, Len(s))
    BY <1>4 DEF P
  <1> QED BY <1>1, <1>5

LEMMA ForeignBehind ==
    ASSUME NEW a, NEW S, NEW s \in Seq(S), NEW g \in S, IsScutGroup(a, g)
    PROVE  Foreign(a, <<g>> \o s) = Foreign(a, s)
  <1> DEFINE t == <<g>> \o s
  <1>1. /\ t \in Seq(S) /\ Len(t) = Len(s) + 1 /\ t[1] = g
        /\ \A i \in 1 .. Len(s) : t[i + 1] = s[i]
    OBVIOUS
  <1> HIDE DEF t
  <1>2. PICK F : Walk(a, s, F, Len(s)) /\ Foreign(a, s) = F[Len(s)]
    BY ForeignWalk
  <1>3. PICK G : Walk(a, t, G, Len(t)) /\ Foreign(a, t) = G[Len(t)]
    BY <1>1, ForeignWalk
  <1> DEFINE P == {k \in Nat : k <= Len(s) => G[k + 1] = F[k]}
  <1>4. 0 \in P
    <2>1. 1 \in 1 .. Len(t) /\ 1 - 1 = 0
      BY <1>1
    <2> QED BY <1>1, <1>2, <1>3, <2>1 DEF Walk
  <1>5. ASSUME NEW k \in Nat, k \in P PROVE k + 1 \in P
    <2>1. SUFFICES ASSUME k + 1 <= Len(s) PROVE G[(k + 1) + 1] = F[k + 1]
      OBVIOUS
    <2>2. G[k + 1] = F[k]
      BY <1>5, <2>1
    <2>3. F[k + 1] = IF IsScutGroup(a, s[k + 1]) THEN F[k] ELSE Append(F[k], s[k + 1])
      <3>1. k + 1 \in 1 .. Len(s) /\ (k + 1) - 1 = k
        BY <2>1
      <3> QED BY <1>2, <3>1 DEF Walk
    <2>4. G[(k + 1) + 1] = IF IsScutGroup(a, s[k + 1]) THEN G[k + 1] ELSE Append(G[k + 1], s[k + 1])
      <3>1. (k + 1) + 1 \in 1 .. Len(t) /\ ((k + 1) + 1) - 1 = k + 1 /\ t[(k + 1) + 1] = s[k + 1]
        BY <1>1, <2>1
      <3> QED BY <1>3, <3>1 DEF Walk
    <2> QED BY <2>2, <2>3, <2>4
  <1> HIDE DEF P
  <1>6. Nat \subseteq P
    BY <1>4, <1>5, NatsAreAll
  <1>7. G[Len(s) + 1] = F[Len(s)]
    BY <1>6 DEF P
  <1> QED BY <1>1, <1>2, <1>3, <1>7 DEF t

-----------------------------------------------------------------------------
(* The group Codex's merge replaces.                                       *)
LEMMA LeastIndex ==
    ASSUME NEW T \in SUBSET Nat, T # {}
    PROVE  LET i == CHOOSE i \in T : \A j \in T : i <= j IN i \in T /\ \A j \in T : i <= j
  <1>1. IsWellFoundedOn(OpToRel(<, Nat), Nat)
    BY NatLessThanWellFounded
  <1>2. PICK i \in T : \A j \in T : ~(<<j, i>> \in OpToRel(<, Nat))
    BY <1>1, WFMin
  <1>3. \A j \in T : ~(j < i)
    BY <1>2 DEF OpToRel
  <1>4. \A j \in T : i <= j
    BY <1>3
  <1> QED BY <1>4

SameMatcher(a, groups, g) == {i \in ScutGroups(a, groups) : groups[i].matcher = g.matcher}

Replaced(a, groups, g) ==
    CHOOSE i \in SameMatcher(a, groups, g) : \A j \in SameMatcher(a, groups, g) : i <= j

LEMMA ReplacedIsFirst ==
    ASSUME NEW a, NEW S, NEW s \in Seq(S), NEW g, SameMatcher(a, s, g) # {}
    PROVE  /\ Replaced(a, s, g) \in SameMatcher(a, s, g)
           /\ \A j \in SameMatcher(a, s, g) : Replaced(a, s, g) <= j
  <1>1. SameMatcher(a, s, g) \in SUBSET Nat
    BY DEF SameMatcher, ScutGroups
  <1> QED BY <1>1, LeastIndex DEF Replaced

LEMMA MergeClaude ==
    ASSUME NEW groups, NEW g
    PROVE  Merge("claude", groups, g) = <<g>> \o Foreign("claude", groups)
  BY DEF Merge

LEMMA MergeCodex ==
    ASSUME NEW groups, NEW g
    PROVE  Merge("codex", groups, g) =
             IF SameMatcher("codex", groups, g) = {} THEN Append(groups, g)
             ELSE [groups EXCEPT ![Replaced("codex", groups, g)] = g]
  BY DEF Merge, SameMatcher, Replaced

(* Claude: scut's group, then what is not scut's.                          *)
LEMMA ClaudeMerges ==
    ASSUME NEW S, NEW s \in Seq(S), NEW g \in S, IsScutGroup("claude", g)
    PROVE  LET m == Merge("claude", s, g) IN
           /\ m \in Seq(S)
           /\ Foreign("claude", m) = Foreign("claude", s)
           /\ Len(m) = 1 + Len(Foreign("claude", s))
           /\ 1 \in DOMAIN m /\ m[1] = g /\ ScutGroups("claude", m) = {1}
           /\ Merge("claude", m, g) = m
  <1>1. PICK f \in Seq(ForeignIn("claude", S)) : f = Foreign("claude", s)
    BY ForeignElements
  <1>2. f \in Seq(S)
    BY DEF ForeignIn
  <1>3. PICK m : m = <<g>> \o f /\ m = Merge("claude", s, g)
    BY <1>1, MergeClaude
  <1>4. /\ m \in Seq(S) /\ Len(m) = 1 + Len(f) /\ m[1] = g /\ 1 \in DOMAIN m
        /\ \A i \in DOMAIN m \ {1} : i - 1 \in 1 .. Len(f) /\ m[i] = f[i - 1]
    BY <1>2, <1>3
  <1>5. Foreign("claude", f) = f
    BY ForeignOfForeign
  <1>6. Foreign("claude", m) = f
    BY <1>2, <1>3, <1>5, ForeignBehind
  <1>7. ScutGroups("claude", m) = {1}
    <2>1. ASSUME NEW i \in DOMAIN m \ {1} PROVE ~IsScutGroup("claude", m[i])
      BY <1>4 DEF ForeignIn
    <2> QED BY <1>4, <2>1 DEF ScutGroups
  <1>8. Merge("claude", m, g) = m
    BY <1>3, <1>6, MergeClaude
  <1> QED BY <1>1, <1>3, <1>4, <1>6, <1>7, <1>8

(* Codex: the first group of scut's with the matcher is replaced.          *)
LEMMA CodexReplaces ==
    ASSUME NEW S, NEW s \in Seq(S), NEW g \in S, IsScutGroup("codex", g),
           SameMatcher("codex", s, g) # {}
    PROVE  LET m == Merge("codex", s, g) IN
           /\ m \in Seq(S)
           /\ Foreign("codex", m) = Foreign("codex", s)
           /\ Len(m) = Len(s)
           /\ \E i \in DOMAIN m : m[i] = g
           /\ Merge("codex", m, g) = m
  <1>1. PICK i : i = Replaced("codex", s, g)
    OBVIOUS
  <1>2. i \in SameMatcher("codex", s, g) /\ \A j \in SameMatcher("codex", s, g) : i <= j
    BY <1>1, ReplacedIsFirst
  <1>3. i \in 1 .. Len(s) /\ IsScutGroup("codex", s[i]) /\ s[i].matcher = g.matcher
    BY <1>2 DEF SameMatcher, ScutGroups
  <1>4. PICK m : m = [s EXCEPT ![i] = g] /\ m = Merge("codex", s, g)
    BY <1>1, MergeCodex
  <1>5. /\ m \in Seq(S) /\ Len(m) = Len(s) /\ m[i] = g /\ i \in DOMAIN m /\ DOMAIN m = DOMAIN s
        /\ \A j \in DOMAIN m \ {i} : m[j] = s[j]
    BY <1>3, <1>4
  <1>6. Foreign("codex", m) = Foreign("codex", s)
    <2>1. Alike("codex", m, s, Len(m))
      BY <1>3, <1>5 DEF Alike
    <2> QED BY <1>5, <2>1, ForeignSame
  <1>7. SameMatcher("codex", m, g) = SameMatcher("codex", s, g)
    BY <1>3, <1>5 DEF SameMatcher, ScutGroups
  <1>8. Replaced("codex", m, g) = i
    BY <1>1, <1>7 DEF Replaced
  <1>9. Merge("codex", m, g) = [m EXCEPT ![i] = g]
    BY <1>2, <1>7, <1>8, MergeCodex
  <1>10. [m EXCEPT ![i] = g] = m
    BY <1>5
  <1> QED BY <1>4, <1>5, <1>6, <1>9, <1>10

LEMMA CodexAppends ==
    ASSUME NEW S, NEW s \in Seq(S), NEW g \in S, IsScutGroup("codex", g),
           SameMatcher("codex", s, g) = {}
    PROVE  LET m == Merge("codex", s, g) IN
           /\ m \in Seq(S)
           /\ Foreign("codex", m) = Foreign("codex", s)
           /\ Len(m) = Len(s) + 1
           /\ \E i \in DOMAIN m : m[i] = g
           /\ Merge("codex", m, g) = m
  <1>1. PICK m : m = Append(s, g) /\ m = Merge("codex", s, g)
    BY MergeCodex
  <1>2. PICK n \in Nat : n = Len(s) + 1
    <2>1. Len(s) + 1 \in Nat
      OBVIOUS
    <2> QED BY <2>1
  <1>3. /\ m \in Seq(S) /\ Len(m) = n /\ n \in DOMAIN m /\ m[n] = g
        /\ \A j \in DOMAIN m \ {n} : j \in DOMAIN s /\ m[j] = s[j]
    <2>1. m \in Seq(S) /\ Len(m) = Len(s) + 1 /\ m[Len(s) + 1] = g
      <3>1. /\ Append(s, g) \in Seq(S) /\ Len(Append(s, g)) = Len(s) + 1
            /\ Append(s, g)[Len(s) + 1] = g
        OBVIOUS
      <3> QED BY <1>1, <3>1
    <2>2. \A j \in 1 .. Len(s) : m[j] = s[j]
      <3>1. \A j \in 1 .. Len(s) : Append(s, g)[j] = s[j]
        OBVIOUS
      <3> QED BY <1>1, <3>1
    <2>3. DOMAIN m = 1 .. n
      BY <1>2, <2>1
    <2> QED BY <1>2, <2>1, <2>2, <2>3
  <1>4. Foreign("codex", m) = Foreign("codex", s)
    BY <1>1, ForeignAppend
  <1>5. SameMatcher("codex", m, g) = {n}
    BY <1>3 DEF SameMatcher, ScutGroups
  <1>6. Replaced("codex", m, g) = n
    BY <1>3, <1>5, ReplacedIsFirst
  <1>7. Merge("codex", m, g) = [m EXCEPT ![n] = g]
    BY <1>5, <1>6, MergeCodex
  <1>8. [m EXCEPT ![n] = g] = m
    BY <1>3
  <1> QED BY <1>1, <1>2, <1>3, <1>4, <1>7, <1>8

-----------------------------------------------------------------------------
(* The hook groups there are: those of the files, what unmarshalling makes *)
(* of them, and scut's own.                                                *)
Found ==
    UNION {UNION {UNION {Range(f[a].hooks[e]) : e \in DOMAIN f[a].hooks} :
                    a \in {b \in Agent : IsSettings(f[b])}} : f \in Files}

Logs == {c.log : c \in UNION {Commands[p] : p \in Proc}}

Ours == {ScutGroup(a, e, log) : a \in Agent, e \in Event, log \in Logs}

Plain == {Untyped(g) : g \in Found} \union Ours

Groups(a) == IF a = "claude" THEN Plain ELSE Found \union Plain

IsModel(s, G) ==
    /\ s = [line |-> s.line, hooks |-> s.hooks, keys |-> s.keys]
    /\ DOMAIN s.hooks \subseteq Event
    /\ s.hooks = [e \in DOMAIN s.hooks |-> s.hooks[e]]
    /\ \A e \in DOMAIN s.hooks : s.hooks[e] \in Seq(G)

LEMMA UntypedTwice == ASSUME NEW g PROVE Untyped(Untyped(g)) = Untyped(g)
  <1> DEFINE u == Untyped(g)
             h == [i \in DOMAIN g.hooks |->
                     [type |-> g.hooks[i].type, command |-> g.hooks[i].command, fields |-> {}]]
  <1>1. u.matcher = g.matcher /\ u.hooks = h /\ u = [matcher |-> u.matcher, fields |-> {}, hooks |-> u.hooks]
    BY DEF Untyped
  <1>2. [i \in DOMAIN h |-> [type |-> h[i].type, command |-> h[i].command, fields |-> {}]] = h
    OBVIOUS
  <1> HIDE DEF u, h
  <1>3. Untyped(u) = [matcher |-> u.matcher, fields |-> {}, hooks |-> h]
    BY <1>1, <1>2 DEF Untyped
  <1> QED BY <1>1, <1>3 DEF u

LEMMA UntypedOurs ==
    ASSUME NEW a, NEW e, NEW log
    PROVE  Untyped(ScutGroup(a, e, log)) = ScutGroup(a, e, log)
  <1> DEFINE x == [type |-> "command", command |-> Hook(a, e, log), fields |-> {}]
             g == ScutGroup(a, e, log)
  <1>1. g.matcher = Matcher[a][e] /\ g.hooks = <<x>> /\ g = [matcher |-> g.matcher, fields |-> {}, hooks |-> <<x>>]
    BY DEF ScutGroup
  <1>2. [type |-> x.type, command |-> x.command, fields |-> {}] = x
    OBVIOUS
  <1> HIDE DEF x, g
  <1>3. [i \in DOMAIN <<x>> |-> [type |-> <<x>>[i].type, command |-> <<x>>[i].command, fields |-> {}]] = <<x>>
    BY <1>2
  <1>4. Untyped(g) = [matcher |-> g.matcher, fields |-> {}, hooks |-> <<x>>]
    BY <1>1, <1>3 DEF Untyped
  <1> QED BY <1>1, <1>4 DEF g

LEMMA PlainIsUntyped == ASSUME NEW g \in Plain PROVE Untyped(g) = g
  BY UntypedTwice, UntypedOurs DEF Plain, Ours

LEMMA UntypedIsPlain ==
    ASSUME NEW g \in Found \union Plain PROVE Untyped(g) \in Plain
  BY PlainIsUntyped DEF Plain

(* What install writes is scut's, and is seen to be.                       *)
LEMMA OursIsScut ==
    ASSUME NEW a \in Agent, NEW e \in Event, NEW log
    PROVE  /\ IsScutGroup(a, ScutGroup(a, e, log))
           /\ ScutGroup(a, e, log).matcher = Matcher[a][e]
           /\ ScutGroup(a, e, log).hooks = <<[type |-> "command", command |-> Hook(a, e, log), fields |-> {}]>>
  <1> DEFINE x == [type |-> "command", command |-> Hook(a, e, log), fields |-> {}]
             g == ScutGroup(a, e, log)
  <1>1. g.matcher = Matcher[a][e] /\ g.hooks = <<x>>
    BY DEF ScutGroup
  <1>2. x.type = "command" /\ Owns(a, x.command)
    BY DEF Owns, Hook, Agent
  <1> HIDE DEF x, g
  <1>3. <<x>> # <<>> /\ \A i \in DOMAIN <<x>> : <<x>>[i] = x
    OBVIOUS
  <1>4. IsScutGroup(a, g)
    BY <1>1, <1>2, <1>3 DEF IsScutGroup
  <1> QED BY <1>1, <1>4 DEF g, x

LEMMA OursIsGroup ==
    ASSUME NEW a \in Agent, NEW b \in Agent, NEW e \in Event, NEW log \in Logs
    PROVE  ScutGroup(a, e, log) \in Groups(b)
  BY DEF Groups, Plain, Ours

LEMMA GroupsOfModel ==
    ASSUME NEW s, NEW G, IsModel(s, G), NEW e
    PROVE  GroupsOf(s, e) \in Seq(G)
  BY DEF GroupsOf, IsModel

-----------------------------------------------------------------------------
(* Merging, by event. *)

LEMMA InstalledGroups ==
    ASSUME NEW a, NEW s, NEW set, NEW log, NEW e \in Event
    PROVE  GroupsOf(Installed(a, s, set, log), e) =
             IF e \in set THEN Merge(a, GroupsOf(s, e), ScutGroup(a, e, log)) ELSE GroupsOf(s, e)
  <1> DEFINE t == Installed(a, s, set, log)
  <1>1. /\ DOMAIN t.hooks = DOMAIN s.hooks \union (set \intersect Event)
        /\ \A d \in DOMAIN t.hooks :
             t.hooks[d] = IF d \in set THEN Merge(a, GroupsOf(s, d), ScutGroup(a, d, log)) ELSE s.hooks[d]
    BY DEF Installed
  <1> HIDE DEF t
  <1>2. GroupsOf(t, e) = IF e \in DOMAIN t.hooks THEN t.hooks[e] ELSE <<>>
    BY DEF GroupsOf
  <1>3. CASE e \in set
    BY <1>1, <1>2, <1>3 DEF t
  <1>4. CASE e \notin set
    BY <1>1, <1>2, <1>4 DEF GroupsOf, t
  <1> QED BY <1>3, <1>4

LEMMA UninstalledParts ==
    ASSUME NEW a, NEW s, NEW set
    PROVE  LET t == Uninstalled(a, s, set) IN
           /\ t.line = IF "status-line" \in set /\ ~ForeignLine(s) THEN NoLine ELSE s.line
           /\ t.keys = s.keys
           /\ DOMAIN t.hooks = {d \in DOMAIN s.hooks : d \in set => Foreign(a, s.hooks[d]) # <<>>}
           /\ \A d \in DOMAIN t.hooks : t.hooks[d] = IF d \in set THEN Foreign(a, s.hooks[d]) ELSE s.hooks[d]
           /\ t.hooks = [d \in DOMAIN t.hooks |-> t.hooks[d]]
           /\ t = [line |-> t.line, hooks |-> t.hooks, keys |-> t.keys]
  BY DEF Uninstalled

LEMMA UninstalledGroups ==
    ASSUME NEW a, NEW s, NEW set, NEW e \in Event
    PROVE  GroupsOf(Uninstalled(a, s, set), e) =
             IF e \in set THEN Foreign(a, GroupsOf(s, e)) ELSE GroupsOf(s, e)
  <1> DEFINE t == Uninstalled(a, s, set)
  <1>1. /\ DOMAIN t.hooks = {d \in DOMAIN s.hooks : d \in set => Foreign(a, s.hooks[d]) # <<>>}
        /\ \A d \in DOMAIN t.hooks : t.hooks[d] = IF d \in set THEN Foreign(a, s.hooks[d]) ELSE s.hooks[d]
    BY DEF Uninstalled
  <1> HIDE DEF t
  <1>2. GroupsOf(t, e) = IF e \in DOMAIN t.hooks THEN t.hooks[e] ELSE <<>>
    BY DEF GroupsOf
  <1>3. CASE e \in DOMAIN s.hooks
    BY <1>1, <1>2, <1>3 DEF GroupsOf, t
  <1>4. CASE e \notin DOMAIN s.hooks
    <2>1. GroupsOf(s, e) = <<>> /\ GroupsOf(t, e) = <<>>
      BY <1>1, <1>2, <1>4 DEF GroupsOf
    <2> QED BY <2>1, ForeignEmpty DEF t
  <1> QED BY <1>3, <1>4

-----------------------------------------------------------------------------
(* What a command may put in front of or among an event's groups: scut's   *)
(* own group, at most one more than there were at the start, and then one  *)
(* that the next install will find.                                        *)
Grown(a, e, gs) ==
    \/ Len(gs) <= Len(GroupsOf(Content(original[a]), e))
    \/ /\ Len(gs) <= 1 + Len(GroupsOf(Content(original[a]), e))
       /\ a = "codex" => \E i \in ScutGroups(a, gs) : gs[i].matcher = Matcher[a][e]

(* A model that keeps what was there at the start.                         *)
Kept(a, s) ==
    /\ IsModel(s, Groups(a))
    /\ a = "claude" => UntypedLine(s.line) = s.line
    /\ Content(original[a]).keys \subseteq s.keys
    /\ \A e \in Event :
         /\ Foreign(a, GroupsOf(s, e)) =
              Foreign(a, GroupsOf(Unmarshal(a, Content(original[a])), e))
         /\ Grown(a, e, GroupsOf(s, e))

LEMMA KeptModel ==
    ASSUME NEW a \in Agent, NEW s, Kept(a, s), NEW t,
           IsModel(t, Groups(a)), t.keys = s.keys,
           t.line \in {s.line, NoLine} \union {[command |-> StatusLine(log), fields |-> {}] : log \in Logs},
           \A e \in Event : /\ Foreign(a, GroupsOf(t, e)) = Foreign(a, GroupsOf(s, e))
                            /\ Grown(a, e, GroupsOf(t, e))
    PROVE  Kept(a, t)
  <1>1. ASSUME a = "claude" PROVE UntypedLine(t.line) = t.line
    <2>1. CASE t.line = s.line
      BY <1>1, <2>1 DEF Kept
    <2>2. CASE t.line = NoLine
      BY <2>2 DEF UntypedLine
    <2>3. CASE t.line \in {[command |-> StatusLine(log), fields |-> {}] : log \in Logs}
      BY <2>3 DEF UntypedLine
    <2> QED BY <2>1, <2>2, <2>3
  <1> QED BY <1>1 DEF Kept

(* The groups of the start bound those that are not scut's.                *)
(* At the start the files are models.                                      *)
Originals ==
    \A a \in Agent : IsModel(Content(original[a]), Found)

LEMMA UntypedSeq ==
    ASSUME NEW G, NEW H, NEW s \in Seq(G), \A g \in G : Untyped(g) \in H
    PROVE  /\ [i \in DOMAIN s |-> Untyped(s[i])] \in Seq(H)
           /\ Len([i \in DOMAIN s |-> Untyped(s[i])]) = Len(s)
  <1> DEFINE t == [i \in DOMAIN s |-> Untyped(s[i])]
  <1>1. Len(s) \in Nat /\ DOMAIN s = 1 .. Len(s)
    OBVIOUS
  <1>2. t = [i \in 1 .. Len(s) |-> Untyped(s[i])] /\ \A i \in 1 .. Len(s) : Untyped(s[i]) \in H
    BY <1>1
  <1>3. t \in Seq(H) /\ Len(t) = Len(s)
    BY <1>1, <1>2
  <1> QED BY <1>3

LEMMA UntypedLineTwice == ASSUME NEW l PROVE UntypedLine(UntypedLine(l)) = UntypedLine(l)
  <1>1. CASE l = NoLine
    BY <1>1 DEF UntypedLine
  <1>2. CASE l # NoLine
    <2> DEFINE u == [command |-> l.command, fields |-> {}]
    <2>1. UntypedLine(l) = u
      BY <1>2 DEF UntypedLine
    <2>2. [command |-> u.command, fields |-> {}] = u
      OBVIOUS
    <2> HIDE DEF u
    <2>3. UntypedLine(u) = u
      BY <2>2 DEF UntypedLine
    <2> QED BY <2>1, <2>3
  <1> QED BY <1>1, <1>2

LEMMA UnmarshalModel ==
    ASSUME NEW a \in Agent, NEW s, IsModel(s, Found \union Plain)
    PROVE  /\ IsModel(Unmarshal(a, s), Groups(a))
           /\ Unmarshal(a, s).keys = s.keys
           /\ a = "claude" => UntypedLine(Unmarshal(a, s).line) = Unmarshal(a, s).line
           /\ \A e \in Event : Len(GroupsOf(Unmarshal(a, s), e)) = Len(GroupsOf(s, e))
  <1>1. CASE a = "codex"
    BY <1>1 DEF Unmarshal, Groups
  <1>2. CASE a = "claude"
    <2> DEFINE u == Unmarshal("claude", s)
    <2>1. /\ u = [line |-> u.line, hooks |-> u.hooks, keys |-> u.keys]
          /\ u.keys = s.keys /\ u.line = UntypedLine(s.line)
          /\ DOMAIN u.hooks = DOMAIN s.hooks /\ u.hooks = [e \in DOMAIN u.hooks |-> u.hooks[e]]
          /\ \A e \in DOMAIN u.hooks : u.hooks[e] = [i \in DOMAIN s.hooks[e] |-> Untyped(s.hooks[e][i])]
      BY DEF Unmarshal
    <2> HIDE DEF u
    <2>2. ASSUME NEW e \in DOMAIN u.hooks
          PROVE  u.hooks[e] \in Seq(Plain) /\ Len(u.hooks[e]) = Len(s.hooks[e])
      <3>1. s.hooks[e] \in Seq(Found \union Plain)
        BY <2>1 DEF IsModel
      <3>2. \A g \in Found \union Plain : Untyped(g) \in Plain
        BY UntypedIsPlain
      <3>3. u.hooks[e] = [i \in DOMAIN s.hooks[e] |-> Untyped(s.hooks[e][i])]
        BY <2>1
      <3>4. PICK gs \in Seq(Found \union Plain) : gs = s.hooks[e]
        BY <3>1
      <3>5. /\ [i \in DOMAIN gs |-> Untyped(gs[i])] \in Seq(Plain)
            /\ Len([i \in DOMAIN gs |-> Untyped(gs[i])]) = Len(gs)
        BY <3>2, UntypedSeq
      <3> QED BY <3>3, <3>4, <3>5
    <2>3. IsModel(u, Plain)
      BY <2>1, <2>2 DEF IsModel
    <2>4. UntypedLine(u.line) = u.line
      BY <2>1, UntypedLineTwice
    <2>5. \A e \in Event : Len(GroupsOf(u, e)) = Len(GroupsOf(s, e))
      BY <2>1, <2>2 DEF GroupsOf
    <2> QED BY <1>2, <2>1, <2>3, <2>4, <2>5 DEF u, Groups
  <1> QED BY <1>1, <1>2 DEF Agent

LEMMA CleanUnmarshal ==
    ASSUME NEW a \in Agent, NEW s, IsModel(s, Groups(a)), a = "claude" => UntypedLine(s.line) = s.line
    PROVE  Unmarshal(a, s) = s
  <1>1. CASE a = "codex"
    BY <1>1 DEF Unmarshal
  <1>2. CASE a = "claude"
    <2>1. IsModel(s, Plain)
      BY <1>2 DEF Groups
    <2>2. ASSUME NEW e \in DOMAIN s.hooks
          PROVE  [i \in DOMAIN s.hooks[e] |-> Untyped(s.hooks[e][i])] = s.hooks[e]
      <3>1. s.hooks[e] \in Seq(Plain)
        BY <2>1 DEF IsModel
      <3>2. \A i \in DOMAIN s.hooks[e] : Untyped(s.hooks[e][i]) = s.hooks[e][i]
        BY <3>1, PlainIsUntyped
      <3>3. s.hooks[e] = [i \in DOMAIN s.hooks[e] |-> s.hooks[e][i]]
        BY <3>1
      <3> QED BY <3>2, <3>3
    <2>3. [e \in DOMAIN s.hooks |-> [i \in DOMAIN s.hooks[e] |-> Untyped(s.hooks[e][i])]] = s.hooks
      BY <2>1, <2>2 DEF IsModel
    <2>4. s = [line |-> s.line, hooks |-> s.hooks, keys |-> s.keys]
      BY <2>1 DEF IsModel
    <2>5. a # "codex"
      BY <1>2
    <2> QED BY <1>2, <2>3, <2>4, <2>5 DEF Unmarshal
  <1> QED BY <1>1, <1>2 DEF Agent

-----------------------------------------------------------------------------
(* What merging does to one event's groups: what is not scut's stays, the  *)
(* group is there, the list does not grow twice, and merging again changes *)
(* nothing.                                                                *)
LEMMA MergeEvent ==
    ASSUME NEW a \in Agent, NEW G, NEW gs \in Seq(G), NEW e \in Event, NEW log,
           ScutGroup(a, e, log) \in G
    PROVE  LET g == ScutGroup(a, e, log)
               m == Merge(a, gs, g)
           IN /\ m \in Seq(G)
              /\ Foreign(a, m) = Foreign(a, gs)
              /\ \E i \in DOMAIN m : m[i] = g
              /\ Merge(a, m, g) = m
  <1> DEFINE g == ScutGroup(a, e, log)
  <1>1. IsScutGroup(a, g) /\ g \in G
    BY OursIsScut
  <1> HIDE DEF g
  <1>2. CASE a = "claude"
    BY <1>1, <1>2, ClaudeMerges DEF g
  <1>3. CASE a = "codex" /\ SameMatcher("codex", gs, g) = {}
    BY <1>1, <1>3, CodexAppends DEF g
  <1>4. CASE a = "codex" /\ SameMatcher("codex", gs, g) # {}
    BY <1>1, <1>4, CodexReplaces DEF g
  <1> QED BY <1>2, <1>3, <1>4 DEF Agent

LEMMA MergeGrows ==
    ASSUME NEW a \in Agent, NEW G, NEW gs \in Seq(G), NEW e \in Event, NEW log,
           ScutGroup(a, e, log) \in G,
           NEW n \in Nat, n = Len(GroupsOf(Content(original[a]), e)),
           Grown(a, e, gs), Len(Foreign(a, gs)) <= n
    PROVE  Grown(a, e, Merge(a, gs, ScutGroup(a, e, log)))
  <1>1. PICK g \in G : g = ScutGroup(a, e, log) /\ IsScutGroup(a, g) /\ g.matcher = Matcher[a][e]
    BY OursIsScut
  <1>2. PICK m \in Seq(G) : /\ m = Merge(a, gs, g)
                            /\ \E i \in DOMAIN m : m[i] = g
    BY <1>1, MergeEvent
  <1>3. \E i \in ScutGroups(a, m) : m[i].matcher = Matcher[a][e]
    BY <1>1, <1>2 DEF ScutGroups
  <1>4. CASE a = "claude"
    <2>1. Len(m) = 1 + Len(Foreign(a, gs)) /\ Foreign(a, gs) \in Seq(ForeignIn(a, G))
      BY <1>1, <1>2, <1>4, ClaudeMerges, ForeignElements
    <2>2. Len(m) <= 1 + n
      BY <2>1
    <2> QED BY <1>1, <1>2, <1>4, <2>2 DEF Grown
  <1>5. CASE a = "codex" /\ SameMatcher("codex", gs, g) = {}
    <2>1. Len(m) = Len(gs) + 1
      BY <1>1, <1>2, <1>5, CodexAppends
    <2>2. ~ \E i \in ScutGroups(a, gs) : gs[i].matcher = Matcher[a][e]
      BY <1>1, <1>5 DEF SameMatcher
    <2>3. Len(gs) <= n
      BY <1>5, <2>2 DEF Grown
    <2>4. Len(m) <= 1 + n
      BY <2>1, <2>3
    <2> QED BY <1>1, <1>2, <1>3, <2>4 DEF Grown
  <1>6. CASE a = "codex" /\ SameMatcher("codex", gs, g) # {}
    <2>1. Len(m) = Len(gs)
      BY <1>1, <1>2, <1>6, CodexReplaces
    <2> QED BY <1>1, <1>2, <1>3, <2>1 DEF Grown
  <1> QED BY <1>4, <1>5, <1>6 DEF Agent

(* Foreign groups are no more than there were at the start.                *)
LEMMA ForeignBounded ==
    ASSUME Originals, NEW a \in Agent, NEW s, Kept(a, s), NEW e \in Event
    PROVE  /\ Len(GroupsOf(Content(original[a]), e)) \in Nat
           /\ Len(Foreign(a, GroupsOf(s, e))) <= Len(GroupsOf(Content(original[a]), e))
  <1> DEFINE o == Content(original[a])
             u == Unmarshal(a, o)
  <1>1. IsModel(o, Found \union Plain) /\ IsModel(o, Found)
    <2>1. IsModel(o, Found)
      BY DEF Originals
    <2> HIDE DEF o
    <2>2. \A e1 \in DOMAIN o.hooks : o.hooks[e1] \in Seq(Found \union Plain)
      <3>1. ASSUME NEW gs \in Seq(Found) PROVE gs \in Seq(Found \union Plain)
        OBVIOUS
      <3> QED BY <2>1, <3>1 DEF IsModel
    <2> QED BY <2>1, <2>2 DEF IsModel
  <1> HIDE DEF o
  <1>2. IsModel(u, Groups(a)) /\ Len(GroupsOf(u, e)) = Len(GroupsOf(o, e))
    BY <1>1, UnmarshalModel
  <1> HIDE DEF u
  <1>3. GroupsOf(u, e) \in Seq(Groups(a)) /\ GroupsOf(o, e) \in Seq(Found)
    BY <1>1, <1>2, GroupsOfModel
  <1>4. Foreign(a, GroupsOf(s, e)) = Foreign(a, GroupsOf(u, e))
    BY DEF Kept, o, u
  <1>5. Len(Foreign(a, GroupsOf(u, e))) <= Len(GroupsOf(u, e))
    BY <1>3, ForeignElements
  <1>6. Len(GroupsOf(o, e)) \in Nat
    BY <1>3
  <1> QED BY <1>2, <1>4, <1>5, <1>6 DEF o

LEMMA InstalledParts ==
    ASSUME NEW a, NEW s, NEW set, NEW log
    PROVE  LET t == Installed(a, s, set, log) IN
           /\ t.line = IF "status-line" \in set THEN [command |-> StatusLine(log), fields |-> {}] ELSE s.line
           /\ t.keys = s.keys
           /\ DOMAIN t.hooks = DOMAIN s.hooks \union (set \intersect Event)
           /\ \A d \in DOMAIN t.hooks :
                t.hooks[d] = IF d \in set THEN Merge(a, GroupsOf(s, d), ScutGroup(a, d, log)) ELSE s.hooks[d]
           /\ t.hooks = [d \in DOMAIN t.hooks |-> t.hooks[d]]
           /\ t = [line |-> t.line, hooks |-> t.hooks, keys |-> t.keys]
  BY DEF Installed

LEMMA InstalledKept ==
    ASSUME Originals, NEW a \in Agent, NEW s, Kept(a, s), NEW set, NEW log \in Logs
    PROVE  Kept(a, Installed(a, s, set, log))
  <1> DEFINE t == Installed(a, s, set, log)
  <1>1. /\ t.line = IF "status-line" \in set THEN [command |-> StatusLine(log), fields |-> {}] ELSE s.line
        /\ t.keys = s.keys
        /\ DOMAIN t.hooks = DOMAIN s.hooks \union (set \intersect Event)
        /\ \A d \in DOMAIN t.hooks :
             t.hooks[d] = IF d \in set THEN Merge(a, GroupsOf(s, d), ScutGroup(a, d, log)) ELSE s.hooks[d]
        /\ t.hooks = [d \in DOMAIN t.hooks |-> t.hooks[d]]
        /\ t = [line |-> t.line, hooks |-> t.hooks, keys |-> t.keys]
    BY InstalledParts
  <1>2. IsModel(s, Groups(a))
    BY DEF Kept
  <1>3. \A e \in Event : GroupsOf(t, e) = IF e \in set THEN Merge(a, GroupsOf(s, e), ScutGroup(a, e, log))
                                          ELSE GroupsOf(s, e)
    BY InstalledGroups
  <1> HIDE DEF t
  <1>4. ASSUME NEW e \in Event
        PROVE  /\ GroupsOf(t, e) \in Seq(Groups(a))
               /\ Foreign(a, GroupsOf(t, e)) = Foreign(a, GroupsOf(s, e))
               /\ Grown(a, e, GroupsOf(t, e))
    <2>1. PICK gs \in Seq(Groups(a)) : gs = GroupsOf(s, e)
      BY <1>2, GroupsOfModel
    <2>2. ScutGroup(a, e, log) \in Groups(a)
      BY OursIsGroup
    <2>3. PICK n \in Nat : n = Len(GroupsOf(Content(original[a]), e)) /\ Len(Foreign(a, gs)) <= n
      BY <2>1, ForeignBounded
    <2>4. Grown(a, e, gs)
      BY <2>1 DEF Kept
    <2>5. CASE e \in set
      <3>1. GroupsOf(t, e) = Merge(a, gs, ScutGroup(a, e, log))
        BY <1>3, <2>1, <2>5
      <3>2. Grown(a, e, Merge(a, gs, ScutGroup(a, e, log)))
        BY <2>2, <2>3, <2>4, MergeGrows
      <3> QED BY <2>1, <2>2, <3>1, <3>2, MergeEvent
    <2>6. CASE e \notin set
      BY <1>3, <2>1, <2>4, <2>6
    <2> QED BY <2>5, <2>6
  <1>5. IsModel(t, Groups(a))
    <2>1. DOMAIN t.hooks \subseteq Event
      BY <1>1, <1>2 DEF IsModel
    <2>2. \A e \in DOMAIN t.hooks : t.hooks[e] = GroupsOf(t, e)
      BY DEF GroupsOf
    <2> QED BY <1>1, <1>4, <2>1, <2>2 DEF IsModel
  <1>6. t.line \in {s.line, NoLine} \union {[command |-> StatusLine(l), fields |-> {}] : l \in Logs}
    BY <1>1
  <1> QED BY <1>1, <1>4, <1>5, <1>6, KeptModel DEF t

LEMMA UninstalledKept ==
    ASSUME Originals, NEW a \in Agent, NEW s, Kept(a, s), NEW set
    PROVE  Kept(a, Uninstalled(a, s, set))
  <1> DEFINE t == Uninstalled(a, s, set)
  <1>1. /\ t.line = IF "status-line" \in set /\ ~ForeignLine(s) THEN NoLine ELSE s.line
        /\ t.keys = s.keys
        /\ DOMAIN t.hooks = {d \in DOMAIN s.hooks : d \in set => Foreign(a, s.hooks[d]) # <<>>}
        /\ t.hooks = [d \in DOMAIN t.hooks |-> t.hooks[d]]
        /\ t = [line |-> t.line, hooks |-> t.hooks, keys |-> t.keys]
    BY UninstalledParts
  <1>2. IsModel(s, Groups(a))
    BY DEF Kept
  <1>3. \A e \in Event : GroupsOf(t, e) = IF e \in set THEN Foreign(a, GroupsOf(s, e)) ELSE GroupsOf(s, e)
    BY UninstalledGroups
  <1> HIDE DEF t
  <1>4. ASSUME NEW e \in Event
        PROVE  /\ GroupsOf(t, e) \in Seq(Groups(a))
               /\ Foreign(a, GroupsOf(t, e)) = Foreign(a, GroupsOf(s, e))
               /\ Grown(a, e, GroupsOf(t, e))
    <2>1. PICK gs \in Seq(Groups(a)) : gs = GroupsOf(s, e)
      BY <1>2, GroupsOfModel
    <2>2. PICK f \in Seq(ForeignIn(a, Groups(a))) : f = Foreign(a, gs)
      BY ForeignElements
    <2>3. f \in Seq(Groups(a)) /\ Foreign(a, f) = f
      <3>1. f \in Seq(Groups(a))
        BY DEF ForeignIn
      <3>2. Foreign(a, f) = f
        BY ForeignOfForeign
      <3> QED BY <3>1, <3>2
    <2>4. Grown(a, e, f)
      <3>1. Len(Foreign(a, GroupsOf(s, e))) <= Len(GroupsOf(Content(original[a]), e))
        BY ForeignBounded
      <3> QED BY <2>1, <2>2, <3>1 DEF Grown
    <2>5. Grown(a, e, gs)
      BY <2>1 DEF Kept
    <2> QED BY <1>3, <2>1, <2>2, <2>3, <2>4, <2>5
  <1>5. IsModel(t, Groups(a))
    <2>1. DOMAIN t.hooks \subseteq Event
      BY <1>1, <1>2 DEF IsModel
    <2>2. \A e \in DOMAIN t.hooks : t.hooks[e] = GroupsOf(t, e)
      BY DEF GroupsOf
    <2> QED BY <1>1, <1>4, <2>1, <2>2 DEF IsModel
  <1>6. t.line \in {s.line, NoLine}
    BY <1>1
  <1> QED BY <1>1, <1>4, <1>5, <1>6, KeptModel DEF t

LEMMA MergedKept ==
    ASSUME Originals, NEW a \in Agent, NEW s, Kept(a, s), NEW c, c.log \in Logs
    PROVE  Kept(a, Merged(c, a, s))
  BY InstalledKept, UninstalledKept DEF Merged

LEMMA InstalledTwice ==
    ASSUME NEW a \in Agent, NEW s, IsModel(s, Groups(a)), NEW set, NEW log \in Logs
    PROVE  LET t == Installed(a, s, set, log) IN Installed(a, t, set, log) = t
  <1> DEFINE t == Installed(a, s, set, log)
             u == Installed(a, t, set, log)
  <1>1. /\ t.line = IF "status-line" \in set THEN [command |-> StatusLine(log), fields |-> {}] ELSE s.line
        /\ t.keys = s.keys
        /\ DOMAIN t.hooks = DOMAIN s.hooks \union (set \intersect Event)
        /\ \A d \in DOMAIN t.hooks :
             t.hooks[d] = IF d \in set THEN Merge(a, GroupsOf(s, d), ScutGroup(a, d, log)) ELSE s.hooks[d]
        /\ t.hooks = [d \in DOMAIN t.hooks |-> t.hooks[d]]
        /\ t = [line |-> t.line, hooks |-> t.hooks, keys |-> t.keys]
    BY InstalledParts
  <1> HIDE DEF t
  <1>2. /\ u.line = IF "status-line" \in set THEN [command |-> StatusLine(log), fields |-> {}] ELSE t.line
        /\ u.keys = t.keys
        /\ DOMAIN u.hooks = DOMAIN t.hooks \union (set \intersect Event)
        /\ \A d \in DOMAIN u.hooks :
             u.hooks[d] = IF d \in set THEN Merge(a, GroupsOf(t, d), ScutGroup(a, d, log)) ELSE t.hooks[d]
        /\ u.hooks = [d \in DOMAIN u.hooks |-> u.hooks[d]]
        /\ u = [line |-> u.line, hooks |-> u.hooks, keys |-> u.keys]
    BY InstalledParts
  <1> HIDE DEF u
  <1>3. DOMAIN u.hooks = DOMAIN t.hooks /\ DOMAIN t.hooks \subseteq Event
    BY <1>1, <1>2 DEF IsModel
  <1>4. ASSUME NEW d \in DOMAIN u.hooks PROVE u.hooks[d] = t.hooks[d]
    <2>1. CASE d \notin set
      BY <1>2, <2>1
    <2>2. CASE d \in set
      <3>1. d \in Event /\ d \in DOMAIN t.hooks
        BY <1>3
      <3>2. PICK gs \in Seq(Groups(a)) : gs = GroupsOf(s, d)
        BY GroupsOfModel
      <3>3. ScutGroup(a, d, log) \in Groups(a)
        BY <3>1, OursIsGroup
      <3>4. t.hooks[d] = Merge(a, gs, ScutGroup(a, d, log)) /\ GroupsOf(t, d) = t.hooks[d]
        BY <1>1, <2>2, <3>1, <3>2 DEF GroupsOf
      <3>5. u.hooks[d] = Merge(a, t.hooks[d], ScutGroup(a, d, log))
        BY <1>2, <2>2, <3>4
      <3>6. Merge(a, Merge(a, gs, ScutGroup(a, d, log)), ScutGroup(a, d, log)) = Merge(a, gs, ScutGroup(a, d, log))
        BY <3>1, <3>3, MergeEvent
      <3> QED BY <3>4, <3>5, <3>6
    <2> QED BY <2>1, <2>2
  <1>5. u.hooks = t.hooks
    BY <1>1, <1>2, <1>3, <1>4
  <1>6. u.line = t.line /\ u.keys = t.keys
    BY <1>1, <1>2
  <1> QED BY <1>1, <1>2, <1>5, <1>6 DEF t, u

LEMMA UninstalledTwice ==
    ASSUME NEW a \in Agent, NEW s, IsModel(s, Groups(a)), NEW set
    PROVE  LET t == Uninstalled(a, s, set) IN Uninstalled(a, t, set) = t
  <1> DEFINE t == Uninstalled(a, s, set)
             u == Uninstalled(a, t, set)
  <1>1. /\ t.line = IF "status-line" \in set /\ ~ForeignLine(s) THEN NoLine ELSE s.line
        /\ t.keys = s.keys
        /\ DOMAIN t.hooks = {d \in DOMAIN s.hooks : d \in set => Foreign(a, s.hooks[d]) # <<>>}
        /\ \A d \in DOMAIN t.hooks : t.hooks[d] = IF d \in set THEN Foreign(a, s.hooks[d]) ELSE s.hooks[d]
        /\ t.hooks = [d \in DOMAIN t.hooks |-> t.hooks[d]]
        /\ t = [line |-> t.line, hooks |-> t.hooks, keys |-> t.keys]
    BY UninstalledParts
  <1> HIDE DEF t
  <1>2. /\ u.line = IF "status-line" \in set /\ ~ForeignLine(t) THEN NoLine ELSE t.line
        /\ u.keys = t.keys
        /\ DOMAIN u.hooks = {d \in DOMAIN t.hooks : d \in set => Foreign(a, t.hooks[d]) # <<>>}
        /\ \A d \in DOMAIN u.hooks : u.hooks[d] = IF d \in set THEN Foreign(a, t.hooks[d]) ELSE t.hooks[d]
        /\ u.hooks = [d \in DOMAIN u.hooks |-> u.hooks[d]]
        /\ u = [line |-> u.line, hooks |-> u.hooks, keys |-> u.keys]
    BY UninstalledParts
  <1> HIDE DEF u
  <1>3. ASSUME NEW d \in DOMAIN t.hooks, d \in set
        PROVE  Foreign(a, t.hooks[d]) = t.hooks[d] /\ t.hooks[d] # <<>>
    <2>1. d \in DOMAIN s.hooks /\ t.hooks[d] = Foreign(a, s.hooks[d]) /\ Foreign(a, s.hooks[d]) # <<>>
      BY <1>1, <1>3
    <2>2. s.hooks[d] \in Seq(Groups(a))
      BY <2>1 DEF IsModel
    <2>3. PICK f \in Seq(ForeignIn(a, Groups(a))) : f = Foreign(a, s.hooks[d])
      BY <2>2, ForeignElements
    <2>4. Foreign(a, f) = f
      BY ForeignOfForeign
    <2> QED BY <2>1, <2>3, <2>4
  <1>4. DOMAIN u.hooks = DOMAIN t.hooks
    BY <1>2, <1>3
  <1>5. \A d \in DOMAIN u.hooks : u.hooks[d] = t.hooks[d]
    BY <1>2, <1>3, <1>4
  <1>6. u.hooks = t.hooks
    BY <1>1, <1>2, <1>4, <1>5
  <1>7. u.line = t.line
    <2>1. CASE "status-line" \in set /\ ~ForeignLine(s)
      <3>1. t.line = NoLine
        BY <1>1, <2>1
      <3> QED BY <1>2, <3>1
    <2>2. CASE ~("status-line" \in set /\ ~ForeignLine(s))
      <3>1. t.line = s.line
        BY <1>1, <2>2
      <3>2. ForeignLine(t) <=> ForeignLine(s)
        BY <3>1 DEF ForeignLine
      <3> QED BY <1>2, <2>2, <3>2
    <2> QED BY <2>1, <2>2
  <1> QED BY <1>1, <1>2, <1>6, <1>7 DEF t, u

LEMMA MergedTwice ==
    ASSUME NEW a \in Agent, NEW s, IsModel(s, Groups(a)), NEW c, c.log \in Logs
    PROVE  Merged(c, a, Merged(c, a, s)) = Merged(c, a, s)
  <1>1. CASE c.op = "uninstall"
    BY <1>1, UninstalledTwice DEF Merged
  <1>2. CASE c.op # "uninstall"
    BY <1>2, InstalledTwice DEF Merged
  <1> QED BY <1>1, <1>2

(* scut's own status line is none that install refuses.                    *)
LEMMA OwnLine ==
    ASSUME NEW t, NEW log, t.line = [command |-> StatusLine(log), fields |-> {}]
    PROVE  ~ForeignLine(t) /\ t.line # NoLine /\ t.line.command = StatusLine(log)
  <1>1. t.line.command = StatusLine(log) /\ Owns("claude", StatusLine(log))
    BY DEF Owns, StatusLine, Hook
  <1>2. [command |-> StatusLine(log), fields |-> {}] # [lacking |-> "statusLine"]
    OBVIOUS
  <1> QED BY <1>1, <1>2 DEF ForeignLine, NoLine, Lacking

LEMMA RefusedStays ==
    ASSUME NEW a, NEW s, NEW c, ~Refused(c, a, s)
    PROVE  ~Refused(c, a, Merged(c, a, s))
  <1>1. CASE c.op = "uninstall"
    BY <1>1 DEF Refused
  <1>2. CASE c.op # "uninstall" /\ "status-line" \in InstallSet(a, c.only)
    <2> DEFINE t == Installed(a, s, InstallSet(a, c.only), c.log)
    <2>1. t.line = [command |-> StatusLine(c.log), fields |-> {}]
      BY <1>2 DEF Installed
    <2> HIDE DEF t
    <2>2. ~ForeignLine(t)
      BY <2>1, OwnLine
    <2> QED BY <1>2, <2>2 DEF t, Refused, Merged
  <1>3. CASE "status-line" \notin InstallSet(a, c.only)
    BY <1>3 DEF Refused
  <1> QED BY <1>1, <1>2, <1>3

-----------------------------------------------------------------------------
(* What is seen of a merge. *)

LEMMA InstallSetTokens ==
    ASSUME NEW a \in Agent, NEW s, NEW c, ~Refused(c, a, s)
    PROVE  InstallSet(a, c.only) \subseteq Tokens(a)
  BY AgentConfigAssumption DEF AgentConfigAssumption, InstallSet, Refused

LEMMA InstallSeen ==
    ASSUME NEW a \in Agent, NEW s, IsModel(s, Groups(a)), NEW set, NEW log \in Logs,
           NEW e \in set \intersect DOMAIN Matcher[a], e \in Event
    PROVE  LET t == Installed(a, s, set, log) IN
           /\ Hook(a, e, log) \in StatusCommands(a, t) \intersect DoctorCommands(a, t)
           /\ a = "claude" => Cardinality(ScutGroups(a, t.hooks[e])) = 1
  <1> DEFINE t == Installed(a, s, set, log)
  <1>1. PICK g \in Groups(a) :
          /\ g = ScutGroup(a, e, log) /\ IsScutGroup(a, g)
          /\ g.hooks = <<[type |-> "command", command |-> Hook(a, e, log), fields |-> {}]>>
    BY OursIsGroup, OursIsScut
  <1>2. PICK gs \in Seq(Groups(a)) : gs = GroupsOf(s, e)
    BY GroupsOfModel
  <1>3. e \in DOMAIN t.hooks /\ t.hooks[e] = Merge(a, gs, g)
    BY <1>1, <1>2 DEF Installed
  <1> HIDE DEF t
  <1>4. PICK i \in DOMAIN t.hooks[e] : t.hooks[e][i] = g
    BY <1>1, <1>3, MergeEvent
  <1>5. i \in ScutGroups(a, t.hooks[e])
    BY <1>1, <1>4 DEF ScutGroups
  <1> DEFINE h == [type |-> "command", command |-> Hook(a, e, log), fields |-> {}]
  <1>6. h \in Range(g.hooks) /\ h.type = "command" /\ h.command = Hook(a, e, log) /\ Owns(a, h.command)
    <2>1. h.type = "command" /\ h.command = Hook(a, e, log) /\ Owns(a, h.command)
      BY DEF Owns, Hook, Agent
    <2> HIDE DEF h
    <2>2. g.hooks = <<h>>
      BY <1>1 DEF h
    <2>3. 1 \in DOMAIN <<h>> /\ <<h>>[1] = h
      OBVIOUS
    <2> QED BY <2>1, <2>2, <2>3 DEF Range
  <1> HIDE DEF h
  <1>7. Hook(a, e, log) \in GroupCommands(t.hooks[e][i])
    BY <1>4, <1>6 DEF GroupCommands
  <1>8. Hook(a, e, log) \in StatusCommands(a, t)
    <2> DEFINE seen(d) == UNION {GroupCommands(t.hooks[d][j]) : j \in ScutGroups(a, t.hooks[d])}
    <2>1. StatusCommands(a, t) =
            LineCommands(a, t) \union UNION {seen(d) : d \in DOMAIN Matcher[a] \intersect DOMAIN t.hooks}
      BY DEF StatusCommands
    <2>2. Hook(a, e, log) \in seen(e)
      BY <1>5, <1>7
    <2> HIDE DEF seen
    <2> QED BY <1>3, <2>1, <2>2
  <1>9. Hook(a, e, log) \in DoctorCommands(a, t)
    <2>1. g \in Range(t.hooks[e])
      BY <1>4 DEF Range
    <2> DEFINE own(k) == {x.command : x \in {y \in Range(k.hooks) : y.type = "command" /\ Owns(a, y.command)}}
               seen(d) == UNION {own(k) : k \in Range(t.hooks[d])}
    <2>2. DoctorCommands(a, t) = LineCommands(a, t) \union UNION {seen(d) : d \in DOMAIN t.hooks}
      BY DEF DoctorCommands
    <2>3. Hook(a, e, log) \in own(g)
      BY <1>6
    <2> HIDE DEF own
    <2>4. Hook(a, e, log) \in seen(e)
      BY <2>1, <2>3
    <2> HIDE DEF seen
    <2> QED BY <1>3, <2>2, <2>4
  <1>10. ASSUME a = "claude" PROVE Cardinality(ScutGroups(a, t.hooks[e])) = 1
    <2>1. ScutGroups(a, t.hooks[e]) = {1}
      BY <1>1, <1>3, <1>10, ClaudeMerges
    <2> QED BY <2>1, FS_Singleton
  <1> QED BY <1>8, <1>9, <1>10 DEF t

LEMMA UninstallSeen ==
    ASSUME NEW a \in Agent, NEW s, IsModel(s, Groups(a))
    PROVE  StatusCommands(a, Uninstalled(a, s, Tokens(a))) = {}
  <1> DEFINE t == Uninstalled(a, s, Tokens(a))
  <1>1. /\ t.line = IF "status-line" \in Tokens(a) /\ ~ForeignLine(s) THEN NoLine ELSE s.line
        /\ DOMAIN t.hooks \subseteq DOMAIN s.hooks
        /\ \A d \in DOMAIN t.hooks : d \in Tokens(a) => t.hooks[d] = Foreign(a, s.hooks[d])
    BY DEF Uninstalled
  <1> HIDE DEF t
  <1>2. LineCommands(a, t) = {}
    <2>1. CASE a = "claude" /\ t.line = NoLine
      BY <2>1 DEF LineCommands
    <2>2. CASE a = "claude" /\ t.line # NoLine
      <3>1. "status-line" \in Tokens(a)
        BY <2>2 DEF Tokens
      <3>2. ForeignLine(s) /\ t.line = s.line
        BY <1>1, <2>2, <3>1
      <3> QED BY <3>2 DEF LineCommands, ForeignLine
    <2>3. CASE a # "claude"
      BY <2>3 DEF LineCommands
    <2> QED BY <2>1, <2>2, <2>3
  <1>3. ASSUME NEW e \in DOMAIN Matcher[a] \intersect DOMAIN t.hooks
        PROVE  ScutGroups(a, t.hooks[e]) = {}
    <2>1. t.hooks[e] = Foreign(a, s.hooks[e]) /\ s.hooks[e] \in Seq(Groups(a))
      BY <1>1 DEF Tokens, IsModel
    <2>2. PICK f \in Seq(ForeignIn(a, Groups(a))) : f = t.hooks[e]
      BY <2>1, ForeignElements
    <2>3. \A i \in DOMAIN f : ~IsScutGroup(a, f[i])
      BY DEF ForeignIn
    <2> QED BY <2>2, <2>3 DEF ScutGroups
  <1> QED BY <1>2, <1>3 DEF t, StatusCommands

-----------------------------------------------------------------------------
TypeInv ==
    /\ file = [a \in Agent |-> file[a]]
    /\ home \subseteq Agent
    /\ \A a \in Agent : file[a] # Absent => a \in home
    /\ pc \in [Proc -> Label]
    /\ agents \in [Proc -> Seq(Agent)] /\ checks \in [Proc -> Seq(Agent)]
    /\ written \in [Proc -> SUBSET Agent]
    /\ plan = [p \in Proc |-> plan[p]]
    /\ \A p \in Proc : command[p].op \in Op /\ command[p].agents \subseteq Agent /\ command[p].log \in Logs
    /\ \A p \in Proc : Planned(p) => agents[p] # <<>>
    /\ \A p \in Proc : pc[p] = "write" => Head(agents[p]) \in home
    /\ edits \in 0 .. MaxEdits /\ crashes \in 0 .. MaxCrashes

LEMMA SpecialFiles == Empty # Absent /\ Torn # Absent /\ ~IsSettings(Empty) /\ ~IsSettings(Torn) /\ ~IsSettings(Absent)
  BY DEF Empty, Torn, Absent, Lacking, IsSettings

LEMMA SeqTail ==
    ASSUME NEW S, NEW s \in Seq(S), s # <<>>
    PROVE  Head(s) \in S /\ Tail(s) \in Seq(S)
  OBVIOUS

LEMMA TypeInit == Init => TypeInv
  <1> SUFFICES ASSUME Init PROVE TypeInv
    OBVIOUS
  <1>1. file = [a \in Agent |-> file[a]]
    BY AgentConfigAssumption DEF AgentConfigAssumption, Init
  <1>2. home \subseteq Agent /\ \A a \in Agent : file[a] # Absent => a \in home
    BY DEF Init
  <1>3. /\ pc \in [Proc -> Label] /\ \A p \in Proc : ~Planned(p) /\ pc[p] # "write"
        /\ agents \in [Proc -> Seq(Agent)] /\ checks \in [Proc -> Seq(Agent)]
        /\ written \in [Proc -> SUBSET Agent] /\ plan = [p \in Proc |-> plan[p]]
    BY DEF Init, Label, Planned
  <1>4. ASSUME NEW p \in Proc
        PROVE  command[p].op \in Op /\ command[p].agents \subseteq Agent /\ command[p].log \in Logs
    <2>1. command[p] \in Commands[p]
      BY DEF Init
    <2> QED BY <2>1, AgentConfigAssumption DEF AgentConfigAssumption, Logs
  <1>5. edits \in 0 .. MaxEdits /\ crashes \in 0 .. MaxCrashes
    BY AgentConfigAssumption DEF AgentConfigAssumption, Init
  <1> QED BY <1>1, <1>2, <1>3, <1>4, <1>5 DEF TypeInv

(* A step of p that leaves the files alone, and one that writes a file.    *)
Steps(p, l, s, t, x) ==
    /\ pc' = [pc EXCEPT ![p] = l] /\ agents' = [agents EXCEPT ![p] = s]
    /\ checks' = [checks EXCEPT ![p] = t] /\ plan' = [plan EXCEPT ![p] = x]
    /\ UNCHANGED <<file, command, edits, written>>

Writes(p, l, s, a, x, w) ==
    /\ pc' = [pc EXCEPT ![p] = l] /\ agents' = [agents EXCEPT ![p] = s]
    /\ file' = [file EXCEPT ![a] = x] /\ written' = [written EXCEPT ![p] = w]
    /\ UNCHANGED <<command, edits, checks, plan>>

LEMMA TypeCommand ==
    ASSUME TypeInv, NEW p \in Proc, NEW l \in Label, NEW s \in Seq(Agent), NEW t \in Seq(Agent), NEW x,
           Steps(p, l, s, t, x), l # "write", l = "truncate" => s # <<>>,
           crashes' \in {crashes, crashes + 1}, crashes' <= MaxCrashes,
           home' \subseteq Agent, home \subseteq home'
    PROVE  TypeInv'
  <1>1. file' = [a \in Agent |-> file'[a]] /\ \A a \in Agent : file'[a] # Absent => a \in home'
    BY DEF TypeInv, Steps
  <1>2. /\ pc' \in [Proc -> Label] /\ agents' \in [Proc -> Seq(Agent)] /\ checks' \in [Proc -> Seq(Agent)]
        /\ written' \in [Proc -> SUBSET Agent] /\ plan' = [q \in Proc |-> plan'[q]]
    BY DEF TypeInv, Steps
  <1>3. ASSUME NEW q \in Proc
        PROVE  /\ Planned(q)' => agents'[q] # <<>>
               /\ pc'[q] = "write" => Head(agents'[q]) \in home'
    <2>1. CASE q = p
      <3>1. pc'[q] = l /\ agents'[q] = s
        BY <2>1 DEF TypeInv, Steps
      <3> QED BY <3>1 DEF Planned
    <2>2. CASE q # p
      <3>1. pc'[q] = pc[q] /\ agents'[q] = agents[q]
        BY <2>2 DEF TypeInv, Steps
      <3> QED BY <3>1 DEF TypeInv, Planned
    <2> QED BY <2>1, <2>2
  <1>4. edits' \in 0 .. MaxEdits /\ crashes' \in 0 .. MaxCrashes
    BY AgentConfigAssumption DEF AgentConfigAssumption, TypeInv, Steps
  <1>5. \A q \in Proc : command'[q].op \in Op /\ command'[q].agents \subseteq Agent /\ command'[q].log \in Logs
    BY DEF TypeInv, Steps
  <1> QED BY <1>1, <1>2, <1>3, <1>4, <1>5 DEF TypeInv

LEMMA TypeWriter ==
    ASSUME TypeInv, NEW p \in Proc, NEW l \in Label, NEW s \in Seq(Agent), NEW a \in Agent, NEW x,
           NEW w \in SUBSET Agent, Writes(p, l, s, a, x, w),
           l # "truncate", l = "write" => s # <<>> /\ Head(s) \in home',
           crashes' \in {crashes, crashes + 1}, crashes' <= MaxCrashes,
           a \in home', home' \subseteq Agent, home \subseteq home'
    PROVE  TypeInv'
  <1>1. file' = [b \in Agent |-> file'[b]] /\ \A b \in Agent : file'[b] # Absent => b \in home'
    BY DEF TypeInv, Writes
  <1>2. /\ pc' \in [Proc -> Label] /\ agents' \in [Proc -> Seq(Agent)] /\ checks' \in [Proc -> Seq(Agent)]
        /\ written' \in [Proc -> SUBSET Agent] /\ plan' = [q \in Proc |-> plan'[q]]
    BY DEF TypeInv, Writes
  <1>3. ASSUME NEW q \in Proc
        PROVE  /\ Planned(q)' => agents'[q] # <<>>
               /\ pc'[q] = "write" => Head(agents'[q]) \in home'
    <2>1. CASE q = p
      <3>1. pc'[q] = l /\ agents'[q] = s
        BY <2>1 DEF TypeInv, Writes
      <3> QED BY <3>1 DEF Planned
    <2>2. CASE q # p
      <3>1. pc'[q] = pc[q] /\ agents'[q] = agents[q]
        BY <2>2 DEF TypeInv, Writes
      <3> QED BY <3>1 DEF TypeInv, Planned
    <2> QED BY <2>1, <2>2
  <1>4. edits' \in 0 .. MaxEdits /\ crashes' \in 0 .. MaxCrashes
    BY AgentConfigAssumption DEF AgentConfigAssumption, TypeInv, Writes
  <1>5. \A q \in Proc : command'[q].op \in Op /\ command'[q].agents \subseteq Agent /\ command'[q].log \in Logs
    BY DEF TypeInv, Writes
  <1> QED BY <1>1, <1>2, <1>3, <1>4, <1>5 DEF TypeInv

LEMMA SelectedAgents == ASSUME TypeInv, NEW p \in Proc PROVE Selected(command[p]) \in SUBSET Agent
  BY DEF TypeInv, Selected, Detected

LEMMA TypeStep ==
    ASSUME TypeInv, NEW p \in Proc,
           \/ Start(p) \/ Preflight(p) \/ Preflighted(p)
           \/ ReadFails(p) \/ NothingToRemove(p) \/ Refuse(p) \/ DryRun(p) \/ MergeFile(p)
           \/ ShowStatus(p) \/ Diagnose(p) \/ Finish(p) \/ Crash(p)
    PROVE  TypeInv'
  <1>1. /\ pc[p] \in Label /\ agents[p] \in Seq(Agent) /\ checks[p] \in Seq(Agent)
        /\ pc = [pc EXCEPT ![p] = pc[p]] /\ agents = [agents EXCEPT ![p] = agents[p]]
        /\ checks = [checks EXCEPT ![p] = checks[p]] /\ plan = [plan EXCEPT ![p] = plan[p]]
        /\ home \subseteq Agent /\ crashes \in Nat /\ crashes <= MaxCrashes
    BY AgentConfigAssumption DEF AgentConfigAssumption, TypeInv
  <1>2. CASE Start(p)
    <2> DEFINE todo == InOrder(Selected(command[p]))
    <2>1. todo \in Seq(Agent)
      BY SelectedAgents, InOrderLists
    <2>2. /\ home' = home /\ crashes' = crashes
          /\ Steps(p, "preflight", todo, todo, plan[p]) \/ Steps(p, "read", todo, checks[p], plan[p])
      BY <1>1, <1>2 DEF Start, Goto, Steps
    <2>3. "preflight" \in Label /\ "read" \in Label
      BY DEF Label
    <2> HIDE DEF todo
    <2> QED BY <1>1, <2>1, <2>2, <2>3, TypeCommand
  <1>3. CASE Preflight(p)
    <2>1. pc[p] = "preflight" /\ checks[p] # <<>> /\ crashes' = crashes
      BY <1>3 DEF Preflight
    <2>2. Head(checks[p]) \in Agent /\ Tail(checks[p]) \in Seq(Agent)
      BY <1>1, <2>1, SeqTail
    <2>3. CASE Head(checks[p]) \in host.denied
      <3>1. Steps(p, "error", agents[p], checks[p], plan[p]) /\ home' = home /\ "error" \in Label
        BY <1>1, <1>3, <2>3 DEF Preflight, Goto, Label, Steps
      <3> QED BY <1>1, <2>1, <3>1, TypeCommand
    <2>4. CASE Head(checks[p]) \notin host.denied
      <3>1. /\ Steps(p, "preflight", agents[p], Tail(checks[p]), plan[p])
            /\ home' = home \union {Head(checks[p])} /\ "preflight" \in Label
        BY <1>1, <1>3, <2>1, <2>4 DEF Preflight, Label, Steps
      <3>2. home' \subseteq Agent /\ home \subseteq home'
        BY <1>1, <2>2, <3>1
      <3> QED BY <1>1, <2>1, <2>2, <3>1, <3>2, TypeCommand
    <2> QED BY <2>3, <2>4
  <1>4. CASE Preflighted(p)
    <2>1. /\ Steps(p, "read", agents[p], checks[p], plan[p]) /\ "read" \in Label
          /\ home' = home /\ crashes' = crashes
      BY <1>1, <1>4 DEF Preflighted, Goto, Label, Steps
    <2> QED BY <1>1, <2>1, TypeCommand
  <1>5. CASE ReadFails(p) \/ Refuse(p)
    <2>1. /\ Steps(p, "error", agents[p], checks[p], plan[p]) /\ "error" \in Label
          /\ home' = home /\ crashes' = crashes
      BY <1>1, <1>5 DEF ReadFails, Refuse, Goto, Label, Steps
    <2> QED BY <1>1, <2>1, TypeCommand
  <1>6. CASE Finish(p)
    <2>1. /\ \/ Steps(p, "error", agents[p], checks[p], plan[p])
             \/ Steps(p, "ok", agents[p], checks[p], plan[p])
          /\ "error" \in Label /\ "ok" \in Label /\ home' = home /\ crashes' = crashes
      BY <1>1, <1>6 DEF Finish, Goto, Label, Steps
    <2> QED BY <1>1, <2>1, TypeCommand
  <1>7. CASE Crash(p)
    <2>1. /\ Steps(p, "killed", agents[p], checks[p], plan[p]) /\ "killed" \in Label
          /\ home' = home /\ crashes' = crashes + 1
      BY <1>1, <1>7 DEF Crash, Goto, Label, Steps
    <2>2. crashes' <= MaxCrashes
      BY <1>1, <1>7, AgentConfigAssumption DEF Crash, AgentConfigAssumption
    <2> QED BY <1>1, <2>1, <2>2, TypeCommand
  <1>8. CASE NothingToRemove(p) \/ DryRun(p) \/ ShowStatus(p) \/ Diagnose(p)
    <2>1. /\ pc[p] = "read" /\ agents[p] # <<>> /\ home' = home /\ crashes' = crashes
          /\ Steps(p, "read", Tail(agents[p]), checks[p], plan[p])
      BY <1>1, <1>8 DEF NothingToRemove, DryRun, ShowStatus, Diagnose, NextAgent, Merging, Reading, Steps
    <2>2. Tail(agents[p]) \in Seq(Agent) /\ "read" \in Label
      BY <1>1, <2>1, SeqTail
    <2> QED BY <1>1, <2>1, <2>2, TypeCommand
  <1>9. CASE MergeFile(p)
    <2>1. PICK x : Steps(p, "truncate", agents[p], checks[p], x)
      BY <1>1, <1>9 DEF MergeFile, Goto, Steps
    <2>2. agents[p] # <<>> /\ home' = home /\ crashes' = crashes /\ "truncate" \in Label
      BY <1>9 DEF MergeFile, Merging, Reading, Label
    <2> QED BY <1>1, <2>1, <2>2, TypeCommand
  <1> QED BY <1>2, <1>3, <1>4, <1>5, <1>6, <1>7, <1>8, <1>9

LEMMA TypeWrites ==
    ASSUME TypeInv, NEW p \in Proc, Truncate(p) \/ Write(p) \/ WriteFails(p)
    PROVE  TypeInv'
  <1> DEFINE a == Head(agents[p])
  <1>1. /\ agents[p] \in Seq(Agent) /\ agents[p] # <<>> /\ written[p] \in SUBSET Agent
        /\ agents = [agents EXCEPT ![p] = agents[p]] /\ written = [written EXCEPT ![p] = written[p]]
        /\ checks = [checks EXCEPT ![p] = checks[p]] /\ plan = [plan EXCEPT ![p] = plan[p]]
        /\ checks[p] \in Seq(Agent)
        /\ home \subseteq Agent /\ crashes \in Nat /\ crashes <= MaxCrashes
    BY AgentConfigAssumption DEF AgentConfigAssumption, TypeInv, Planned, Truncate, Write, WriteFails
  <1>2. a \in Agent /\ Tail(agents[p]) \in Seq(Agent)
    BY <1>1, SeqTail
  <1>3. pc[p] = "write" => a \in home
    BY DEF TypeInv
  <1>4. "read" \in Label /\ "write" \in Label /\ "error" \in Label
    BY DEF Label
  <1>5. CASE Truncate(p)
    <2>1. CASE a \in host.denied
      <3>1. Steps(p, "error", agents[p], checks[p], plan[p]) /\ home' = home /\ crashes' = crashes
        BY <1>1, <1>5, <2>1 DEF Truncate, Goto, Steps
      <3> HIDE DEF a
      <3> QED BY <1>1, <1>4, <3>1, TypeCommand
    <2>2. CASE a \notin host.denied
      <3>1. /\ Writes(p, "write", agents[p], a, Empty, written[p] \union {a})
            /\ home' = home \union {a} /\ crashes' = crashes
        BY <1>1, <1>5, <2>2 DEF Truncate, Goto, Writes
      <3>2. a \in home' /\ home' \subseteq Agent /\ home \subseteq home' /\ written[p] \union {a} \in SUBSET Agent
        BY <1>1, <1>2, <3>1
      <3>3. Head(agents[p]) \in home'
        BY <3>2
      <3> HIDE DEF a
      <3> QED BY <1>1, <1>2, <1>4, <3>1, <3>2, <3>3, TypeWriter
    <2> QED BY <2>1, <2>2
  <1>6. CASE Write(p)
    <2>1. /\ crashes' = crashes /\ home' = home /\ pc[p] = "write"
          /\ \/ Writes(p, "read", Tail(agents[p]), a, plan[p], written[p])
             \/ Writes(p, "read", Tail(agents[p]), a, Torn, written[p])
      BY <1>1, <1>6 DEF Write, Goto, NextAgent, Writes
    <2> HIDE DEF a
    <2> QED BY <1>1, <1>2, <1>3, <1>4, <2>1, TypeWriter
  <1>7. CASE WriteFails(p)
    <2>1. /\ crashes' = crashes + 1 /\ home' = home /\ pc[p] = "write"
          /\ \/ Writes(p, "error", agents[p], a, Empty, written[p])
             \/ Writes(p, "error", agents[p], a, Torn, written[p])
      BY <1>1, <1>7 DEF WriteFails, Goto, Writes
    <2>2. crashes' <= MaxCrashes
      BY <1>1, <1>7, AgentConfigAssumption DEF WriteFails, AgentConfigAssumption
    <2> HIDE DEF a
    <2> QED BY <1>1, <1>2, <1>3, <1>4, <2>1, <2>2, TypeWriter
  <1> QED BY <1>5, <1>6, <1>7

LEMMA TypeEdit == ASSUME TypeInv, NEW a \in Agent, Edit(a) PROVE TypeInv'
  <1>1. /\ UNCHANGED <<pc, command, agents, checks, plan, written, crashes>>
        /\ home' = home \union {a} /\ edits < MaxEdits /\ edits' = edits + 1
    BY DEF Edit
  <1>2. PICK x : file' = [file EXCEPT ![a] = x]
    BY DEF Edit
  <1>3. file' = [b \in Agent |-> file'[b]] /\ \A b \in Agent : file'[b] # Absent => b \in home'
    BY <1>1, <1>2 DEF TypeInv
  <1>4. edits' \in 0 .. MaxEdits
    BY <1>1, AgentConfigAssumption DEF TypeInv, AgentConfigAssumption
  <1> QED BY <1>1, <1>3, <1>4 DEF TypeInv, Planned

LEMMA TypeNext == TypeInv /\ [Next]_vars => TypeInv'
  <1> SUFFICES ASSUME TypeInv, [Next]_vars PROVE TypeInv'
    OBVIOUS
  <1>1. CASE UNCHANGED vars
    BY <1>1 DEF vars, TypeInv, Planned
  <1> QED BY <1>1, TypeStep, TypeWrites, TypeEdit DEF Next

LEMMA TypeAlways == Spec => []TypeInv
  BY TypeInit, TypeNext, PTL DEF Spec

-----------------------------------------------------------------------------
(* A content of a's file: a model, from which a command starts with all    *)
(* that was there; or nothing a command starts from.                       *)
Sound(a, x) ==
    /\ IsSettings(x) => IsModel(x, Found \union Plain)
    /\ x = Absent \/ IsSettings(x) => Kept(a, Unmarshal(a, Content(x)))

(* A plan comes from a model it may merge into.                            *)
Derived(p) ==
    Planned(p) => \E s : /\ Kept(Head(agents[p]), s)
                         /\ ~Refused(command[p], Head(agents[p]), s)
                         /\ plan[p] = Merged(command[p], Head(agents[p]), s)

KeptInv ==
    /\ Originals
    /\ \A a \in Agent : Sound(a, file[a])
    /\ \A p \in Proc : Derived(p)

LEMMA ModelOfMore ==
    ASSUME NEW s, NEW G, NEW H, G \subseteq H, IsModel(s, G) PROVE IsModel(s, H)
  <1>1. ASSUME NEW gs \in Seq(G) PROVE gs \in Seq(H)
    OBVIOUS
  <1> QED BY <1>1 DEF IsModel

LEMMA UnconfiguredModel == ASSUME NEW G PROVE IsModel(Unconfigured, G)
  <1>1. /\ Unconfigured = [line |-> NoLine, hooks |-> <<>>, keys |-> {}]
        /\ Unconfigured.line = NoLine /\ Unconfigured.hooks = <<>> /\ Unconfigured.keys = {}
    BY DEF Unconfigured
  <1>2. DOMAIN <<>> = {} /\ <<>> = [e \in DOMAIN <<>> |-> <<>>[e]]
    OBVIOUS
  <1> QED BY <1>1, <1>2 DEF IsModel

LEMMA OriginalModels == ASSUME Init PROVE Originals
  <1> SUFFICES ASSUME NEW a \in Agent PROVE IsModel(Content(original[a]), Found)
    BY DEF Originals
  <1>1. PICK f \in Files : original = f /\ file = f
    BY DEF Init
  <1>2. CASE ~IsSettings(f[a])
    BY <1>1, <1>2, UnconfiguredModel DEF Content
  <1>3. CASE IsSettings(f[a])
    <2>1. PICK s : s = f[a]
      OBVIOUS
    <2>2. /\ s = [line |-> s.line, hooks |-> s.hooks, keys |-> s.keys]
          /\ DOMAIN s.hooks \subseteq Event
          /\ s.hooks = [e \in DOMAIN s.hooks |-> s.hooks[e]]
          /\ \A e \in DOMAIN s.hooks : s.hooks[e] \in Seq(Range(s.hooks[e]))
      BY <1>3, <2>1, AgentConfigAssumption DEF AgentConfigAssumption
    <2>3. ASSUME NEW e \in DOMAIN s.hooks PROVE s.hooks[e] \in Seq(Found)
      <3>1. Range(s.hooks[e]) \subseteq Found
        BY <1>3, <2>1 DEF Found
      <3>2. ASSUME NEW gs \in Seq(Range(s.hooks[e])) PROVE gs \in Seq(Found)
        BY <3>1
      <3> QED BY <2>2, <3>2
    <2>4. IsModel(s, Found)
      BY <2>2, <2>3 DEF IsModel
    <2>5. Content(original[a]) = s
      BY <1>1, <1>3, <2>1 DEF Content
    <2> QED BY <2>4, <2>5
  <1> QED BY <1>2, <1>3

LEMMA KeptAtStart ==
    ASSUME Originals, NEW a \in Agent
    PROVE  Kept(a, Unmarshal(a, Content(original[a])))
  <1> DEFINE o == Content(original[a])
             u == Unmarshal(a, o)
  <1>1. IsModel(o, Found \union Plain)
    <2>1. IsModel(o, Found)
      BY DEF Originals
    <2> HIDE DEF o
    <2> QED BY <2>1, ModelOfMore
  <1> HIDE DEF o
  <1>2. /\ IsModel(u, Groups(a)) /\ u.keys = o.keys
        /\ a = "claude" => UntypedLine(u.line) = u.line
        /\ \A e \in Event : Len(GroupsOf(u, e)) = Len(GroupsOf(o, e))
    BY <1>1, UnmarshalModel
  <1> HIDE DEF u
  <1>3. ASSUME NEW e \in Event PROVE Grown(a, e, GroupsOf(u, e))
    <2>1. GroupsOf(o, e) \in Seq(Found \union Plain)
      BY <1>1, GroupsOfModel
    <2>2. Len(GroupsOf(u, e)) <= Len(GroupsOf(o, e))
      BY <1>2, <2>1
    <2> QED BY <2>2 DEF Grown, o
  <1> QED BY <1>2, <1>3 DEF Kept, o, u

LEMMA KeptInit == Init => KeptInv
  <1> SUFFICES ASSUME Init PROVE KeptInv
    OBVIOUS
  <1>1. Originals
    BY OriginalModels
  <1>2. ASSUME NEW a \in Agent PROVE Sound(a, file[a])
    <2>1. file[a] = original[a]
      BY DEF Init
    <2>2. IsSettings(original[a]) => IsModel(original[a], Found \union Plain)
      <3>1. IsSettings(original[a]) => IsModel(original[a], Found)
        BY <1>1 DEF Originals, Content
      <3> QED BY <3>1, ModelOfMore
    <2> QED BY <1>1, <2>1, <2>2, KeptAtStart DEF Sound
  <1>3. ASSUME NEW p \in Proc PROVE Derived(p)
    BY DEF Init, Derived, Planned
  <1> QED BY <1>1, <1>2, <1>3 DEF KeptInv

(* What a command writes is sound, and so is what is left of a write.      *)
LEMMA KeptSound == ASSUME NEW a \in Agent, NEW s, Kept(a, s) PROVE Sound(a, s)
  <1>1. IsModel(s, Groups(a)) /\ (a = "claude" => UntypedLine(s.line) = s.line)
    BY DEF Kept
  <1>2. IsModel(s, Found \union Plain)
    <2>1. Groups(a) \subseteq Found \union Plain
      BY DEF Groups
    <2> QED BY <1>1, <2>1, ModelOfMore
  <1>3. IsSettings(s)
    <2>1. s = [line |-> s.line, hooks |-> s.hooks, keys |-> s.keys]
      BY <1>1 DEF IsModel
    <2>2. ASSUME NEW w PROVE s # [lacking |-> w]
      BY <2>1
    <2> QED BY <2>2 DEF IsSettings, Absent, Empty, Torn, Lacking
  <1>4. Content(s) = s
    BY <1>3 DEF Content
  <1>5. Unmarshal(a, s) = s
    BY <1>1, CleanUnmarshal
  <1> QED BY <1>2, <1>4, <1>5 DEF Sound

LEMMA LeftSound == ASSUME NEW a PROVE Sound(a, Empty) /\ Sound(a, Torn)
  BY SpecialFiles DEF Sound

LEMMA EditedSound ==
    ASSUME NEW a \in Agent, NEW x, Sound(a, x), x = Absent \/ IsSettings(x), NEW K,
           NEW s, s = Content(x), NEW t, t = [line |-> s.line, hooks |-> s.hooks, keys |-> s.keys \union K]
    PROVE  Sound(a, t)
  <1>1. t.line = s.line /\ t.hooks = s.hooks /\ t.keys = s.keys \union K
    OBVIOUS
  <1>2. IsModel(s, Found \union Plain)
    BY UnconfiguredModel DEF Sound, Content
  <1>3. IsModel(t, Found \union Plain)
    BY <1>1, <1>2 DEF IsModel
  <1>4. IsSettings(t)
    <2>1. ASSUME NEW w PROVE t # [lacking |-> w]
      OBVIOUS
    <2> QED BY <2>1 DEF IsSettings, Absent, Empty, Torn, Lacking
  <1> DEFINE u == Unmarshal(a, s)
             v == Unmarshal(a, t)
  <1>5. Kept(a, u)
    BY DEF Sound
  <1>6. /\ v = [line |-> v.line, hooks |-> v.hooks, keys |-> v.keys]
        /\ v.line = u.line /\ v.hooks = u.hooks /\ v.keys = u.keys \union K
    BY <1>1 DEF Unmarshal
  <1> HIDE DEF u, v
  <1>7. IsModel(v, Groups(a))
    BY <1>5, <1>6 DEF Kept, IsModel
  <1>8. \A e \in Event : GroupsOf(v, e) = GroupsOf(u, e)
    BY <1>6 DEF GroupsOf
  <1>9. Kept(a, v)
    BY <1>5, <1>6, <1>7, <1>8 DEF Kept
  <1>10. Content(t) = t
    BY <1>4 DEF Content
  <1> QED BY <1>3, <1>9, <1>10 DEF Sound, v

LEMMA SoundStays ==
    ASSUME UNCHANGED original, NEW a, NEW x PROVE Sound(a, x) => Sound(a, x)'
  BY DEF Sound, Kept, Grown

LEMMA KeptStays ==
    ASSUME UNCHANGED original, NEW a, NEW s PROVE Kept(a, s) => Kept(a, s)'
  BY DEF Kept, Grown

LEMMA OriginalsStay == ASSUME UNCHANGED original PROVE Originals => Originals'
  BY DEF Originals

LEMMA DerivedStays ==
    ASSUME UNCHANGED <<original, command>>, NEW q, Derived(q),
           plan'[q] = plan[q], agents'[q] = agents[q], pc'[q] = pc[q] \/ ~Planned(q)'
                                                        \/ (Planned(q) /\ Planned(q)')
    PROVE  Derived(q)'
  <1>1. SUFFICES ASSUME Planned(q)'
                 PROVE  (\E s : /\ Kept(Head(agents[q]), s)
                                /\ ~Refused(command[q], Head(agents[q]), s)
                                /\ plan[q] = Merged(command[q], Head(agents[q]), s))'
    BY DEF Derived
  <1>2. Planned(q)
    BY <1>1 DEF Planned
  <1>3. PICK s : /\ Kept(Head(agents[q]), s)
                 /\ ~Refused(command[q], Head(agents[q]), s)
                 /\ plan[q] = Merged(command[q], Head(agents[q]), s)
    BY <1>2 DEF Derived
  <1>4. PICK a : a = Head(agents[q])
    OBVIOUS
  <1>5. Kept(a, s)'
    BY <1>3, <1>4, KeptStays
  <1>6. PICK c : c = command[q]
    OBVIOUS
  <1>7. Head(agents[q])' = a /\ command'[q] = c /\ plan'[q] = Merged(c, a, s) /\ ~Refused(c, a, s)
    BY <1>3, <1>4, <1>6
  <1> QED BY <1>5, <1>7

(* A step of p that leaves the files alone.                                *)
LEMMA KeptQuiet ==
    ASSUME KeptInv, NEW p \in Proc, UNCHANGED <<file, original, command>>,
           \A q \in Proc \ {p} : plan'[q] = plan[q] /\ agents'[q] = agents[q] /\ pc'[q] = pc[q],
           Derived(p)'
    PROVE  KeptInv'
  <1>1. Originals'
    BY OriginalsStay DEF KeptInv
  <1>2. ASSUME NEW a \in Agent PROVE Sound(a, file[a])'
    <2>1. PICK x : x = file[a]
      OBVIOUS
    <2>2. Sound(a, x)'
      BY <2>1, SoundStays DEF KeptInv
    <2> QED BY <2>1, <2>2
  <1>3. ASSUME NEW q \in Proc \ {p} PROVE Derived(q)'
    BY <1>3, DerivedStays DEF KeptInv
  <1> QED BY <1>1, <1>2, <1>3 DEF KeptInv

(* One that writes the file of an agent.                                   *)
LEMMA KeptWrite ==
    ASSUME TypeInv, KeptInv, UNCHANGED <<original, command, plan>>,
           NEW a \in Agent, NEW x, file' = [file EXCEPT ![a] = x], Sound(a, x),
           \A q \in Proc : ~Planned(q)' \/ (Planned(q) /\ agents'[q] = agents[q])
    PROVE  KeptInv'
  <1>1. Originals'
    BY OriginalsStay DEF KeptInv
  <1>2. ASSUME NEW b \in Agent PROVE Sound(b, file[b])'
    <2>1. PICK y : y = file'[b]
      OBVIOUS
    <2>2. Sound(b, y)
      BY <2>1 DEF TypeInv, KeptInv
    <2>3. Sound(b, y)'
      BY <2>2, SoundStays
    <2> QED BY <2>1, <2>3
  <1>3. ASSUME NEW q \in Proc PROVE Derived(q)'
    <2>1. CASE ~Planned(q)'
      BY <2>1 DEF Derived
    <2>2. CASE Planned(q) /\ Planned(q)'
      BY <2>2, DerivedStays DEF KeptInv
    <2> QED BY <2>1, <2>2
  <1> QED BY <1>1, <1>2, <1>3 DEF KeptInv

LEMMA KeptCommand ==
    ASSUME TypeInv, TypeInv', KeptInv, NEW p \in Proc,
           \/ Start(p) \/ Preflight(p) \/ Preflighted(p)
           \/ ReadFails(p) \/ NothingToRemove(p) \/ Refuse(p) \/ DryRun(p)
           \/ ShowStatus(p) \/ Diagnose(p) \/ Finish(p) \/ Crash(p)
    PROVE  KeptInv'
  <1>1. /\ UNCHANGED <<file, original, command>>
        /\ \A q \in Proc \ {p} : plan'[q] = plan[q] /\ agents'[q] = agents[q] /\ pc'[q] = pc[q]
    BY DEF TypeInv, Start, Preflight, Preflighted, ReadFails, NothingToRemove, Refuse, DryRun,
           ShowStatus, Diagnose, Finish, Crash, Goto, NextAgent
  <1>2. ~Planned(p)'
    BY DEF TypeInv, Planned, Start, Preflight, Preflighted, ReadFails, NothingToRemove, Refuse, DryRun,
           ShowStatus, Diagnose, Finish, Crash, Goto, Reading, Merging
  <1> QED BY <1>1, <1>2, KeptQuiet DEF Derived

LEMMA KeptMerge ==
    ASSUME TypeInv, KeptInv, NEW p \in Proc, MergeFile(p)
    PROVE  KeptInv'
  <1>1. /\ UNCHANGED <<file, original, command, agents>> /\ pc' = [pc EXCEPT ![p] = "truncate"]
        /\ Parses(Head(agents[p])) /\ agents[p] # <<>>
        /\ ~Refused(command[p], Head(agents[p]), Base(Head(agents[p])))
        /\ plan' = [plan EXCEPT ![p] = Merged(command[p], Head(agents[p]), Base(Head(agents[p])))]
    BY DEF MergeFile, Merging, Reading, Goto
  <1>2. PICK a \in Agent : a = Head(agents[p])
    <2>1. Head(agents[p]) \in Agent
      BY <1>1, SeqTail DEF TypeInv
    <2> QED BY <2>1
  <1>3. PICK s : s = Base(a)
    OBVIOUS
  <1>4. Kept(a, s)
    BY <1>1, <1>2, <1>3 DEF KeptInv, Sound, Base, Parses
  <1>5. PICK c : c = command[p]
    OBVIOUS
  <1>6. /\ Kept(a, s)' /\ Head(agents'[p]) = a /\ command'[p] = c
        /\ plan'[p] = Merged(c, a, s) /\ ~Refused(c, a, s)
    BY <1>1, <1>2, <1>3, <1>4, <1>5, KeptStays DEF TypeInv
  <1>7. Derived(p)'
    BY <1>6 DEF Derived
  <1>8. \A q \in Proc \ {p} : plan'[q] = plan[q] /\ agents'[q] = agents[q] /\ pc'[q] = pc[q]
    BY <1>1 DEF TypeInv
  <1> QED BY <1>1, <1>7, <1>8, KeptQuiet

LEMMA KeptWrites ==
    ASSUME TypeInv, KeptInv, NEW p \in Proc, Truncate(p) \/ Write(p) \/ WriteFails(p)
    PROVE  KeptInv'
  <1>1. PICK a \in Agent : a = Head(agents[p])
    <2>1. Head(agents[p]) \in Agent
      BY SeqTail DEF TypeInv, Planned, Truncate, Write, WriteFails
    <2> QED BY <2>1
  <1>2. UNCHANGED <<original, command, plan>> /\ Planned(p)
    BY DEF Truncate, Write, WriteFails, Planned
  <1>3. CASE Truncate(p) /\ a \in host.denied
    <2>1. /\ UNCHANGED <<file, agents>> /\ pc' = [pc EXCEPT ![p] = "error"]
      BY <1>1, <1>3 DEF Truncate, Goto
    <2>2. ~Planned(p)' /\ \A q \in Proc \ {p} : pc'[q] = pc[q]
      BY <2>1 DEF Planned, TypeInv
    <2> QED BY <1>2, <2>1, <2>2, KeptQuiet DEF Derived
  <1>4. CASE Truncate(p) /\ a \notin host.denied
    <2>1. /\ file' = [file EXCEPT ![a] = Empty] /\ UNCHANGED agents /\ pc' = [pc EXCEPT ![p] = "write"]
      BY <1>1, <1>4 DEF Truncate, Goto
    <2>2. \A q \in Proc : ~Planned(q)' \/ (Planned(q) /\ agents'[q] = agents[q])
      BY <1>2, <2>1 DEF Planned, TypeInv
    <2> QED BY <1>2, <2>1, <2>2, LeftSound, KeptWrite
  <1>5. CASE Write(p)
    <2>1. /\ agents' = [agents EXCEPT ![p] = Tail(@)] /\ pc' = [pc EXCEPT ![p] = "read"]
      BY <1>5 DEF Write, Goto, NextAgent
    <2>2. \A q \in Proc : ~Planned(q)' \/ (Planned(q) /\ agents'[q] = agents[q])
      BY <2>1 DEF Planned, TypeInv
    <2>3. CASE file' = [file EXCEPT ![a] = Torn]
      BY <1>2, <2>2, <2>3, LeftSound, KeptWrite
    <2>4. CASE file' = [file EXCEPT ![a] = plan[p]]
      <3>1. PICK s : Kept(a, s) /\ plan[p] = Merged(command[p], a, s)
        BY <1>1, <1>2 DEF KeptInv, Derived
      <3>2. PICK x : x = plan[p]
        OBVIOUS
      <3>3. PICK c : c = command[p]
        OBVIOUS
      <3>4. Kept(a, x)
        BY <3>1, <3>2, <3>3, MergedKept DEF KeptInv, TypeInv
      <3>5. Sound(a, x)
        BY <3>4, KeptSound
      <3> QED BY <1>2, <2>2, <2>4, <3>2, <3>5, KeptWrite
    <2> QED BY <1>1, <1>5, <2>3, <2>4 DEF Write
  <1>6. CASE WriteFails(p)
    <2>1. /\ UNCHANGED agents /\ pc' = [pc EXCEPT ![p] = "error"]
          /\ file' = [file EXCEPT ![a] = Empty] \/ file' = [file EXCEPT ![a] = Torn]
      BY <1>1, <1>6 DEF WriteFails, Goto
    <2>2. \A q \in Proc : ~Planned(q)' \/ (Planned(q) /\ agents'[q] = agents[q])
      BY <2>1 DEF Planned, TypeInv
    <2> QED BY <1>2, <2>1, <2>2, LeftSound, KeptWrite
  <1> QED BY <1>3, <1>4, <1>5, <1>6

LEMMA KeptEdit == ASSUME TypeInv, KeptInv, NEW a \in Agent, Edit(a) PROVE KeptInv'
  <1>1. UNCHANGED <<pc, command, agents, plan, original>> /\ (IsSettings(file[a]) \/ file[a] = Absent)
    BY DEF Edit
  <1>2. PICK x : x = file[a]
    OBVIOUS
  <1>3. PICK s : s = Content(x)
    OBVIOUS
  <1>4. PICK t : t = [line |-> s.line, hooks |-> s.hooks, keys |-> s.keys \union {"edit"}]
    OBVIOUS
  <1>5. file' = [file EXCEPT ![a] = t]
    BY <1>2, <1>3, <1>4 DEF Edit
  <1>6. Sound(a, t)
    BY <1>1, <1>2, <1>3, <1>4, EditedSound DEF KeptInv
  <1>7. \A q \in Proc : ~Planned(q)' \/ (Planned(q) /\ agents'[q] = agents[q])
    BY <1>1 DEF Planned
  <1> QED BY <1>1, <1>5, <1>6, <1>7, KeptWrite

LEMMA KeptNext == TypeInv /\ TypeInv' /\ KeptInv /\ [Next]_vars => KeptInv'
  <1> SUFFICES ASSUME TypeInv, TypeInv', KeptInv, [Next]_vars PROVE KeptInv'
    OBVIOUS
  <1>1. CASE UNCHANGED vars
    <2>1. UNCHANGED <<file, original, command, plan, agents, pc>>
      BY <1>1 DEF vars
    <2>2. Originals'
      BY <2>1, OriginalsStay DEF KeptInv
    <2>3. ASSUME NEW a \in Agent PROVE Sound(a, file[a])'
      <3>1. PICK x : x = file[a]
        OBVIOUS
      <3>2. Sound(a, x)'
        BY <2>1, <3>1, SoundStays DEF KeptInv
      <3> QED BY <2>1, <3>1, <3>2
    <2>4. ASSUME NEW p \in Proc PROVE Derived(p)'
      BY <2>1, DerivedStays DEF KeptInv
    <2> QED BY <2>2, <2>3, <2>4 DEF KeptInv
  <1> QED BY <1>1, KeptCommand, KeptMerge, KeptWrites, KeptEdit DEF Next

LEMMA KeptAlways == Spec => [](TypeInv /\ KeptInv)
  BY TypeAlways, KeptInit, KeptNext, PTL DEF Spec

-----------------------------------------------------------------------------
LEMMA TypesHold == ASSUME TypeInv, KeptInv PROVE TypeOK
  <1>1. DOMAIN file = Agent /\ home \subseteq Agent /\ \A a \in Agent : file[a] # Absent => a \in home
    BY DEF TypeInv
  <1>2. ASSUME NEW a \in Agent, IsSettings(file[a])
        PROVE  /\ DOMAIN file[a].hooks \subseteq Event
               /\ \A e \in DOMAIN file[a].hooks :
                    Len(file[a].hooks[e]) <= 1 + Len(GroupsOf(Content(original[a]), e))
    <2>1. PICK s : s = file[a]
      OBVIOUS
    <2>2. IsModel(s, Found \union Plain) /\ Content(s) = s
      BY <1>2, <2>1 DEF KeptInv, Sound, Content
    <2>3. Kept(a, Unmarshal(a, s))
      BY <1>2, <2>1, <2>2 DEF KeptInv, Sound
    <2>4. ASSUME NEW e \in DOMAIN s.hooks
          PROVE  Len(s.hooks[e]) <= 1 + Len(GroupsOf(Content(original[a]), e))
      <3>1. e \in Event /\ GroupsOf(s, e) = s.hooks[e]
        BY <2>2 DEF IsModel, GroupsOf
      <3>2. Len(GroupsOf(Unmarshal(a, s), e)) = Len(s.hooks[e])
        BY <2>2, <3>1, UnmarshalModel
      <3>3. Grown(a, e, GroupsOf(Unmarshal(a, s), e))
        BY <2>3, <3>1 DEF Kept
      <3>4. PICK n \in Nat : n = Len(GroupsOf(Content(original[a]), e))
        BY <2>3, <3>1, ForeignBounded DEF KeptInv
      <3>5. Len(s.hooks[e]) \in Nat
        BY <2>2 DEF IsModel
      <3> QED BY <3>2, <3>3, <3>4, <3>5 DEF Grown
    <2> QED BY <2>1, <2>2, <2>4 DEF IsModel
  <1>3. pc \in [Proc -> {"start", "preflight", "read", "truncate", "write", "ok", "error", "killed"}]
    BY DEF TypeInv, Label
  <1>4. ASSUME NEW p \in Proc
        PROVE  /\ command[p].op \in Op /\ Range(agents[p]) \subseteq Agent
               /\ checks[p] \in Seq(Agent) /\ written[p] \subseteq Agent
    <2>1. agents[p] \in Seq(Agent) /\ command[p].op \in Op /\ checks[p] \in Seq(Agent) /\ written[p] \subseteq Agent
      BY DEF TypeInv
    <2> QED BY <2>1 DEF Range
  <1>5. edits \in 0 .. MaxEdits /\ crashes \in 0 .. MaxCrashes
    BY DEF TypeInv
  <1> QED BY <1>1, <1>2, <1>3, <1>4, <1>5 DEF TypeOK

(* Every file that parses is a list of settings with at most one group     *)
(* more per event than at the start, whatever number of installs ran, in   *)
(* turn or interleaved.                                                    *)
THEOREM FilesDoNotGrow == Spec => []TypeOK
  BY KeptAlways, TypesHold, PTL

LEMMA KeptSurvives == ASSUME TypeInv, KeptInv PROVE ForeignSurvives
  <1> SUFFICES ASSUME NEW a \in Agent, IsSettings(file[a]), IsSettings(original[a])
               PROVE  /\ original[a].keys \subseteq file[a].keys
                      /\ ForeignGroups(a, Unmarshal(a, file[a])) = ForeignGroups(a, Unmarshal(a, original[a]))
    BY DEF ForeignSurvives
  <1>1. Content(file[a]) = file[a] /\ Content(original[a]) = original[a]
    BY DEF Content
  <1>2. Kept(a, Unmarshal(a, file[a])) /\ IsModel(file[a], Found \union Plain)
    BY <1>1 DEF KeptInv, Sound
  <1>3. Unmarshal(a, file[a]).keys = file[a].keys
    BY <1>2, UnmarshalModel
  <1>4. original[a].keys \subseteq Unmarshal(a, file[a]).keys
    BY <1>1, <1>2 DEF Kept
  <1>5. \A e \in Event : Foreign(a, GroupsOf(Unmarshal(a, file[a]), e)) = Foreign(a, GroupsOf(Unmarshal(a, original[a]), e))
    BY <1>1, <1>2 DEF Kept
  <1> QED BY <1>3, <1>4, <1>5 DEF ForeignGroups

(* What is the user's survives every sequence and interleaving of          *)
(* installs, uninstalls and inits, killed writers and edits included.      *)
THEOREM UsersSettingsSurvive == Spec => []ForeignSurvives
  BY KeptAlways, KeptSurvives, PTL

LEMMA PlannedFrom ==
    ASSUME TypeInv, KeptInv, NEW p \in Proc, Planned(p)
    PROVE  /\ Head(agents[p]) \in Agent
           /\ command[p].log \in Logs
           /\ \E s : /\ IsModel(s, Groups(Head(agents[p])))
                     /\ ~Refused(command[p], Head(agents[p]), s)
                     /\ plan[p] = Merged(command[p], Head(agents[p]), s)
  <1>1. Head(agents[p]) \in Agent /\ command[p].log \in Logs
    BY SeqTail DEF TypeInv
  <1>2. PICK s : /\ Kept(Head(agents[p]), s)
                 /\ ~Refused(command[p], Head(agents[p]), s)
                 /\ plan[p] = Merged(command[p], Head(agents[p]), s)
    BY DEF KeptInv, Derived
  <1> QED BY <1>1, <1>2 DEF Kept

LEMMA KeptIdempotent == ASSUME TypeInv, KeptInv PROVE Idempotent
  <1> SUFFICES ASSUME NEW p \in Proc, Planned(p), NEW a, a = Head(agents[p]), NEW c, c = command[p],
                      NEW x, x = plan[p]
               PROVE  ~Refused(c, a, x) /\ Merged(c, a, x) = x
    BY DEF Idempotent
  <1>1. PICK s : IsModel(s, Groups(a)) /\ ~Refused(c, a, s) /\ x = Merged(c, a, s)
    BY PlannedFrom
  <1>2. a \in Agent /\ c.log \in Logs
    BY PlannedFrom
  <1> QED BY <1>1, <1>2, RefusedStays, MergedTwice

(* Running a command on what it is about to write would be accepted and    *)
(* write the same: installs and uninstalls are idempotent from any file.   *)
THEOREM RerunsChangeNothing == Spec => []Idempotent
  BY KeptAlways, KeptIdempotent, PTL

LEMMA LinesShow == ASSUME NEW a, NEW t PROVE LineCommands(a, t) \subseteq DoctorCommands(a, t)
  BY DEF DoctorCommands

LEMMA KeptSeen == ASSUME TypeInv, KeptInv PROVE WritersSeen
  <1> SUFFICES ASSUME NEW p \in Proc, Planned(p), NEW a, a = Head(agents[p]), NEW c, c = command[p],
                      NEW x, x = plan[p]
               PROVE  LET set == InstallSet(a, c.only)
                      IN IF c.op = "uninstall" THEN c.only = {} => StatusCommands(a, x) = {}
                         ELSE /\ \A e \in set \intersect Event :
                                   /\ Hook(a, e, c.log) \in StatusCommands(a, x) \intersect DoctorCommands(a, x)
                                   /\ a = "claude" => Cardinality(ScutGroups(a, x.hooks[e])) = 1
                              /\ "status-line" \in set => StatusLine(c.log) \in DoctorCommands(a, x)
    BY DEF WritersSeen
  <1>1. PICK s : IsModel(s, Groups(a)) /\ ~Refused(c, a, s) /\ x = Merged(c, a, s)
    BY PlannedFrom
  <1>2. a \in Agent /\ c.log \in Logs
    BY PlannedFrom
  <1>3. CASE c.op = "uninstall"
    <2>1. ASSUME c.only = {} PROVE StatusCommands(a, x) = {}
      <3>1. x = Uninstalled(a, s, Tokens(a))
        BY <1>1, <1>3, <2>1 DEF Merged, RemoveSet
      <3> QED BY <1>1, <1>2, <3>1, UninstallSeen
    <2> QED BY <1>3, <2>1
  <1>4. CASE c.op # "uninstall"
    <2>1. PICK set : set = InstallSet(a, c.only)
      OBVIOUS
    <2>2. x = Installed(a, s, set, c.log) /\ set \subseteq Tokens(a)
      BY <1>1, <1>2, <1>4, <2>1, InstallSetTokens DEF Merged
    <2>3. ASSUME NEW e \in set \intersect Event
          PROVE  /\ Hook(a, e, c.log) \in StatusCommands(a, x) \intersect DoctorCommands(a, x)
                 /\ a = "claude" => Cardinality(ScutGroups(a, x.hooks[e])) = 1
      <3>1. e \in set \intersect DOMAIN Matcher[a] /\ e \in Event
        BY <2>2, AgentConfigAssumption DEF AgentConfigAssumption, Tokens
      <3>2. PICK log \in Logs : log = c.log
        BY <1>2
      <3>3. PICK t : t = Installed(a, s, set, log)
        OBVIOUS
      <3>4. /\ Hook(a, e, log) \in StatusCommands(a, t) \intersect DoctorCommands(a, t)
            /\ a = "claude" => Cardinality(ScutGroups(a, t.hooks[e])) = 1
        BY <1>1, <1>2, <3>1, <3>3, InstallSeen
      <3> QED BY <2>2, <3>2, <3>3, <3>4
    <2>4. ASSUME "status-line" \in set PROVE StatusLine(c.log) \in DoctorCommands(a, x)
      <3>1. a = "claude"
        BY <1>2, <2>2, <2>4, AgentConfigAssumption DEF AgentConfigAssumption, Tokens
      <3>2. x.line = [command |-> StatusLine(c.log), fields |-> {}]
        BY <2>2, <2>4 DEF Installed
      <3>3. StatusLine(c.log) \in LineCommands(a, x)
        BY <3>1, <3>2, OwnLine DEF LineCommands
      <3> QED BY <3>3, LinesShow
    <2> QED BY <1>4, <2>1, <2>3, <2>4
  <1> QED BY <1>3, <1>4

(* status and doctor see every command an install of any set leaves, and   *)
(* status none after an uninstall of everything.                           *)
THEOREM WhatIsWrittenIsSeen == Spec => []WritersSeen
  BY KeptAlways, KeptSeen, PTL
=============================================================================
