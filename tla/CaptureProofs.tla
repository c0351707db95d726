--------------------------- MODULE CaptureProofs ---------------------------
(***************************************************************************)
(* What the TrafficCapture reconciler guarantees, and what a capture       *)
(* stores of the settings it is given, for every value of the constants.   *)
(***************************************************************************)
EXTENDS TrafficCaptures, CaptureSettings, TLAPS

\* A tuple of one pass.
LEMMA OnePass ==
  ASSUME NEW p
  PROVE  <<p>>[1] = p /\ <<p>> # <<>> /\ \A q : <<p>> = <<q>> => p = q
<1>1. <<p>>[1] = p /\ <<p>> # <<>>
  BY Zenon
<1>2. \A q : <<q>>[1] = q
  BY Zenon
<1> QED
  BY <1>1, <1>2, Zenon

-----------------------------------------------------------------------------
(***************************************************************************)
(* The TrafficCapture reconciler: filters and agents come and go in order. *)
(***************************************************************************)
CapturesSpec == CapturesInit /\ [][CapturesNext]_captureVars

CaptureRecord == [live : {"absent", "present", "deleting"}, gen : Nat, finalizer : BOOLEAN,
                  phase : {"New", "Pending", "Active", "Completed", "Failed"}, started : BOOLEAN]
AgentRecord == [owner : [Kinds -> Nat], ready : BOOLEAN]

\* The steps of a pass that set a capture up, and those that take it down.
SetUp == {"storage", "deployment", "service", "hpa", "mirror", "status"}
TakeDown == {"drop-hpa", "drop-deployment", "drop-service", "complete"}
CapturePCs == {"finalizer", "unmirror", "unmirror-deleted", "release"} \cup SetUp \cup TakeDown
CapturePass == [name : Captures, tc : CaptureRecord, pc : CapturePCs, stale : BOOLEAN]

Mirrors(R, c) == \E r \in Routes : \E i \in DOMAIN R[r] : c \in R[r][i]

\* A filter is only ever on the route that its capture names.
RulesRight(R) ==
    /\ R \in [Routes -> Seq(SUBSET (Captures \cup Foreign))]
    /\ \A r \in Routes : \A i \in DOMAIN R[r] : \A c \in R[r][i] \cap Captures : r = TargetOf[c]

(***************************************************************************)
(* A capture c stored as t, with agents a, filters R and leaks L.  As long *)
(* as its route mirrors to it, the object is there, cannot go without its  *)
(* finalizer, and owns the Service.                                        *)
(***************************************************************************)
CaptureRight(c, t, a, R, L) ==
    /\ t.live # "absent" => t.gen # 0
    /\ t.phase = "Completed" => ~Mirrors(R, c) /\ \A kind \in Kinds : a.owner[kind] = 0
    /\ Mirrors(R, c) /\ c \notin L => t.live # "absent" /\ t.finalizer /\ a.owner["service"] = t.gen

(***************************************************************************)
(* A pass p over it.  A copy that is not stale is the stored object.  One  *)
(* that sets up may be stale, but then the object waits for its finalizer  *)
(* and is still the one that the pass works for.                           *)
(***************************************************************************)
PassRight(p, t, a, R, L, E) ==
    /\ ~p.stale => p.tc = t /\ t.live # "absent"
    /\ p.pc \in SetUp =>
          t.live # "absent" /\ t.finalizer /\ t.phase # "Completed" /\ p.tc.gen = t.gen
    /\ p.pc \in {"hpa", "mirror", "status"} => a.owner["service"] = t.gen
    /\ p.pc \in TakeDown => ~Mirrors(R, p.name)
    /\ p.pc \in {"drop-deployment", "drop-service", "complete"} => a.owner["hpa"] = 0
    /\ p.pc \in {"drop-service", "complete"} => a.owner["deployment"] = 0
    /\ p.pc = "complete" => a.owner["service"] = 0
    /\ p.pc = "release" => ~Mirrors(R, p.name) \/ p.name \in L
    /\ p.pc = "unmirror" => p.name \in E
    /\ p.pc = "unmirror-deleted" => t.live = "deleting"

CapturesInv ==
    /\ tc \in [Captures -> CaptureRecord]
    /\ agents \in [Captures -> AgentRecord]
    /\ RulesRight(rules)
    /\ \A c \in Captures : CaptureRight(c, tc[c], agents[c], rules, leaked)
    /\ pass = <<>> \/ \E p \in CapturePass : pass = <<p>>
    /\ \A p \in CapturePass :
          pass = <<p>> => PassRight(p, tc[p.name], agents[p.name], rules, leaked, elapsed)

\* A step that takes a filter away only as CaptureUninterrupted says.
FiltersKept ==
    \A r \in Routes : \A i \in DOMAIN rules[r] \cap DOMAIN rules'[r] :
        \A f \in rules[r][i] \ rules'[r][i] :
            f \in elapsed \/ (f \in Captures /\ tc[f].live = "deleting")

\* What a step that works on the capture c may leave as the pass in progress.
PassFits(c, t, a) ==
    \/ pass' = <<>>
    \/ \E q \in CapturePass : /\ pass' = <<q>> /\ q.name = c
                              /\ PassRight(q, t, a, rules', leaked', elapsed')
    \/ /\ pass' = pass
       /\ \A p \in CapturePass : pass = <<p>> /\ p.name = c =>
              PassRight(p, t, a, rules', leaked', elapsed')

\* Less is mirrored, and no leak and no elapsed time is forgotten.
Apart(c) ==
    \A d \in Captures \ {c} : /\ Mirrors(rules', d) => Mirrors(rules, d)
                              /\ d \in leaked => d \in leaked'
                              /\ d \in elapsed => d \in elapsed'

\* What is right of a pass over a capture stays right when less is mirrored.
LEMMA LessMirrored ==
  ASSUME NEW p, NEW t, NEW a, NEW R, NEW L, NEW E, NEW S, NEW M, NEW F,
         PassRight(p, t, a, R, L, E), Mirrors(S, p.name) => Mirrors(R, p.name),
         p.name \in L => p.name \in M, p.name \in E => p.name \in F
  PROVE  PassRight(p, t, a, S, M, F)
  BY Zenon DEF PassRight

\* A step that works on one capture keeps the invariant if it is right about that one.
LEMMA OneCapture ==
  ASSUME CapturesInv, NEW c \in Captures, NEW t \in CaptureRecord, NEW a \in AgentRecord,
         tc' = [tc EXCEPT ![c] = t], agents' = [agents EXCEPT ![c] = a],
         RulesRight(rules'), Apart(c), CaptureRight(c, t, a, rules', leaked'), PassFits(c, t, a)
  PROVE  CapturesInv'
<1>1. /\ tc \in [Captures -> CaptureRecord] /\ agents \in [Captures -> AgentRecord]
      /\ \A d \in Captures : CaptureRight(d, tc[d], agents[d], rules, leaked)
  BY Zenon DEF CapturesInv
<1>2. /\ tc' \in [Captures -> CaptureRecord] /\ agents' \in [Captures -> AgentRecord]
      /\ tc'[c] = t /\ agents'[c] = a
      /\ \A d \in Captures \ {c} : tc'[d] = tc[d] /\ agents'[d] = agents[d]
  BY <1>1, Zenon
<1>3. ASSUME NEW d \in Captures
      PROVE  CaptureRight(d, tc'[d], agents'[d], rules', leaked')
  <2>1. CASE d = c
    BY <1>2, <2>1, Zenon
  <2>2. CASE d # c
    BY <1>1, <1>2, <2>2, Zenon DEF Apart, CaptureRight
  <2> QED
    BY <2>1, <2>2, Zenon
<1>4. pass' = <<>> \/ \E p \in CapturePass : pass' = <<p>>
  BY Zenon DEF CapturesInv, PassFits
<1>5. ASSUME NEW p \in CapturePass, pass' = <<p>>
      PROVE  PassRight(p, tc'[p.name], agents'[p.name], rules', leaked', elapsed')
  <2>1. CASE p.name = c /\ pass' # pass
    BY <1>2, <1>5, <2>1, OnePass, Zenon DEF PassFits
  <2>2. CASE p.name = c /\ pass' = pass
    BY <1>2, <1>5, <2>2, OnePass, Zenon DEF PassFits
  <2>3. CASE p.name # c
    <3>1. pass = <<p>> /\ p.name \in Captures
      <4>1. p.name \in Captures
        BY Zenon DEF CapturePass
      <4>2. ASSUME NEW q \in CapturePass, pass' = <<q>>
            PROVE  q = p
        BY <1>5, <4>2, OnePass, Zenon
      <4>3. pass' # <<>>
        BY <1>5, OnePass, Zenon
      <4> QED
        BY <1>5, <2>3, <4>1, <4>2, <4>3, Zenon DEF PassFits
    <3>2. PassRight(p, tc[p.name], agents[p.name], rules, leaked, elapsed)
      BY <3>1, Zenon DEF CapturesInv
    <3>3. tc'[p.name] = tc[p.name] /\ agents'[p.name] = agents[p.name]
      BY <1>2, <2>3, <3>1, Zenon
    <3>4. PassRight(p, tc[p.name], agents[p.name], rules', leaked', elapsed')
      <4>1. /\ Mirrors(rules', p.name) => Mirrors(rules, p.name)
            /\ p.name \in leaked => p.name \in leaked'
            /\ p.name \in elapsed => p.name \in elapsed'
        BY <2>3, <3>1, Zenon DEF Apart
      <4> QED
        BY <3>2, <4>1, LessMirrored, Zenon
    <3> QED
      BY <3>3, <3>4, Zenon
  <2> QED
    BY <2>1, <2>2, <2>3, Zenon
<1> QED
  BY <1>2, <1>3, <1>4, <1>5, Zenon DEF CapturesInv

\* Rules that do not change lose no filter.
LEMMA SameRules ==
  ASSUME rules' = rules
  PROVE  FiltersKept
  BY Zenon DEF FiltersKept

\* A function updated with the value that it has.
LEMMA SameValue ==
  ASSUME NEW S, NEW T, NEW f \in [S -> T], NEW c \in S
  PROVE  f = [f EXCEPT ![c] = f[c]]
  BY Zenon

\* The filters of a route under a change of each of its rules.
LEMMA RulesMapped ==
  ASSUME NEW S, NEW q \in Seq(S), NEW op, DOMAIN op = DOMAIN q, \A i \in DOMAIN q : op[i] \in S,
         op = [i \in DOMAIN q |-> op[i]]
  PROVE  op \in Seq(S)
<1>1. DOMAIN q = 1 .. Len(q) /\ Len(q) \in Nat
  OBVIOUS
<1>2. op \in [1 .. Len(q) -> S]
  BY <1>1, Zenon
<1> QED
  BY <1>1, <1>2

\* AddMirrorFilter puts c on the rules of its route, and takes nothing away.
LEMMA FilterAdded ==
  ASSUME RulesRight(rules), NEW c \in Captures, AddMirrorFilter(c)
  PROVE  /\ RulesRight(rules') /\ FiltersKept
         /\ \A d \in Captures \ {c} : Mirrors(rules', d) => Mirrors(rules, d)
<1> DEFINE k == TargetOf[c]
           q == rules[k]
           u == [i \in DOMAIN q |-> q[i] \cup {c}]
           Filters == SUBSET (Captures \cup Foreign)
<1>1. k \in Routes /\ rules \in [Routes -> Seq(Filters)] /\ q \in Seq(Filters)
  BY CapturesAssumption, Zenon DEF RulesRight
<1>2. rules' = [rules EXCEPT ![k] = u]
  BY Zenon DEF AddMirrorFilter
<1>3. DOMAIN u = DOMAIN q /\ \A i \in DOMAIN q : u[i] = q[i] \cup {c}
  BY Zenon
<1>4. \A i \in DOMAIN q : q[i] \in Filters
  BY <1>1
<1>5. u \in Seq(Filters)
  <2>1. \A i \in DOMAIN q : u[i] \in Filters
    BY <1>3, <1>4, Zenon
  <2>2. u = [i \in DOMAIN q |-> u[i]]
    BY <1>3, Zenon
  <2> HIDE DEF u, q
  <2> QED
    BY <1>1, <1>3, <2>1, <2>2, RulesMapped, Zenon
<1> HIDE DEF u
<1>6. /\ rules' \in [Routes -> Seq(Filters)] /\ rules'[k] = u
      /\ \A r \in Routes \ {k} : rules'[r] = rules[r]
  BY <1>1, <1>2, <1>5, Zenon
<1> HIDE DEF k, Filters
<1>7. ASSUME NEW r \in Routes
      PROVE  /\ DOMAIN rules'[r] = DOMAIN rules[r]
             /\ \A i \in DOMAIN rules[r] :
                   /\ \A d \in rules[r][i] : d \in rules'[r][i]
                   /\ \A d \in rules'[r][i] : d \in rules[r][i] \/ (d = c /\ r = k)
  <2>1. CASE r = k
    <3>1. rules[r] = q /\ rules'[r] = u
      BY <1>6, <2>1, Zenon DEF k
    <3> HIDE DEF q
    <3> QED
      BY <1>3, <2>1, <3>1
  <2>2. CASE r # k
    BY <1>6, <2>2, Zenon
  <2> QED
    BY <2>1, <2>2, Zenon
<1>8. RulesRight(rules')
  <2>1. ASSUME NEW r \in Routes, NEW i \in DOMAIN rules'[r], NEW d \in rules'[r][i], d \in Captures
        PROVE  r = TargetOf[d]
    <3>1. i \in DOMAIN rules[r] /\ (d \in rules[r][i] \/ (d = c /\ r = k))
      BY <1>7, <2>1, Zenon
    <3> QED
      BY <2>1, <3>1, Zenon DEF RulesRight, k
  <2> QED
    BY <1>6, <2>1, Zenon DEF RulesRight, Filters
<1>9. FiltersKept
  BY <1>7, Zenon DEF FiltersKept
<1>10. \A d \in Captures \ {c} : Mirrors(rules', d) => Mirrors(rules, d)
  BY <1>7, Zenon DEF Mirrors
<1> QED
  BY <1>8, <1>9, <1>10, Zenon

\* RemoveMirrorFilter takes c off the rules of its route, and nothing else off any rule.
LEMMA FilterRemoved ==
  ASSUME RulesRight(rules), NEW c \in Captures, RemoveMirrorFilter(c)
  PROVE  /\ RulesRight(rules') /\ ~Mirrors(rules', c)
         /\ c \in elapsed \/ tc[c].live = "deleting" => FiltersKept
         /\ \A d \in Captures \ {c} : Mirrors(rules', d) => Mirrors(rules, d)
<1> DEFINE k == TargetOf[c]
           q == rules[k]
           u == [i \in DOMAIN q |-> q[i] \ {c}]
           Filters == SUBSET (Captures \cup Foreign)
<1>1. k \in Routes /\ rules \in [Routes -> Seq(Filters)] /\ q \in Seq(Filters)
  BY CapturesAssumption, Zenon DEF RulesRight
<1>2. rules' = [rules EXCEPT ![k] = u]
  BY Zenon DEF RemoveMirrorFilter
<1>3. DOMAIN u = DOMAIN q /\ \A i \in DOMAIN q : u[i] = q[i] \ {c}
  BY Zenon
<1>4. \A i \in DOMAIN q : q[i] \in Filters
  BY <1>1
<1>5. u \in Seq(Filters)
  <2>1. \A i \in DOMAIN q : u[i] \in Filters
    BY <1>3, <1>4, Zenon
  <2>2. u = [i \in DOMAIN q |-> u[i]]
    BY <1>3, Zenon
  <2> HIDE DEF u, q
  <2> QED
    BY <1>1, <1>3, <2>1, <2>2, RulesMapped, Zenon
<1> HIDE DEF u
<1>6. /\ rules' \in [Routes -> Seq(Filters)] /\ rules'[k] = u
      /\ \A r \in Routes \ {k} : rules'[r] = rules[r]
  BY <1>1, <1>2, <1>5, Zenon
<1> HIDE DEF k, Filters
<1>7. ASSUME NEW r \in Routes
      PROVE  /\ DOMAIN rules'[r] = DOMAIN rules[r]
             /\ \A i \in DOMAIN rules[r] :
                   /\ \A d \in rules'[r][i] : d \in rules[r][i]
                   /\ \A d \in rules[r][i] \ rules'[r][i] : d = c
                   /\ r = k => c \notin rules'[r][i]
  <2>1. CASE r = k
    <3>1. rules[r] = q /\ rules'[r] = u
      BY <1>6, <2>1, Zenon DEF k
    <3> HIDE DEF q
    <3> QED
      BY <1>3, <2>1, <3>1
  <2>2. CASE r # k
    BY <1>6, <2>2, Zenon
  <2> QED
    BY <2>1, <2>2, Zenon
<1>8. RulesRight(rules')
  <2>1. ASSUME NEW r \in Routes, NEW i \in DOMAIN rules'[r], NEW d \in rules'[r][i], d \in Captures
        PROVE  r = TargetOf[d]
    <3>1. i \in DOMAIN rules[r] /\ (d \in rules[r][i] \/ (d = c /\ r = k))
      BY <1>7, <2>1, Zenon
    <3> QED
      BY <2>1, <3>1, Zenon DEF RulesRight, k
  <2> QED
    BY <1>6, <2>1, Zenon DEF RulesRight, Filters
<1>9. ~Mirrors(rules', c)
  BY <1>7, <1>8, Zenon DEF RulesRight, Mirrors, k
<1>10. c \in elapsed \/ tc[c].live = "deleting" => FiltersKept
  BY <1>7, Zenon DEF FiltersKept
<1>11. \A d \in Captures \ {c} : Mirrors(rules', d) => Mirrors(rules, d)
  BY <1>7, Zenon DEF Mirrors
<1> QED
  BY <1>8, <1>9, <1>10, <1>11, Zenon

\* The pass in progress, and the capture that it is about.
LEMMA CapturePassAt ==
  ASSUME CapturesInv, NEW pc, At(pc)
  PROVE  \E p \in CapturePass :
            /\ pass = <<p>> /\ pass[1] = p /\ p.pc = pc /\ Current = p.name
            /\ p.name \in Captures /\ p.tc \in CaptureRecord
            /\ tc[p.name] \in CaptureRecord /\ agents[p.name] \in AgentRecord
            /\ CaptureRight(p.name, tc[p.name], agents[p.name], rules, leaked)
            /\ PassRight(p, tc[p.name], agents[p.name], rules, leaked, elapsed)
<1>1. PICK p \in CapturePass : pass = <<p>>
  BY Zenon DEF CapturesInv, At
<1>2. pass[1] = p
  BY <1>1, OnePass, Zenon
<1>3. p.name \in Captures /\ p.tc \in CaptureRecord
  BY <1>1, Zenon DEF CapturePass
<1>4. tc[p.name] \in CaptureRecord /\ agents[p.name] \in AgentRecord
  BY <1>3, Zenon DEF CapturesInv
<1>5. /\ CaptureRight(p.name, tc[p.name], agents[p.name], rules, leaked)
      /\ PassRight(p, tc[p.name], agents[p.name], rules, leaked, elapsed)
  BY <1>1, <1>3, Zenon DEF CapturesInv
<1> QED
  BY <1>1, <1>2, <1>3, <1>4, <1>5, Zenon DEF At, Current

\* The pass p goes on at pc with t in hand, or ends.
CaptureMoved(p, t, pc) ==
    \/ pass' = <<>> /\ pc = "return"
    \/ \E q \in CapturePass : /\ pass' = <<q>> /\ pc # "return" /\ q.name = p.name
                              /\ q.tc = t /\ q.pc = pc /\ q.stale = p.stale

\* Goto leaves the pass what it is but for where it is.
LEMMA GotoMoves ==
  ASSUME NEW p \in CapturePass, pass[1] = p, NEW pc, pc \in CapturePCs \cup {"return"}, Goto(pc)
  PROVE  CaptureMoved(p, p.tc, pc)
<1> DEFINE q == [p EXCEPT !.pc = pc]
<1>1. pass' = IF pc = "return" THEN <<>> ELSE <<q>>
  BY Zenon DEF Goto
<1>2. pc # "return" => q \in CapturePass /\ q.name = p.name /\ q.tc = p.tc /\ q.pc = pc
                       /\ q.stale = p.stale
  BY Zenon DEF CapturePass
<1> HIDE DEF q
<1> QED
  BY <1>1, <1>2, Zenon DEF CaptureMoved

\* Of a pass that goes on so, over a capture stored as u with agents a, all is right.
MayGo(p, t, pc, u, a) ==
    \A q \in CapturePass : pc # "return" /\ q.name = p.name /\ q.tc = t /\ q.pc = pc
                           /\ q.stale = p.stale => PassRight(q, u, a, rules', leaked', elapsed')

LEMMA MovedFits ==
  ASSUME NEW p \in CapturePass, NEW t, NEW pc, CaptureMoved(p, t, pc), NEW u, NEW a,
         MayGo(p, t, pc, u, a)
  PROVE  PassFits(p.name, u, a)
  BY Zenon DEF CaptureMoved, PassFits, MayGo

\* Write stores t over the version that the pass read, or ends the pass.
LEMMA WriteRight ==
  ASSUME CapturesInv, NEW p \in CapturePass, pass = <<p>>, pass[1] = p,
         NEW t \in CaptureRecord, NEW next \in {"unmirror-deleted", "unmirror", "storage", "return"},
         Write(t, next), UNCHANGED <<agents, rules, leaked>>, Apart(p.name),
         ~p.stale =>
            /\ CaptureRight(p.name, t, agents[p.name], rules, leaked)
            /\ MayGo(p, t, next, t, agents[p.name])
  PROVE  CapturesInv' /\ FiltersKept
<1>1. p.name \in Captures
  BY Zenon DEF CapturePass
<1>2. /\ tc \in [Captures -> CaptureRecord] /\ agents \in [Captures -> AgentRecord]
      /\ RulesRight(rules) /\ CaptureRight(p.name, tc[p.name], agents[p.name], rules, leaked)
  BY <1>1, Zenon DEF CapturesInv
<1>3. tc[p.name] \in CaptureRecord /\ agents[p.name] \in AgentRecord
  BY <1>1, <1>2, Zenon
<1>4. tc = [tc EXCEPT ![p.name] = tc[p.name]] /\ agents = [agents EXCEPT ![p.name] = agents[p.name]]
  BY <1>1, <1>2, SameValue, Zenon
<1>5. CASE p.stale
  <2>1. tc' = tc /\ pass' = <<>>
    BY <1>5, Zenon DEF Write
  <2>2. PassFits(p.name, tc[p.name], agents[p.name])
    BY <2>1, Zenon DEF PassFits
  <2> QED
    BY <1>1, <1>2, <1>3, <1>4, <2>1, <2>2, OneCapture, SameRules, Zenon
<1>6. CASE ~p.stale
  <2> DEFINE q == [p EXCEPT !.tc = t, !.pc = next]
  <2>1. tc' = [tc EXCEPT ![p.name] = t] /\ pass' = IF next = "return" THEN <<>> ELSE <<q>>
    BY <1>6, Zenon DEF Write, Current
  <2>2. next \in CapturePCs \cup {"return"}
    BY Zenon DEF CapturePCs, SetUp, TakeDown
  <2>3. next # "return" => q \in CapturePass /\ q.name = p.name /\ q.tc = t /\ q.pc = next
                           /\ q.stale = p.stale
    BY <2>2, Zenon DEF CapturePass
  <2> HIDE DEF q
  <2>4. CaptureMoved(p, t, next)
    BY <2>1, <2>3, Zenon DEF CaptureMoved
  <2>5. PassFits(p.name, t, agents[p.name])
    BY <1>6, <2>4, MovedFits, Zenon
  <2> QED
    BY <1>1, <1>2, <1>3, <1>4, <1>6, <2>1, <2>5, OneCapture, SameRules, Zenon
<1> QED
  BY <1>5, <1>6, Zenon

\* Nothing but the capture c is touched.
LEMMA NothingElse ==
  ASSUME rules' = rules, leaked' = leaked, NEW c, elapsed \ {c} \subseteq elapsed'
  PROVE  Apart(c)
  BY Zenon DEF Apart

\* A step of the pass p that changes nothing of the TrafficCapture, and goes on at pc.
LEMMA GoesOnRight ==
  ASSUME CapturesInv, NEW p \in CapturePass, pass = <<p>>, pass[1] = p, NEW a \in AgentRecord,
         tc' = tc, agents' = [agents EXCEPT ![p.name] = a], RulesRight(rules'), Apart(p.name),
         CaptureRight(p.name, tc[p.name], a, rules', leaked'),
         NEW pc, pc \in CapturePCs \cup {"return"}, Goto(pc), MayGo(p, p.tc, pc, tc[p.name], a)
  PROVE  CapturesInv'
<1>1. p.name \in Captures /\ tc \in [Captures -> CaptureRecord]
  BY Zenon DEF CapturePass, CapturesInv
<1>2. tc[p.name] \in CaptureRecord /\ tc = [tc EXCEPT ![p.name] = tc[p.name]]
  BY <1>1, SameValue, Zenon
<1>3. PassFits(p.name, tc[p.name], a)
  BY GotoMoves, MovedFits, Zenon
<1> QED
  BY <1>1, <1>2, <1>3, OneCapture, Zenon

\* What a pass over the capture c does first, given that it read t.
StartsAt(c, t, pc) ==
    /\ pc \in {"unmirror-deleted", "finalizer", "unmirror", "storage", "return"}
    /\ pc = "unmirror-deleted" => t.live = "deleting"
    /\ pc = "unmirror" => c \in elapsed
    /\ pc = "storage" => t.finalizer /\ t.phase # "Completed"
    /\ pc = "finalizer" => ~t.finalizer

LEMMA FirstSteps ==
  ASSUME NEW c, NEW t
  PROVE  StartsAt(c, t, FirstStep(c, t))
  BY Zenon DEF StartsAt, FirstStep, captureExpired

LEMMA BeginRight ==
  ASSUME CapturesInv, NEW c \in Captures, ReconcileBegin(c)
  PROVE  CapturesInv' /\ FiltersKept
<1> DEFINE pc == FirstStep(c, tc[c])
           q == [name |-> c, tc |-> tc[c], pc |-> pc, stale |-> FALSE]
<1>1. /\ tc \in [Captures -> CaptureRecord] /\ agents \in [Captures -> AgentRecord]
      /\ RulesRight(rules) /\ CaptureRight(c, tc[c], agents[c], rules, leaked)
  BY Zenon DEF CapturesInv
<1>2. /\ tc[c].live # "absent" /\ pc # "return" /\ pass' = <<q>>
      /\ tc' = tc /\ agents' = agents /\ rules' = rules /\ leaked' = leaked /\ elapsed' = elapsed
  BY Zenon DEF ReconcileBegin
<1>3. tc[c] \in CaptureRecord /\ agents[c] \in AgentRecord
  BY <1>1, Zenon
<1>4. StartsAt(c, tc[c], pc)
  BY FirstSteps, Zenon
<1> HIDE DEF pc
<1>5. /\ pc \in {"unmirror-deleted", "finalizer", "unmirror", "storage"}
      /\ pc = "unmirror-deleted" => tc[c].live = "deleting"
      /\ pc = "unmirror" => c \in elapsed
      /\ pc = "storage" => tc[c].finalizer /\ tc[c].phase # "Completed"
  BY <1>2, <1>4, Zenon DEF StartsAt
<1>6. pc \in CapturePCs
  BY <1>5, Zenon DEF CapturePCs, SetUp
<1>7. q \in CapturePass /\ q.name = c /\ q.tc = tc[c] /\ q.pc = pc /\ ~q.stale
  BY <1>3, <1>6, Zenon DEF CapturePass
<1> HIDE DEF q
<1>8. PassRight(q, tc[c], agents[c], rules, leaked, elapsed)
  BY <1>2, <1>5, <1>7, Zenon DEF PassRight, SetUp, TakeDown
<1>9. PassFits(c, tc[c], agents[c])
  BY <1>2, <1>7, <1>8, Zenon DEF PassFits
<1>10. tc = [tc EXCEPT ![c] = tc[c]] /\ agents = [agents EXCEPT ![c] = agents[c]]
  BY <1>1, SameValue, Zenon
<1>11. Apart(c)
  BY <1>2, NothingElse, Zenon
<1> QED
  BY <1>1, <1>2, <1>3, <1>9, <1>10, <1>11, OneCapture, SameRules, Zenon

LEMMA AddFinalizerRight ==
  ASSUME CapturesInv, AddFinalizer
  PROVE  CapturesInv' /\ FiltersKept
<1>1. PICK p \in CapturePass :
        /\ pass = <<p>> /\ pass[1] = p /\ p.pc = "finalizer" /\ Current = p.name
        /\ p.name \in Captures /\ p.tc \in CaptureRecord
        /\ tc[p.name] \in CaptureRecord /\ agents[p.name] \in AgentRecord
        /\ CaptureRight(p.name, tc[p.name], agents[p.name], rules, leaked)
        /\ PassRight(p, tc[p.name], agents[p.name], rules, leaked, elapsed)
  BY CapturePassAt, Zenon DEF AddFinalizer
<1> DEFINE t == [p.tc EXCEPT !.finalizer = TRUE]
           next == FirstStep(p.name, t)
<1>2. /\ Write(t, next)
      /\ agents' = agents /\ rules' = rules /\ leaked' = leaked /\ elapsed' = elapsed
  BY <1>1, Zenon DEF AddFinalizer
<1>3. /\ t \in CaptureRecord /\ t.finalizer /\ t.live = p.tc.live /\ t.gen = p.tc.gen
      /\ t.phase = p.tc.phase
  BY <1>1, Zenon DEF CaptureRecord
<1>4. StartsAt(p.name, t, next)
  BY FirstSteps, Zenon
<1> HIDE DEF t, next
<1>5. /\ next \in {"unmirror-deleted", "unmirror", "storage", "return"}
      /\ next = "unmirror-deleted" => t.live = "deleting"
      /\ next = "unmirror" => p.name \in elapsed
      /\ next = "storage" => t.phase # "Completed"
  BY <1>3, <1>4, Zenon DEF StartsAt
<1>6. ~p.stale => p.tc = tc[p.name] /\ tc[p.name].live # "absent"
  BY <1>1, Zenon DEF PassRight
<1>7. ~p.stale => CaptureRight(p.name, t, agents[p.name], rules, leaked)
  BY <1>1, <1>3, <1>6, Zenon DEF CaptureRight
<1>8. ~p.stale => MayGo(p, t, next, t, agents[p.name])
  <2> SUFFICES ASSUME ~p.stale, NEW q \in CapturePass, next # "return", q.tc = t, q.pc = next,
                      q.name = p.name
               PROVE  PassRight(q, t, agents[p.name], rules', leaked', elapsed')
    BY Zenon DEF MayGo
  <2> QED
    BY <1>2, <1>3, <1>5, <1>6, Zenon DEF PassRight, SetUp, TakeDown
<1>9. Apart(p.name)
  BY <1>2, NothingElse, Zenon
<1> QED
  BY <1>1, <1>2, <1>3, <1>5, <1>7, <1>8, <1>9, WriteRight, Zenon

\* A write of a TrafficCapture that only says how far the capture is, other than Completed.
LEMMA PhaseRight ==
  ASSUME CapturesInv, NEW p \in CapturePass, pass = <<p>>, pass[1] = p, p.tc \in CaptureRecord,
         CaptureRight(p.name, tc[p.name], agents[p.name], rules, leaked),
         PassRight(p, tc[p.name], agents[p.name], rules, leaked, elapsed),
         NEW t \in CaptureRecord, t.live = p.tc.live, t.gen = p.tc.gen, t.finalizer = p.tc.finalizer,
         t.phase # "Completed", Write(t, "return"),
         UNCHANGED <<agents, rules, leaked, elapsed>>
  PROVE  CapturesInv' /\ FiltersKept
<1>1. ~p.stale => p.tc = tc[p.name]
  BY Zenon DEF PassRight
<1>2. ~p.stale => CaptureRight(p.name, t, agents[p.name], rules, leaked)
  BY <1>1, Zenon DEF CaptureRight
<1>3. MayGo(p, t, "return", t, agents[p.name])
  BY Zenon DEF MayGo
<1>4. Apart(p.name)
  BY NothingElse, Zenon
<1>5. "return" \in {"unmirror-deleted", "unmirror", "storage", "return"}
  BY Zenon
<1> QED
  BY <1>2, <1>3, <1>4, <1>5, WriteRight, Zenon

LEMMA GetStorageRight ==
  ASSUME CapturesInv, GetStorage
  PROVE  CapturesInv' /\ FiltersKept
<1>1. PICK p \in CapturePass :
        /\ pass = <<p>> /\ pass[1] = p /\ p.pc = "storage" /\ Current = p.name
        /\ p.name \in Captures /\ p.tc \in CaptureRecord
        /\ tc[p.name] \in CaptureRecord /\ agents[p.name] \in AgentRecord
        /\ CaptureRight(p.name, tc[p.name], agents[p.name], rules, leaked)
        /\ PassRight(p, tc[p.name], agents[p.name], rules, leaked, elapsed)
  BY CapturePassAt, Zenon DEF GetStorage
<1>2. agents' = agents /\ rules' = rules /\ leaked' = leaked /\ elapsed' = elapsed
  BY Zenon DEF GetStorage
<1>3. CASE Goto("deployment") /\ tc' = tc
  <2>1. Goto("deployment") /\ tc' = tc
    BY <1>3, Zenon
  <2>2. "deployment" \in CapturePCs \cup {"return"}
    BY Zenon DEF CapturePCs, SetUp
  <2>3. MayGo(p, p.tc, "deployment", tc[p.name], agents[p.name])
    <3> SUFFICES ASSUME NEW q \in CapturePass, q.name = p.name, q.tc = p.tc, q.pc = "deployment",
                        q.stale = p.stale
                 PROVE  PassRight(q, tc[p.name], agents[p.name], rules, leaked, elapsed)
      BY <1>2, Zenon DEF MayGo
    <3> QED
      BY <1>1, Zenon DEF PassRight, SetUp, TakeDown
  <2>4. agents = [agents EXCEPT ![p.name] = agents[p.name]] /\ RulesRight(rules)
    BY <1>1, SameValue, Zenon DEF CapturesInv
  <2>5. Apart(p.name)
    BY <1>2, NothingElse, Zenon
  <2> QED
    BY <1>1, <1>2, <2>1, <2>2, <2>3, <2>4, <2>5, GoesOnRight, SameRules, Zenon
<1>4. ASSUME NEW phase \in {"Pending", "Failed"}, Write([p.tc EXCEPT !.phase = phase], "return")
      PROVE  CapturesInv' /\ FiltersKept
  <2> DEFINE t == [p.tc EXCEPT !.phase = phase]
  <2>2. phase \in {"New", "Pending", "Active", "Completed", "Failed"} /\ phase # "Completed"
    BY Zenon
  <2>3. /\ t \in CaptureRecord /\ t.live = p.tc.live /\ t.gen = p.tc.gen
        /\ t.finalizer = p.tc.finalizer /\ t.phase = phase
    BY <1>1, <2>2, Zenon DEF CaptureRecord
  <2>4. Write(t, "return")
    BY <1>4, Zenon
  <2> HIDE DEF t
  <2> QED
    BY <1>1, <1>2, <2>2, <2>3, <2>4, PhaseRight, Zenon
<1>5. \/ Goto("deployment") /\ tc' = tc
      \/ \E phase \in {"Pending", "Failed"} : Write([p.tc EXCEPT !.phase = phase], "return")
  BY <1>1, Zenon DEF GetStorage
<1> QED
  BY <1>3, <1>4, <1>5, Zenon

LEMMA UpdateStatusRight ==
  ASSUME CapturesInv, updateStatus
  PROVE  CapturesInv' /\ FiltersKept
<1>1. PICK p \in CapturePass :
        /\ pass = <<p>> /\ pass[1] = p /\ p.pc = "status" /\ Current = p.name
        /\ p.name \in Captures /\ p.tc \in CaptureRecord
        /\ tc[p.name] \in CaptureRecord /\ agents[p.name] \in AgentRecord
        /\ CaptureRight(p.name, tc[p.name], agents[p.name], rules, leaked)
        /\ PassRight(p, tc[p.name], agents[p.name], rules, leaked, elapsed)
  BY CapturePassAt, Zenon DEF updateStatus
<1>2. agents' = agents /\ rules' = rules /\ leaked' = leaked /\ elapsed' = elapsed
  BY Zenon DEF updateStatus
<1>3. CASE Goto("return") /\ tc' = tc
  <2>1. MayGo(p, p.tc, "return", tc[p.name], agents[p.name])
    BY Zenon DEF MayGo
  <2>2. agents = [agents EXCEPT ![p.name] = agents[p.name]] /\ RulesRight(rules)
    BY <1>1, SameValue, Zenon DEF CapturesInv
  <2>3. Apart(p.name)
    BY <1>2, NothingElse, Zenon
  <2> QED
    BY <1>1, <1>2, <1>3, <2>1, <2>2, <2>3, GoesOnRight, SameRules, Zenon
<1>4. ASSUME NEW ready \in BOOLEAN, NEW phase \in {"Active", "Pending"},
             Write([p.tc EXCEPT !.phase = phase, !.started = @ \/ ready], "return")
      PROVE  CapturesInv' /\ FiltersKept
  <2> DEFINE t == [p.tc EXCEPT !.phase = phase, !.started = @ \/ ready]
  <2>1. phase \in {"New", "Pending", "Active", "Completed", "Failed"} /\ phase # "Completed"
    BY <1>4, Zenon
  <2>2. p.tc.started \/ ready \in BOOLEAN
    BY Zenon
  <2>3. /\ t \in CaptureRecord /\ t.live = p.tc.live /\ t.gen = p.tc.gen
        /\ t.finalizer = p.tc.finalizer /\ t.phase = phase
    BY <1>1, <2>1, <2>2, Zenon DEF CaptureRecord
  <2>4. Write(t, "return")
    BY <1>4, Zenon
  <2> HIDE DEF t
  <2> QED
    BY <1>1, <1>2, <2>1, <2>3, <2>4, PhaseRight, Zenon
<1>5. agents[p.name].ready \in BOOLEAN
  BY <1>1, Zenon DEF AgentRecord
<1> QED
  BY <1>1, <1>3, <1>4, <1>5, Zenon DEF updateStatus

LEMMA CompleteRight ==
  ASSUME CapturesInv, Complete
  PROVE  CapturesInv' /\ FiltersKept
<1>1. PICK p \in CapturePass :
        /\ pass = <<p>> /\ pass[1] = p /\ p.pc = "complete" /\ Current = p.name
        /\ p.name \in Captures /\ p.tc \in CaptureRecord
        /\ tc[p.name] \in CaptureRecord /\ agents[p.name] \in AgentRecord
        /\ CaptureRight(p.name, tc[p.name], agents[p.name], rules, leaked)
        /\ PassRight(p, tc[p.name], agents[p.name], rules, leaked, elapsed)
  BY CapturePassAt, Zenon DEF Complete
<1> DEFINE t == [p.tc EXCEPT !.phase = "Completed"]
<1>2. /\ Write(t, "return")
      /\ agents' = agents /\ rules' = rules /\ leaked' = leaked /\ elapsed' = elapsed
  BY <1>1, Zenon DEF Complete
<1>3. /\ t \in CaptureRecord /\ t.live = p.tc.live /\ t.gen = p.tc.gen
      /\ t.finalizer = p.tc.finalizer
  BY <1>1, Zenon DEF CaptureRecord
<1> HIDE DEF t
<1>4. /\ ~Mirrors(rules, p.name) /\ \A kind \in Kinds : agents[p.name].owner[kind] = 0
      /\ ~p.stale => p.tc = tc[p.name]
  BY <1>1, Zenon DEF PassRight, TakeDown, Kinds
<1>5. ~p.stale => CaptureRight(p.name, t, agents[p.name], rules, leaked)
  BY <1>1, <1>3, <1>4, Zenon DEF CaptureRight
<1>6. MayGo(p, t, "return", t, agents[p.name])
  BY Zenon DEF MayGo
<1>7. Apart(p.name)
  BY <1>2, NothingElse, Zenon
<1>8. "return" \in {"unmirror-deleted", "unmirror", "storage", "return"}
  BY Zenon
<1> QED
  BY <1>1, <1>2, <1>3, <1>5, <1>6, <1>7, <1>8, WriteRight, Zenon

LEMMA ReleaseRight ==
  ASSUME CapturesInv, Release
  PROVE  CapturesInv' /\ FiltersKept
<1>1. PICK p \in CapturePass :
        /\ pass = <<p>> /\ pass[1] = p /\ p.pc = "release" /\ Current = p.name
        /\ p.name \in Captures /\ p.tc \in CaptureRecord
        /\ tc[p.name] \in CaptureRecord /\ agents[p.name] \in AgentRecord
        /\ CaptureRight(p.name, tc[p.name], agents[p.name], rules, leaked)
        /\ PassRight(p, tc[p.name], agents[p.name], rules, leaked, elapsed)
  BY CapturePassAt, Zenon DEF Release
<1> DEFINE t == NoCapture(tc[p.name].gen)
<1>2. /\ Write(t, "return") /\ agents' = agents /\ rules' = rules /\ leaked' = leaked
      /\ elapsed' = IF p.stale THEN elapsed ELSE elapsed \ {p.name}
  BY <1>1, Zenon DEF Release
<1>3. tc[p.name].gen \in Nat
  BY <1>1, Zenon DEF CaptureRecord
<1>4. t \in CaptureRecord /\ t.live = "absent" /\ t.phase = "New"
  BY <1>3, Zenon DEF NoCapture, CaptureRecord
<1> HIDE DEF t
<1>5. CaptureRight(p.name, t, agents[p.name], rules, leaked)
  BY <1>1, <1>4, Zenon DEF CaptureRight, PassRight
<1>6. MayGo(p, t, "return", t, agents[p.name])
  BY Zenon DEF MayGo
<1>7. Apart(p.name)
  BY <1>2, NothingElse, Zenon
<1>8. "return" \in {"unmirror-deleted", "unmirror", "storage", "return"}
  BY Zenon
<1> QED
  BY <1>1, <1>2, <1>4, <1>5, <1>6, <1>7, <1>8, WriteRight, Zenon

\* The agents b are the agents a, but for who owns the object of one kind.
Reowned(a, b, kind, g) ==
    b \in AgentRecord /\ \A k \in Kinds : b.owner[k] = IF k = kind THEN g ELSE a.owner[k]

LEMMA OwnerGiven ==
  ASSUME NEW a \in AgentRecord, NEW kind \in Kinds, NEW g \in Nat
  PROVE  Reowned(a, [a EXCEPT !.owner[kind] = g], kind, g)
  BY Zenon DEF AgentRecord, Reowned

LEMMA AgentDropped ==
  ASSUME NEW a \in AgentRecord, NEW kind \in Kinds
  PROVE  Reowned(a, Dropped(kind, a), kind, 0)
<1>1. 0 \in Nat /\ (a.ready /\ kind # "deployment") \in BOOLEAN
  BY Zenon
<1> QED
  BY <1>1, Zenon DEF AgentRecord, Reowned, Dropped

\* createOrUpdate gives an object to the TrafficCapture that the pass works for.
LEMMA ProvisionRight ==
  ASSUME CapturesInv, NEW kind \in Kinds, NEW next,
         \/ kind = "deployment" /\ next = "service"
         \/ kind = "service" /\ next = "hpa"
         \/ kind = "hpa" /\ next = "mirror",
         Provision(kind, next)
  PROVE  CapturesInv' /\ FiltersKept
<1>1. PICK p \in CapturePass :
        /\ pass = <<p>> /\ pass[1] = p /\ p.pc = kind /\ Current = p.name
        /\ p.name \in Captures /\ p.tc \in CaptureRecord
        /\ tc[p.name] \in CaptureRecord /\ agents[p.name] \in AgentRecord
        /\ CaptureRight(p.name, tc[p.name], agents[p.name], rules, leaked)
        /\ PassRight(p, tc[p.name], agents[p.name], rules, leaked, elapsed)
  BY CapturePassAt, Zenon DEF Provision
<1> DEFINE a == [agents[p.name] EXCEPT !.owner[kind] = p.tc.gen]
<1>2. /\ agents' = [agents EXCEPT ![p.name] = a] /\ Goto(next) /\ tc' = tc
      /\ rules' = rules /\ leaked' = leaked /\ elapsed' = elapsed
  BY <1>1, Zenon DEF Provision, createOrUpdate
<1>3. p.tc.gen \in Nat
  BY <1>1, Zenon DEF CaptureRecord
<1>4. /\ a \in AgentRecord
      /\ \A k \in Kinds : a.owner[k] = IF k = kind THEN p.tc.gen ELSE agents[p.name].owner[k]
  <2>1. Reowned(agents[p.name], a, kind, p.tc.gen)
    BY <1>1, <1>3, OwnerGiven, Zenon
  <2> QED
    BY <2>1, Zenon DEF Reowned
<1> HIDE DEF a
<1>5. /\ tc[p.name].live # "absent" /\ tc[p.name].finalizer /\ tc[p.name].phase # "Completed"
      /\ p.tc.gen = tc[p.name].gen
  BY <1>1, Zenon DEF PassRight, SetUp
<1>6. "service" \in Kinds
  BY Zenon DEF Kinds
<1>7. CaptureRight(p.name, tc[p.name], a, rules, leaked)
  BY <1>1, <1>4, <1>5, <1>6, Zenon DEF CaptureRight
<1>8. MayGo(p, p.tc, next, tc[p.name], a)
  <2> SUFFICES ASSUME NEW q \in CapturePass, q.name = p.name, q.tc = p.tc, q.pc = next,
                      q.stale = p.stale
               PROVE  PassRight(q, tc[p.name], a, rules, leaked, elapsed)
    BY <1>2, Zenon DEF MayGo
  <2>1. next = "hpa" => a.owner["service"] = tc[p.name].gen
    BY <1>4, <1>5, <1>6, Zenon
  <2>2. next = "mirror" => a.owner["service"] = tc[p.name].gen
    <3>1. next = "mirror" => agents[p.name].owner["service"] = tc[p.name].gen
      BY <1>1, Zenon DEF PassRight
    <3> QED
      BY <1>4, <1>5, <1>6, <3>1, Zenon
  <2>3. ~q.stale => p.tc = tc[p.name]
    BY <1>1, Zenon DEF PassRight
  <2> QED
    BY <1>5, <2>1, <2>2, <2>3, Zenon DEF PassRight, SetUp, TakeDown
<1>9. next \in CapturePCs \cup {"return"}
  BY Zenon DEF CapturePCs, SetUp
<1>10. Apart(p.name) /\ RulesRight(rules)
  BY <1>2, NothingElse, Zenon DEF CapturesInv
<1> QED
  BY <1>1, <1>2, <1>4, <1>7, <1>8, <1>9, <1>10, GoesOnRight, SameRules, Zenon

\* Less is owned, and what is still mirrored keeps its Service.
LEMMA DropRight ==
  ASSUME CapturesInv, NEW pc, NEW kind \in Kinds, NEW next,
         \/ pc = "drop-hpa" /\ kind = "hpa" /\ next = "drop-deployment"
         \/ pc = "drop-deployment" /\ kind = "deployment" /\ next = "drop-service"
         \/ pc = "drop-service" /\ kind = "service" /\ next = "complete",
         DropAgent(pc, kind, next)
  PROVE  CapturesInv' /\ FiltersKept
<1>1. PICK p \in CapturePass :
        /\ pass = <<p>> /\ pass[1] = p /\ p.pc = pc /\ Current = p.name
        /\ p.name \in Captures /\ p.tc \in CaptureRecord
        /\ tc[p.name] \in CaptureRecord /\ agents[p.name] \in AgentRecord
        /\ CaptureRight(p.name, tc[p.name], agents[p.name], rules, leaked)
        /\ PassRight(p, tc[p.name], agents[p.name], rules, leaked, elapsed)
  BY CapturePassAt, Zenon DEF DropAgent
<1> DEFINE a == Dropped(kind, agents[p.name])
<1>2. /\ agents' = [agents EXCEPT ![p.name] = a] /\ Goto(next) /\ tc' = tc
      /\ rules' = rules /\ leaked' = leaked /\ elapsed' = elapsed
  BY <1>1, Zenon DEF DropAgent
<1>3. /\ a \in AgentRecord
      /\ \A k \in Kinds : a.owner[k] = IF k = kind THEN 0 ELSE agents[p.name].owner[k]
  <2>1. Reowned(agents[p.name], a, kind, 0)
    BY <1>1, AgentDropped, Zenon
  <2> HIDE DEF a
  <2> QED
    BY <2>1, Zenon DEF Reowned
<1> HIDE DEF a
<1>4. ~Mirrors(rules, p.name)
  BY <1>1, Zenon DEF PassRight, TakeDown
<1>5. CaptureRight(p.name, tc[p.name], a, rules, leaked)
  BY <1>1, <1>3, <1>4, Zenon DEF CaptureRight
<1>6. MayGo(p, p.tc, next, tc[p.name], a)
  <2> SUFFICES ASSUME NEW q \in CapturePass, q.name = p.name, q.tc = p.tc, q.pc = next,
                      q.stale = p.stale
               PROVE  PassRight(q, tc[p.name], a, rules, leaked, elapsed)
    BY <1>2, Zenon DEF MayGo
  <2>1. {"hpa", "deployment", "service"} \subseteq Kinds
    BY Zenon DEF Kinds
  <2>2. ~q.stale => p.tc = tc[p.name] /\ tc[p.name].live # "absent"
    BY <1>1, Zenon DEF PassRight
  <2>3. /\ a.owner["hpa"] = 0
        /\ next \in {"drop-service", "complete"} => a.owner["deployment"] = 0
        /\ next = "complete" => a.owner["service"] = 0
    BY <1>1, <1>3, <2>1, Zenon DEF PassRight
  <2> QED
    BY <1>4, <2>2, <2>3, Zenon DEF PassRight, SetUp, TakeDown
<1>7. next \in CapturePCs \cup {"return"}
  BY Zenon DEF CapturePCs, TakeDown
<1>8. Apart(p.name) /\ RulesRight(rules)
  BY <1>2, NothingElse, Zenon DEF CapturesInv
<1> QED
  BY <1>1, <1>2, <1>3, <1>5, <1>6, <1>7, <1>8, GoesOnRight, SameRules, Zenon

LEMMA EnsureMirrorRight ==
  ASSUME CapturesInv, EnsureMirror
  PROVE  CapturesInv' /\ FiltersKept
<1>1. PICK p \in CapturePass :
        /\ pass = <<p>> /\ pass[1] = p /\ p.pc = "mirror" /\ Current = p.name
        /\ p.name \in Captures /\ p.tc \in CaptureRecord
        /\ tc[p.name] \in CaptureRecord /\ agents[p.name] \in AgentRecord
        /\ CaptureRight(p.name, tc[p.name], agents[p.name], rules, leaked)
        /\ PassRight(p, tc[p.name], agents[p.name], rules, leaked, elapsed)
  BY CapturePassAt, Zenon DEF EnsureMirror
<1>2. PICK next \in {"return", "status"} : Goto(next)
  BY Zenon DEF EnsureMirror
<1>3. /\ AddMirrorFilter(p.name)
      /\ tc' = tc /\ agents' = agents /\ leaked' = leaked /\ elapsed' = elapsed
  BY <1>1, Zenon DEF EnsureMirror
<1>4. /\ RulesRight(rules') /\ FiltersKept
      /\ \A d \in Captures \ {p.name} : Mirrors(rules', d) => Mirrors(rules, d)
  BY <1>1, <1>3, FilterAdded, Zenon DEF CapturesInv
<1>5. Apart(p.name)
  BY <1>3, <1>4, Zenon DEF Apart
<1>6. /\ tc[p.name].live # "absent" /\ tc[p.name].finalizer /\ tc[p.name].phase # "Completed"
      /\ agents[p.name].owner["service"] = tc[p.name].gen /\ p.tc.gen = tc[p.name].gen
      /\ ~p.stale => p.tc = tc[p.name]
  BY <1>1, Zenon DEF PassRight, SetUp
<1>7. CaptureRight(p.name, tc[p.name], agents[p.name], rules', leaked')
  BY <1>1, <1>6, Zenon DEF CaptureRight
<1>8. MayGo(p, p.tc, next, tc[p.name], agents[p.name])
  <2> SUFFICES ASSUME NEW q \in CapturePass, next # "return", q.name = p.name, q.tc = p.tc,
                      q.pc = next, q.stale = p.stale
               PROVE  PassRight(q, tc[p.name], agents[p.name], rules', leaked', elapsed')
    BY Zenon DEF MayGo
  <2> QED
    BY <1>2, <1>6, Zenon DEF PassRight, SetUp, TakeDown
<1>9. next \in CapturePCs \cup {"return"}
  BY Zenon DEF CapturePCs, SetUp
<1>10. agents = [agents EXCEPT ![p.name] = agents[p.name]]
  BY <1>1, SameValue, Zenon DEF CapturesInv
<1> QED
  BY <1>1, <1>2, <1>3, <1>4, <1>5, <1>7, <1>8, <1>9, <1>10, GoesOnRight, Zenon

\* A pass takes its filter off, at the end of the capture or because of its deletion.
LEMMA FilterGone ==
  ASSUME CapturesInv, NEW p \in CapturePass, pass = <<p>>, pass[1] = p,
         NEW next \in {"drop-hpa", "release"},
         p.name \in Captures, agents[p.name] \in AgentRecord,
         CaptureRight(p.name, tc[p.name], agents[p.name], rules, leaked),
         PassRight(p, tc[p.name], agents[p.name], rules, leaked, elapsed),
         p.name \in elapsed \/ tc[p.name].live = "deleting",
         RemoveMirrorFilter(p.name), leaked' = leaked \ {p.name}, Goto(next),
         UNCHANGED <<tc, agents, elapsed>>
  PROVE  CapturesInv' /\ FiltersKept
<1>1. /\ RulesRight(rules') /\ ~Mirrors(rules', p.name) /\ FiltersKept
      /\ \A d \in Captures \ {p.name} : Mirrors(rules', d) => Mirrors(rules, d)
  BY FilterRemoved, Zenon DEF CapturesInv
<1>2. Apart(p.name)
  BY <1>1, Zenon DEF Apart
<1>3. CaptureRight(p.name, tc[p.name], agents[p.name], rules', leaked')
  BY <1>1, Zenon DEF CaptureRight
<1>4. MayGo(p, p.tc, next, tc[p.name], agents[p.name])
  <2> SUFFICES ASSUME NEW q \in CapturePass, q.name = p.name, q.tc = p.tc, q.pc = next,
                      q.stale = p.stale
               PROVE  PassRight(q, tc[p.name], agents[p.name], rules', leaked', elapsed')
    BY Zenon DEF MayGo
  <2>1. ~q.stale => p.tc = tc[p.name] /\ tc[p.name].live # "absent"
    BY Zenon DEF PassRight
  <2> QED
    BY <1>1, <2>1, Zenon DEF PassRight, SetUp, TakeDown
<1>5. next \in CapturePCs \cup {"return"}
  BY Zenon DEF CapturePCs, TakeDown
<1>6. agents = [agents EXCEPT ![p.name] = agents[p.name]]
  BY SameValue, Zenon DEF CapturesInv
<1> QED
  BY <1>1, <1>2, <1>3, <1>4, <1>5, <1>6, GoesOnRight, Zenon

LEMMA UnmirrorRight ==
  ASSUME CapturesInv, Unmirror
  PROVE  CapturesInv' /\ FiltersKept
<1>1. PICK p \in CapturePass :
        /\ pass = <<p>> /\ pass[1] = p /\ p.pc = "unmirror" /\ Current = p.name
        /\ p.name \in Captures /\ p.tc \in CaptureRecord
        /\ tc[p.name] \in CaptureRecord /\ agents[p.name] \in AgentRecord
        /\ CaptureRight(p.name, tc[p.name], agents[p.name], rules, leaked)
        /\ PassRight(p, tc[p.name], agents[p.name], rules, leaked, elapsed)
  BY CapturePassAt, Zenon DEF Unmirror
<1>2. /\ RemoveMirrorFilter(p.name) /\ leaked' = leaked \ {p.name} /\ Goto("drop-hpa")
      /\ UNCHANGED <<tc, agents, elapsed>>
  BY <1>1, Zenon DEF Unmirror
<1>3. p.name \in elapsed /\ "drop-hpa" \in {"drop-hpa", "release"}
  BY <1>1, Zenon DEF PassRight
<1> QED
  BY <1>1, <1>2, <1>3, FilterGone, Zenon

LEMMA UnmirrorDeletedRight ==
  ASSUME CapturesInv, UnmirrorDeleted
  PROVE  CapturesInv' /\ FiltersKept
<1>1. PICK p \in CapturePass :
        /\ pass = <<p>> /\ pass[1] = p /\ p.pc = "unmirror-deleted" /\ Current = p.name
        /\ p.name \in Captures /\ p.tc \in CaptureRecord
        /\ tc[p.name] \in CaptureRecord /\ agents[p.name] \in AgentRecord
        /\ CaptureRight(p.name, tc[p.name], agents[p.name], rules, leaked)
        /\ PassRight(p, tc[p.name], agents[p.name], rules, leaked, elapsed)
  BY CapturePassAt, Zenon DEF UnmirrorDeleted
<1>2. Goto("release") /\ tc' = tc /\ agents' = agents /\ elapsed' = elapsed
  BY Zenon DEF UnmirrorDeleted
<1>3. tc[p.name].live = "deleting" /\ "release" \in {"drop-hpa", "release"}
  BY <1>1, Zenon DEF PassRight
<1>4. CASE RemoveMirrorFilter(p.name) /\ leaked' = leaked \ {p.name}
  BY <1>1, <1>2, <1>3, <1>4, FilterGone, Zenon
<1>5. CASE rules' = rules /\ leaked' = leaked \cup {p.name}
  <2>1. Apart(p.name) /\ RulesRight(rules)
    BY <1>2, <1>5, Zenon DEF Apart, CapturesInv
  <2>2. CaptureRight(p.name, tc[p.name], agents[p.name], rules', leaked')
    BY <1>1, <1>5, Zenon DEF CaptureRight
  <2>3. MayGo(p, p.tc, "release", tc[p.name], agents[p.name])
    <3> SUFFICES ASSUME NEW q \in CapturePass, q.name = p.name, q.tc = p.tc, q.pc = "release",
                        q.stale = p.stale
                 PROVE  PassRight(q, tc[p.name], agents[p.name], rules', leaked', elapsed')
      BY Zenon DEF MayGo
    <3>1. ~q.stale => p.tc = tc[p.name] /\ tc[p.name].live # "absent"
      BY <1>1, Zenon DEF PassRight
    <3> QED
      BY <1>5, <3>1, Zenon DEF PassRight, SetUp, TakeDown
  <2>4. "release" \in CapturePCs \cup {"return"}
    BY Zenon DEF CapturePCs
  <2>5. agents = [agents EXCEPT ![p.name] = agents[p.name]]
    BY <1>1, SameValue, Zenon DEF CapturesInv
  <2> QED
    BY <1>1, <1>2, <1>5, <2>1, <2>2, <2>3, <2>4, <2>5, GoesOnRight, SameRules, Zenon
<1> QED
  BY <1>1, <1>4, <1>5, Zenon DEF UnmirrorDeleted

\* A step that changes nothing but that less is mirrored, time passes, or the pass ends.
LEMMA NothingTouched ==
  ASSUME CapturesInv, tc' = tc, agents' = agents, leaked' = leaked, pass' = pass \/ pass' = <<>>,
         RulesRight(rules'), \A c \in Captures : Mirrors(rules', c) => Mirrors(rules, c),
         \A c \in elapsed : c \in elapsed'
  PROVE  CapturesInv'
<1>1. ASSUME NEW c \in Captures
      PROVE  CaptureRight(c, tc[c], agents[c], rules', leaked')
  BY <1>1, Zenon DEF CapturesInv, CaptureRight
<1>2. ASSUME NEW p \in CapturePass, pass' = <<p>>
      PROVE  PassRight(p, tc[p.name], agents[p.name], rules', leaked', elapsed')
  <2>1. pass = <<p>> /\ p.name \in Captures
    BY <1>2, OnePass, Zenon DEF CapturePass
  <2>2. PassRight(p, tc[p.name], agents[p.name], rules, leaked, elapsed)
    BY <2>1, Zenon DEF CapturesInv
  <2> QED
    BY <2>1, <2>2, LessMirrored, Zenon
<1>3. pass' = <<>> \/ \E p \in CapturePass : pass' = <<p>>
  BY Zenon DEF CapturesInv
<1> QED
  BY <1>1, <1>2, <1>3, Zenon DEF CapturesInv

LEMMA UntouchedRight ==
  ASSUME CapturesInv,
         PassFails \/ ReconcileStorage \/ EditStorage \/ (\E c \in Captures : Elapse(c))
            \/ UNCHANGED captureVars
  PROVE  CapturesInv' /\ FiltersKept
<1>1. /\ tc' = tc /\ agents' = agents /\ leaked' = leaked /\ rules' = rules
      /\ pass' = pass \/ pass' = <<>>
      /\ \A c \in elapsed : c \in elapsed'
  BY Zenon DEF PassFails, ReconcileStorage, EditStorage, Elapse, captureVars
<1> QED
  BY <1>1, NothingTouched, SameRules, Zenon DEF CapturesInv

\* Rules come without filters, and go with the route.
LEMMA RouteRight ==
  ASSUME CapturesInv, NEW r \in Routes, AddRule(r) \/ DeleteRoute(r)
  PROVE  CapturesInv' /\ FiltersKept
<1> DEFINE Filters == SUBSET (Captures \cup Foreign)
<1>1. rules \in [Routes -> Seq(Filters)] /\ rules[r] \in Seq(Filters)
  BY Zenon DEF CapturesInv, RulesRight
<1>2. tc' = tc /\ agents' = agents /\ leaked' = leaked /\ pass' = pass /\ elapsed' = elapsed
  BY Zenon DEF AddRule, DeleteRoute
<1>3. PICK u \in Seq(Filters) :
        /\ rules' = [rules EXCEPT ![r] = u]
        /\ \A i \in DOMAIN u : u[i] = {} \/ (i \in DOMAIN rules[r] /\ u[i] = rules[r][i])
        /\ \A i \in DOMAIN u : i \in DOMAIN rules[r] => u[i] = rules[r][i]
  <2>1. CASE AddRule(r)
    <3>1. rules' = [rules EXCEPT ![r] = Append(rules[r], {})]
      BY <2>1, Zenon DEF AddRule
    <3>2. ASSUME NEW q \in Seq(Filters)
          PROVE  /\ Append(q, {}) \in Seq(Filters)
                 /\ \A i \in DOMAIN Append(q, {}) :
                       /\ i \in DOMAIN q => Append(q, {})[i] = q[i]
                       /\ i \notin DOMAIN q => Append(q, {})[i] = {}
      <4>1. {} \in Filters /\ Len(q) \in Nat
        OBVIOUS
      <4> HIDE DEF Filters
      <4> QED
        BY <3>2, <4>1
    <3> DEFINE u == Append(rules[r], {})
    <3> HIDE DEF Filters
    <3>3. /\ u \in Seq(Filters)
          /\ \A i \in DOMAIN u : /\ i \in DOMAIN rules[r] => u[i] = rules[r][i]
                                 /\ i \notin DOMAIN rules[r] => u[i] = {}
      BY <1>1, <3>2, Zenon
    <3>4. rules' = [rules EXCEPT ![r] = u]
      BY <3>1, Zenon
    <3> HIDE DEF u
    <3> QED
      BY <3>3, <3>4, Zenon
  <2>2. CASE DeleteRoute(r)
    <3>1. rules' = [rules EXCEPT ![r] = <<>>]
      BY <2>2, Zenon DEF DeleteRoute
    <3>2. <<>> \in Seq(Filters) /\ DOMAIN <<>> = {}
      OBVIOUS
    <3> HIDE DEF Filters
    <3> QED
      BY <3>1, <3>2, Zenon
  <2> QED
    BY <2>1, <2>2, Zenon
<1> HIDE DEF Filters
<1>4. /\ rules' \in [Routes -> Seq(Filters)] /\ rules'[r] = u
      /\ \A k \in Routes \ {r} : rules'[k] = rules[k]
  BY <1>1, <1>3, Zenon
<1>5. \A k \in Routes : \A i \in DOMAIN rules'[k] :
          /\ \A d \in rules'[k][i] : i \in DOMAIN rules[k] /\ d \in rules[k][i]
          /\ i \in DOMAIN rules[k] => rules'[k][i] = rules[k][i]
  <2> SUFFICES ASSUME NEW k \in Routes, NEW i \in DOMAIN rules'[k]
               PROVE  /\ \A d \in rules'[k][i] : i \in DOMAIN rules[k] /\ d \in rules[k][i]
                      /\ i \in DOMAIN rules[k] => rules'[k][i] = rules[k][i]
    BY Zenon
  <2>1. CASE k = r
    BY <1>3, <1>4, <2>1, Zenon
  <2>2. CASE k # r
    BY <1>4, <2>2, Zenon
  <2> QED
    BY <2>1, <2>2, Zenon
<1>6. RulesRight(rules')
  <2>1. ASSUME NEW k \in Routes, NEW i \in DOMAIN rules'[k], NEW d \in rules'[k][i], d \in Captures
        PROVE  k = TargetOf[d]
    <3>1. i \in DOMAIN rules[k] /\ d \in rules[k][i]
      BY <1>5, <2>1, Zenon
    <3> QED
      BY <2>1, <3>1, Zenon DEF CapturesInv, RulesRight
  <2> QED
    BY <1>4, <2>1, Zenon DEF RulesRight, Filters
<1>7. \A c \in Captures : Mirrors(rules', c) => Mirrors(rules, c)
  BY <1>5, Zenon DEF Mirrors
<1>8. FiltersKept
  BY <1>5, Zenon DEF FiltersKept
<1> QED
  BY <1>2, <1>6, <1>7, <1>8, NothingTouched, Zenon

\* A user creates a capture.  A pass over an earlier one of that name is not setting it up.
LEMMA CreateRight ==
  ASSUME CapturesInv, NEW c \in Captures, CreateCapture(c)
  PROVE  CapturesInv' /\ FiltersKept
<1> DEFINE g == tc[c].gen + 1
           t == NewCapture(g)
<1>1. /\ tc \in [Captures -> CaptureRecord] /\ agents \in [Captures -> AgentRecord]
      /\ RulesRight(rules) /\ CaptureRight(c, tc[c], agents[c], rules, leaked)
  BY Zenon DEF CapturesInv
<1>2. /\ tc[c].live = "absent" /\ tc' = [tc EXCEPT ![c] = t] /\ pass' = pass
      /\ agents' = agents /\ rules' = rules /\ leaked' = leaked /\ elapsed' = elapsed
  BY Zenon DEF CreateCapture
<1>3. tc[c].gen \in Nat /\ agents[c] \in AgentRecord
  BY <1>1, Zenon DEF CaptureRecord
<1>4. g \in Nat /\ g # 0
  BY <1>3
<1> HIDE DEF g
<1>5. t \in CaptureRecord /\ t.live = "present" /\ t.phase = "New" /\ t.gen = g
  <2>1. NoCapture(g) \in CaptureRecord /\ NoCapture(g).phase = "New" /\ NoCapture(g).gen = g
    BY <1>4, Zenon DEF NoCapture, CaptureRecord
  <2> QED
    BY <2>1, Zenon DEF NewCapture, CaptureRecord
<1> HIDE DEF t
<1>6. CaptureRight(c, t, agents[c], rules, leaked)
  BY <1>1, <1>2, <1>4, <1>5, Zenon DEF CaptureRight
<1>7. ASSUME NEW p \in CapturePass, pass = <<p>>, p.name = c
      PROVE  PassRight(p, t, agents[c], rules, leaked, elapsed)
  <2>1. PassRight(p, tc[c], agents[c], rules, leaked, elapsed)
    BY <1>7, Zenon DEF CapturesInv
  <2> QED
    BY <1>2, <2>1, Zenon DEF PassRight, SetUp
<1>8. PassFits(c, t, agents[c])
  BY <1>2, <1>7, Zenon DEF PassFits
<1>9. agents = [agents EXCEPT ![c] = agents[c]]
  BY <1>1, SameValue, Zenon
<1>10. Apart(c)
  BY <1>2, NothingElse, Zenon
<1> QED
  BY <1>1, <1>2, <1>3, <1>5, <1>6, <1>8, <1>9, <1>10, OneCapture, SameRules, Zenon

\* A capture c stored as t is being deleted, or goes at once: the pass over it is outdated.
LEMMA DeletedRight ==
  ASSUME CapturesInv, NEW c \in Captures, NEW t \in CaptureRecord, tc' = [tc EXCEPT ![c] = t],
         Outdate(c), UNCHANGED <<elapsed, agents, rules, leaked>>,
         CaptureRight(c, t, agents[c], rules, leaked), tc[c].live = "present",
         tc[c].finalizer => /\ t.live # "absent" /\ t.finalizer /\ t.gen = tc[c].gen
                            /\ t.phase = tc[c].phase
  PROVE  CapturesInv' /\ FiltersKept
<1>1. /\ agents \in [Captures -> AgentRecord] /\ RulesRight(rules)
  BY Zenon DEF CapturesInv
<1>2. agents[c] \in AgentRecord /\ agents = [agents EXCEPT ![c] = agents[c]]
  BY <1>1, SameValue, Zenon
<1>3. PassFits(c, t, agents[c])
  <2>1. CASE pass = <<>>
    BY <2>1, Zenon DEF Outdate, PassFits
  <2>2. ASSUME NEW p \in CapturePass, pass = <<p>>
        PROVE  PassFits(c, t, agents[c])
    <3>1. pass[1] = p /\ pass # <<>>
      BY <2>2, OnePass, Zenon
    <3>2. CASE p.name # c
      <4>1. pass' = pass
        BY <3>1, <3>2, Zenon DEF Outdate, Current
      <4> QED
        BY <2>2, <3>2, <4>1, OnePass, Zenon DEF PassFits
    <3>3. CASE p.name = c
      <4> DEFINE q == [p EXCEPT !.stale = TRUE]
      <4>1. pass' = <<q>>
        BY <3>1, <3>3, Zenon DEF Outdate, Current
      <4>2. q \in CapturePass /\ q.name = c /\ q.tc = p.tc /\ q.pc = p.pc /\ q.stale
        BY <3>3, Zenon DEF CapturePass
      <4> HIDE DEF q
      <4>3. PassRight(p, tc[c], agents[c], rules, leaked, elapsed)
        BY <2>2, <3>3, Zenon DEF CapturesInv
      <4>4. PassRight(q, t, agents[c], rules, leaked, elapsed)
        BY <3>3, <4>2, <4>3, Zenon DEF PassRight, SetUp
      <4> QED
        BY <4>1, <4>2, <4>4, Zenon DEF PassFits
    <3> QED
      BY <3>2, <3>3, Zenon
  <2> QED
    BY <2>1, <2>2, Zenon DEF CapturesInv
<1>4. Apart(c)
  BY NothingElse, Zenon
<1> QED
  BY <1>1, <1>2, <1>3, <1>4, OneCapture, SameRules, Zenon

LEMMA DeleteRight ==
  ASSUME CapturesInv, NEW c \in Captures, DeleteCapture(c)
  PROVE  CapturesInv' /\ FiltersKept
<1>1. tc[c] \in CaptureRecord /\ CaptureRight(c, tc[c], agents[c], rules, leaked)
  BY Zenon DEF CapturesInv
<1>2. /\ tc[c].live = "present" /\ Outdate(c) /\ UNCHANGED <<elapsed, agents, rules, leaked>>
  BY Zenon DEF DeleteCapture
<1>3. CASE tc[c].finalizer
  <2> DEFINE t == [tc[c] EXCEPT !.live = "deleting"]
  <2>1. tc' = [tc EXCEPT ![c] = t]
    BY <1>3, Zenon DEF DeleteCapture
  <2>2. /\ t \in CaptureRecord /\ t.live = "deleting" /\ t.finalizer /\ t.gen = tc[c].gen
        /\ t.phase = tc[c].phase
    BY <1>1, <1>3, Zenon DEF CaptureRecord
  <2> HIDE DEF t
  <2>3. t.live # "absent" /\ CaptureRight(c, t, agents[c], rules, leaked)
    BY <1>1, <1>2, <2>2, Zenon DEF CaptureRight
  <2> QED
    BY <1>2, <2>1, <2>2, <2>3, DeletedRight, Zenon
<1>4. CASE ~tc[c].finalizer
  <2> DEFINE t == NoCapture(tc[c].gen)
  <2>1. tc' = [tc EXCEPT ![c] = t]
    BY <1>4, Zenon DEF DeleteCapture
  <2>2. tc[c].gen \in Nat
    BY <1>1, Zenon DEF CaptureRecord
  <2>3. t \in CaptureRecord /\ t.live = "absent" /\ t.phase = "New"
    BY <2>2, Zenon DEF NoCapture, CaptureRecord
  <2> HIDE DEF t
  <2>4. CaptureRight(c, t, agents[c], rules, leaked)
    BY <1>1, <1>4, <2>3, Zenon DEF CaptureRight
  <2> QED
    BY <1>2, <1>4, <2>1, <2>3, <2>4, DeletedRight, Zenon
<1> QED
  BY <1>3, <1>4, Zenon

\* Agents change by themselves, or lose an object whose owner is gone.
LEMMA AgentsRight ==
  ASSUME CapturesInv, NEW c \in Captures, AgentsChange(c) \/ CollectGarbage(c)
  PROVE  CapturesInv' /\ FiltersKept
<1>1. /\ tc \in [Captures -> CaptureRecord] /\ agents \in [Captures -> AgentRecord]
      /\ RulesRight(rules) /\ CaptureRight(c, tc[c], agents[c], rules, leaked)
  BY Zenon DEF CapturesInv
<1>2. /\ tc' = tc /\ pass' = pass /\ rules' = rules /\ leaked' = leaked /\ elapsed' = elapsed
  BY Zenon DEF AgentsChange, CollectGarbage
<1>3. tc[c] \in CaptureRecord /\ agents[c] \in AgentRecord /\ tc = [tc EXCEPT ![c] = tc[c]]
  BY <1>1, SameValue, Zenon
<1>4. PICK a \in AgentRecord :
        /\ agents' = [agents EXCEPT ![c] = a]
        /\ \A kind \in Kinds :
              \/ a.owner[kind] = agents[c].owner[kind]
              \/ a.owner[kind] = 0 /\ (tc[c].live = "absent" \/ agents[c].owner[kind] # tc[c].gen)
  <2>1. CASE AgentsChange(c)
    <3> DEFINE a == [agents[c] EXCEPT !.ready = ~@]
    <3>1. agents' = [agents EXCEPT ![c] = a]
      BY <2>1, Zenon DEF AgentsChange
    <3>2. a \in AgentRecord /\ a.owner = agents[c].owner
      BY <1>3, Zenon DEF AgentRecord
    <3> HIDE DEF a
    <3> QED
      BY <3>1, <3>2, Zenon
  <2>2. CASE CollectGarbage(c)
    <3>1. PICK kind \in Kinds : /\ tc[c].live = "absent" \/ agents[c].owner[kind] # tc[c].gen
                                /\ agents' = [agents EXCEPT ![c] = Dropped(kind, agents[c])]
      BY <2>2, Zenon DEF CollectGarbage
    <3> DEFINE a == Dropped(kind, agents[c])
    <3>2. Reowned(agents[c], a, kind, 0)
      BY <1>3, AgentDropped, Zenon
    <3>3. agents' = [agents EXCEPT ![c] = a]
      BY <3>1, Zenon
    <3> HIDE DEF a
    <3> QED
      BY <3>1, <3>2, <3>3, Zenon DEF Reowned
  <2> QED
    BY <2>1, <2>2, Zenon
<1>5. {"hpa", "deployment", "service"} \subseteq Kinds
  BY Zenon DEF Kinds
<1>6. CaptureRight(c, tc[c], a, rules, leaked)
  BY <1>1, <1>4, <1>5, Zenon DEF CaptureRight
<1>7. ASSUME NEW p \in CapturePass, pass = <<p>>, p.name = c
      PROVE  PassRight(p, tc[c], a, rules, leaked, elapsed)
  <2>1. PassRight(p, tc[c], agents[c], rules, leaked, elapsed)
    BY <1>7, Zenon DEF CapturesInv
  <2>2. p.pc \in {"hpa", "mirror", "status"} => a.owner["service"] = tc[c].gen
    BY <1>4, <1>5, <2>1, Zenon DEF PassRight, SetUp
  <2> QED
    BY <1>4, <1>5, <2>1, <2>2, Zenon DEF PassRight
<1>8. PassFits(c, tc[c], a)
  BY <1>2, <1>7, Zenon DEF PassFits
<1>9. Apart(c)
  BY <1>2, NothingElse, Zenon
<1> QED
  BY <1>1, <1>2, <1>3, <1>4, <1>6, <1>8, <1>9, OneCapture, SameRules, Zenon

\* Every step keeps the invariant, and takes filters away only when it may.
LEMMA CapturesStep ==
  ASSUME CapturesInv, [CapturesNext]_captureVars
  PROVE  CapturesInv' /\ FiltersKept
<1>1. CASE \E c \in Captures : ReconcileBegin(c) \/ CreateCapture(c) \/ DeleteCapture(c)
                               \/ AgentsChange(c) \/ CollectGarbage(c)
  BY <1>1, BeginRight, CreateRight, DeleteRight, AgentsRight, Zenon
<1>2. CASE PassFails \/ ReconcileStorage \/ EditStorage \/ (\E c \in Captures : Elapse(c))
           \/ UNCHANGED captureVars
  BY <1>2, UntouchedRight, Zenon
<1>3. CASE EnsureAgents
  <2>1. {"hpa", "deployment", "service"} \subseteq Kinds
    BY Zenon DEF Kinds
  <2> QED
    BY <1>3, <2>1, ProvisionRight, Zenon DEF EnsureAgents
<1>4. CASE DropAgents
  <2>1. {"hpa", "deployment", "service"} \subseteq Kinds
    BY Zenon DEF Kinds
  <2> QED
    BY <1>4, <2>1, DropRight, Zenon DEF DropAgents
<1>5. CASE AddFinalizer \/ GetStorage \/ EnsureMirror \/ updateStatus
  BY <1>5, AddFinalizerRight, GetStorageRight, EnsureMirrorRight, UpdateStatusRight, Zenon
<1>6. CASE Unmirror \/ Complete \/ UnmirrorDeleted \/ Release
  BY <1>6, UnmirrorRight, CompleteRight, UnmirrorDeletedRight, ReleaseRight, Zenon
<1>7. CASE \E r \in Routes : AddRule(r) \/ DeleteRoute(r)
  BY <1>7, RouteRight, Zenon
<1> QED
  BY <1>1, <1>2, <1>3, <1>4, <1>5, <1>6, <1>7, Zenon DEF CapturesNext, CaptureStep

LEMMA CapturesStart ==
  ASSUME CapturesInit
  PROVE  CapturesInv
<1>1. tc = [c \in Captures |-> NoCapture(0)] /\ agents = [c \in Captures |-> NoAgents] /\ pass = <<>>
  BY Zenon DEF CapturesInit
<1>2. NoCapture(0) \in CaptureRecord /\ NoCapture(0).live = "absent" /\ NoCapture(0).phase = "New"
  BY Zenon DEF NoCapture, CaptureRecord
<1>3. NoAgents \in AgentRecord
  BY Zenon DEF NoAgents, AgentRecord
<1>4. \A r \in Routes : rules[r] = <<Foreign>>
  BY Zenon DEF CapturesInit
<1>5. <<Foreign>> \in Seq(SUBSET (Captures \cup Foreign)) /\ DOMAIN <<Foreign>> = {1}
      /\ <<Foreign>>[1] = Foreign
  OBVIOUS
<1>6. \A r \in Routes : \A i \in DOMAIN rules[r] : rules[r][i] \cap Captures = {}
  BY <1>4, <1>5, CapturesAssumption, Zenon
<1>7. RulesRight(rules)
  <2>1. rules \in [Routes -> Seq(SUBSET (Captures \cup Foreign))]
    BY <1>5, Zenon DEF CapturesInit
  <2> QED
    BY <1>6, <2>1, Zenon DEF RulesRight
<1>8. \A c \in Captures : ~Mirrors(rules, c)
  BY <1>6, Zenon DEF Mirrors
<1>9. \A c \in Captures : CaptureRight(c, NoCapture(0), NoAgents, rules, leaked)
  BY <1>2, <1>8, Zenon DEF CaptureRight
<1>10. \A p \in CapturePass : pass # <<p>>
  BY <1>1, OnePass, Zenon
<1> QED
  BY <1>1, <1>2, <1>3, <1>7, <1>9, <1>10, Zenon DEF CapturesInv

(***************************************************************************)
(* Whatever is created, edited and deleted while passes run and fail:      *)
(* traffic is mirrored only to agents that exist, a Completed capture is   *)
(* torn down (internal/spoke/controller.go, completeCapture, reconcile     *)
(* order), and no filter goes before its capture's time.                   *)
(***************************************************************************)
THEOREM CapturesInOrder == CapturesSpec => []AgentsBehindMirrors /\ CaptureUninterrupted
<1>1. CapturesInv => AgentsBehindMirrors
  <2> SUFFICES ASSUME CapturesInv, NEW c \in Captures
               PROVE  /\ tc[c].phase = "Completed" =>
                            ~Mirrored(c) /\ agents[c].owner = NoAgents.owner
                      /\ Mirrored(c) /\ c \notin leaked => agents[c].owner["service"] # 0
    BY Zenon DEF AgentsBehindMirrors, CompletedIsTornDown, MirrorHasAgents
  <2>1. /\ CaptureRight(c, tc[c], agents[c], rules, leaked)
        /\ Mirrored(c) <=> Mirrors(rules, c)
    BY Zenon DEF CapturesInv, Mirrored, Mirrors
  <2>2. agents[c].owner \in [Kinds -> Nat]
    BY Zenon DEF CapturesInv, AgentRecord
  <2>3. (\A kind \in Kinds : agents[c].owner[kind] = 0) => agents[c].owner = NoAgents.owner
    BY <2>2, Zenon DEF NoAgents
  <2> QED
    BY <2>1, <2>3, Zenon DEF CaptureRight
<1>2. CapturesInv /\ [CapturesNext]_captureVars => CapturesInv' /\ [FiltersKept]_captureVars
  BY CapturesStep, Zenon
<1>3. CapturesInit => CapturesInv
  BY CapturesStart, Zenon
<1> QED
  BY <1>1, <1>2, <1>3, PTL DEF CapturesSpec, CaptureUninterrupted, FiltersKept

-----------------------------------------------------------------------------
(***************************************************************************)
(* The settings of a capture, from the TrafficCapture to what is stored.   *)
(***************************************************************************)
CaptureSettingsSpec == CaptureSettingsInit /\ [][CaptureSettingsNext]_settingVars

\* The configuration that an agent of a capture with this spec has.
RedactValue(spec) ==
    IF spec.disableRedaction THEN <<NoRedaction>>
    ELSE IF spec.redactHeaders # {} THEN <<spec.redactHeaders>> ELSE Unset
ConfigOf(spec) ==
    [prefix |-> spec.pathPrefix, headers |-> spec.headers, percentage |-> envIntOr(spec.percentage),
     redact |-> parseRedactHeaders(RedactValue(spec)), maxBody |-> DefaultMaxBody]

\* What a handler with configuration c makes of a request.
Outcome(c, r, sample) ==
    [request |-> r, sample |-> sample, kept |-> Matches(c, r, sample),
     headers |-> IF Matches(c, r, sample) THEN Redact(c, r.headers) ELSE {},
     size |-> IF r.size > c.maxBody THEN c.maxBody ELSE r.size]

\* Every stage holds what the one before it was given.
Passed ==
    /\ \E pair \in CaptureSpecs : tcSpec = pair[1] /\ storageSpec = pair[2]
    /\ storagePhase = "Ready" => validateCaptureStorageSpec(storageSpec)
    /\ env = Unset \/ (storagePhase = "Ready" /\ env = <<buildEnvVars(tcSpec, storageSpec)>>)
    /\ agentCfg = Unset \/ agentCfg = <<ConfigOf(tcSpec)>>
    /\ agentExit => env # Unset /\ ~NewWriterFactory(env[1], storageSpec.agentFile)
    /\ \A h \in handled : \E r \in AgentRequests, sample \in Samples :
          h = Outcome(ConfigOf(tcSpec), r, sample)

\* What the agent reads in its environment is the configuration the capture calls for.
LEMMA EnvironmentRead ==
  ASSUME NEW spec, NEW s
  PROVE  /\ buildEnvVars(spec, s).pathPrefix = spec.pathPrefix
         /\ buildEnvVars(spec, s).headers = spec.headers
         /\ buildEnvVars(spec, s).percentage = spec.percentage
         /\ buildEnvVars(spec, s).redact = RedactValue(spec)
         /\ buildEnvVars(spec, s).storageType = s.type
         /\ buildEnvVars(spec, s).fields = s.fields
  BY Zenon DEF buildEnvVars, RedactValue

LEMMA SettingsStep ==
  Passed /\ [CaptureSettingsNext]_settingVars => Passed'
<1> SUFFICES ASSUME Passed, [CaptureSettingsNext]_settingVars
             PROVE  Passed'
  BY Zenon
<1>1. CASE ReconcileStorageSpec
  <2>1. storagePhase = "none" /\ env = Unset
    BY <1>1, Zenon DEF ReconcileStorageSpec, Passed
  <2>2. storagePhase' = "Ready" => validateCaptureStorageSpec(storageSpec)
    BY <1>1, Zenon DEF ReconcileStorageSpec
  <2>3. UNCHANGED <<tcSpec, storageSpec, env, agentCfg, agentExit, handled>>
    BY <1>1, Zenon DEF ReconcileStorageSpec
  <2> QED
    BY <2>1, <2>2, <2>3, Zenon DEF Passed
<1>2. CASE DeployAgent
  <2>1. /\ storagePhase = "Ready" /\ env = Unset /\ env' = <<buildEnvVars(tcSpec, storageSpec)>>
        /\ UNCHANGED <<tcSpec, storageSpec, storagePhase, agentCfg, agentExit, handled>>
    BY <1>2, Zenon DEF DeployAgent
  <2> QED
    BY <2>1, Zenon DEF Passed
<1>3. CASE StartAgent
  <2>1. /\ env # Unset /\ UNCHANGED <<tcSpec, storageSpec, storagePhase, env, handled>>
    BY <1>3, Zenon DEF StartAgent
  <2>2. env = <<buildEnvVars(tcSpec, storageSpec)>>
    BY <2>1, Zenon DEF Passed
  <2>3. env[1] = buildEnvVars(tcSpec, storageSpec)
    BY <2>2, OnePass, Zenon
  <2>4. CASE NewWriterFactory(env[1], storageSpec.agentFile)
    <3>1. /\ agentCfg' = <<[prefix |-> env[1].pathPrefix, headers |-> env[1].headers,
                            percentage |-> envIntOr(env[1].percentage),
                            redact |-> parseRedactHeaders(env[1].redact),
                            maxBody |-> DefaultMaxBody]>>
          /\ agentExit' = FALSE
      BY <1>3, <2>4, Zenon DEF StartAgent
    <3>2. agentCfg' = <<ConfigOf(tcSpec)>>
      <4> DEFINE e == buildEnvVars(tcSpec, storageSpec)
      <4>0. /\ e.pathPrefix = tcSpec.pathPrefix /\ e.headers = tcSpec.headers
            /\ e.percentage = tcSpec.percentage /\ e.redact = RedactValue(tcSpec)
        BY EnvironmentRead, Zenon
      <4> HIDE DEF e
      <4>1. /\ env[1].pathPrefix = tcSpec.pathPrefix /\ env[1].headers = tcSpec.headers
            /\ env[1].percentage = tcSpec.percentage /\ env[1].redact = RedactValue(tcSpec)
        BY <2>3, <4>0, Zenon DEF e
      <4> QED
        BY <3>1, <4>1, Zenon DEF ConfigOf
    <3> QED
      BY <2>1, <3>1, <3>2, Zenon DEF Passed
  <2>5. CASE ~NewWriterFactory(env[1], storageSpec.agentFile)
    <3>1. agentExit' = TRUE /\ agentCfg' = Unset
      BY <1>3, <2>5, Zenon DEF StartAgent
    <3> QED
      BY <2>1, <2>5, <3>1, Zenon DEF Passed
  <2> QED
    BY <2>4, <2>5, Zenon
<1>4. ASSUME NEW r \in AgentRequests, HandleCaptured(r)
      PROVE  Passed'
  <2>1. /\ agentCfg # Unset
        /\ UNCHANGED <<tcSpec, storageSpec, storagePhase, env, agentCfg, agentExit>>
    BY <1>4, Zenon DEF HandleCaptured
  <2>2. agentCfg[1] = ConfigOf(tcSpec)
    BY <2>1, OnePass, Zenon DEF Passed
  <2>3. PICK sample \in Samples : handled' = handled \cup {Outcome(agentCfg[1], r, sample)}
    BY <1>4, Zenon DEF HandleCaptured, Outcome
  <2> QED
    BY <2>1, <2>2, <2>3, Zenon DEF Passed
<1>5. CASE UNCHANGED settingVars
  BY <1>5, Zenon DEF settingVars, Passed
<1> QED
  BY <1>1, <1>2, <1>3, <1>4, <1>5, Zenon DEF CaptureSettingsNext

LEMMA PassedAlways ==
  CaptureSettingsSpec => []Passed
<1>1. CaptureSettingsInit => Passed
  <2> SUFFICES ASSUME CaptureSettingsInit PROVE Passed
    BY Zenon
  <2>1. "none" # "Ready"
    BY Zenon
  <2> QED
    BY <2>1, Zenon DEF CaptureSettingsInit, Passed
<1> QED
  BY <1>1, SettingsStep, PTL DEF CaptureSettingsSpec

\* The share a user may set, and what the agent samples by.
LEMMA ShareRead ==
  ASSUME NEW pair \in CaptureSpecs, NEW sample \in Samples
  PROVE  (envIntOr(pair[1].percentage) >= 100
            \/ (envIntOr(pair[1].percentage) > 0 /\ sample < envIntOr(pair[1].percentage)))
         <=> (pair[1].percentage # Unset => sample < pair[1].percentage[1])
<1> DEFINE share == pair[1].percentage
<1>1. sample \in 0 .. 99 /\ share \in Seq(Nat)
  BY SamplesAssumption, CaptureSpecsAssumption, Zenon
<1>2. CASE share = <<>>
  BY <1>2 DEF envIntOr, Unset
<1>3. CASE share # <<>>
  <2>1. envIntOr(share) = share[1] /\ share # Unset /\ share[1] \in Nat
    BY <1>1, <1>3 DEF envIntOr, Unset
  <2>2. \A e \in Nat, s \in 0 .. 99 : (e >= 100 \/ (e > 0 /\ s < e)) <=> s < e
    BY SMT
  <2> QED
    BY <1>1, <2>1, <2>2, Zenon
<1> QED
  BY <1>2, <1>3, Zenon

LEMMA FiltersHonoured ==
  Passed => StoredIffMatches
<1> SUFFICES ASSUME Passed, NEW h \in handled
             PROVE  h.kept = (/\ tcSpec.pathPrefix # Unset => h.request.path \in tcSpec.pathPrefix[1]
                              /\ \A f \in tcSpec.headers :
                                    \E x \in h.request.headers : x.key = f.key /\ x.value = f.value
                              /\ tcSpec.percentage # Unset => h.sample < tcSpec.percentage[1])
  BY Zenon DEF StoredIffMatches
<1>1. PICK r \in AgentRequests, sample \in Samples : h = Outcome(ConfigOf(tcSpec), r, sample)
  BY Zenon DEF Passed
<1> DEFINE c == ConfigOf(tcSpec)
<1>2. h.kept = Matches(c, r, sample) /\ h.request = r /\ h.sample = sample
  BY <1>1, Zenon DEF Outcome
<1>3. /\ c.prefix = tcSpec.pathPrefix /\ c.headers = tcSpec.headers
      /\ c.percentage = envIntOr(tcSpec.percentage)
  BY Zenon DEF ConfigOf
<1>4. (c.percentage >= 100 \/ (c.percentage > 0 /\ sample < c.percentage))
        <=> (tcSpec.percentage # Unset => sample < tcSpec.percentage[1])
  BY <1>3, ShareRead, Zenon DEF Passed
<1> HIDE DEF c
<1> QED
  BY <1>2, <1>3, <1>4, Zenon DEF Matches, headerMatches

LEMMA HeadersRedacted ==
  Passed => CredentialsRedacted
<1> DEFINE listed == DefaultRedact \cup {l.key : l \in tcSpec.redactHeaders}
<1> SUFFICES ASSUME Passed, tcSpec.redactHeaders # NoRedaction, NEW h \in handled, h.kept,
                    ~tcSpec.disableRedaction, NEW x \in h.headers, x.key \in listed
             PROVE  x.value = "[REDACTED]"
  BY Zenon DEF CredentialsRedacted
<1>1. PICK r \in AgentRequests, sample \in Samples : h = Outcome(ConfigOf(tcSpec), r, sample)
  BY Zenon DEF Passed
<1> DEFINE c == ConfigOf(tcSpec)
<1>2. c.redact = parseRedactHeaders(RedactValue(tcSpec))
  BY Zenon DEF ConfigOf
<1>3. c.redact = listed
  <2>1. CASE tcSpec.redactHeaders = {}
    <3>1. RedactValue(tcSpec) = Unset
      BY <2>1, Zenon DEF RedactValue
    <3>2. parseRedactHeaders(Unset) = DefaultRedact
      BY Zenon DEF parseRedactHeaders, Unset
    <3> QED
      BY <1>2, <2>1, <3>1, <3>2, Zenon
  <2>2. CASE tcSpec.redactHeaders # {}
    <3>1. RedactValue(tcSpec) = <<tcSpec.redactHeaders>>
      BY <2>2, Zenon DEF RedactValue
    <3>2. /\ <<tcSpec.redactHeaders>> # Unset /\ <<tcSpec.redactHeaders>> # <<NoRedaction>>
          /\ <<tcSpec.redactHeaders>>[1] = tcSpec.redactHeaders
      BY OnePass, Zenon DEF Unset
    <3>3. parseRedactHeaders(<<tcSpec.redactHeaders>>) = listed
      BY <3>2, Zenon DEF parseRedactHeaders
    <3> QED
      BY <1>2, <3>1, <3>3, Zenon
  <2> QED
    BY <2>1, <2>2, Zenon
<1> HIDE DEF listed
<1>4. x \in Redact(c, r.headers)
  <2>1. h.kept = Matches(c, r, sample)
        /\ h.headers = IF Matches(c, r, sample) THEN Redact(c, r.headers) ELSE {}
    BY <1>1, Zenon DEF Outcome
  <2> QED
    BY <2>1, Zenon
<1> HIDE DEF c
<1>5. PICK g \in r.headers : x = IF g.key \in c.redact THEN [g EXCEPT !.value = "[REDACTED]"] ELSE g
  BY <1>4, Zenon DEF Redact
<1>6. {"key", "value"} \subseteq DOMAIN g
  BY HeadersAssumption, Zenon
<1>7. CASE g.key \in c.redact
  BY <1>5, <1>6, <1>7, Zenon
<1>8. CASE g.key \notin c.redact
  BY <1>3, <1>5, <1>8, Zenon
<1> QED
  BY <1>7, <1>8, Zenon

LEMMA ReadyStarts ==
  Passed => ReadyStorageStarts
<1> DEFINE asked == \/ storageSpec.symbol # Unset \/ storageSpec.config # Unset
                     \/ storageSpec.agentFile # storageSpec.spokeFile
                     \/ ~PluginBuilds(storageSpec.spokeFile, Unset, Unset)
<1> SUFFICES ASSUME Passed, agentExit
             PROVE  storageSpec.type = "Plugin" /\ asked
  BY Zenon DEF ReadyStorageStarts
<1> DEFINE e == buildEnvVars(tcSpec, storageSpec)
           file == storageSpec.agentFile
<1>1. /\ storagePhase = "Ready" /\ env = <<e>> /\ ~NewWriterFactory(env[1], file)
      /\ validateCaptureStorageSpec(storageSpec)
  BY Zenon DEF Passed
<1>2. /\ env[1] = e /\ e.storageType = storageSpec.type /\ e.fields = storageSpec.fields
  <2>1. env[1] = e
    BY <1>1, OnePass, Zenon
  <2>2. e.storageType = storageSpec.type /\ e.fields = storageSpec.fields
    BY EnvironmentRead, Zenon
  <2> QED
    BY <2>1, <2>2, Zenon
<1>3. storageSpec.type \in {"S3", "GCS", "EFS", "EBS", "Plugin"}
  BY CaptureSpecsAssumption, Zenon DEF Passed
<1>4. Required(storageSpec.type) \subseteq storageSpec.fields
  BY <1>1, Zenon DEF validateCaptureStorageSpec
<1> HIDE DEF e
<1>5. storageSpec.type # "Plugin" => NewWriterFactory(e, file)
  BY <1>2, <1>3, <1>4, Zenon DEF NewWriterFactory, Required
<1>6. storageSpec.type = "Plugin" /\ PluginBuilds(file, Unset, Unset) => NewWriterFactory(e, file)
  BY <1>2, <1>4, Zenon DEF NewWriterFactory, Required
<1> QED
  BY <1>1, <1>2, <1>5, <1>6, Zenon

(***************************************************************************)
(* What a user writes is what the agents do, for every spec, storage,      *)
(* plugin file and request: a storage that is Ready lets them start, and   *)
(* they store what the filters ask for, without the headers that are to be *)
(* redacted; with the exceptions that the properties name.                 *)
(***************************************************************************)
THEOREM CaptureSettingsHonoured ==
  CaptureSettingsSpec => []SettingsHonoured
<1>1. Passed => SettingsHonoured
  BY FiltersHonoured, HeadersRedacted, ReadyStarts, Zenon DEF SettingsHonoured
<1> QED
  BY <1>1, PassedAlways, PTL

=============================================================================
