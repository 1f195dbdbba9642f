-------------------------- MODULE ScanPipelineProofs --------------------------
(***************************************************************************)
(* Theorems about the scans of a session, for any symbols, frames, ideas,  *)
(* capital and limits, and any number of scans and faults.                 *)
(***************************************************************************)
EXTENDS ScanPipeline, SumLemmas

States == {"SCREENED", "AI_REJECTED", "VETOED", "READY", "ALLOCATED", "APPROVED_NO_CAPITAL"}

Candidates ==
  [symbol : Symbols, strategy : {idea.strategy : idea \in Ideas},
   conf : Int, rr : Int, entry : Nat \ {0}, stop : Int,
   score : Int, verdict : Verdicts, qty : Nat, state : States]

Holdings == [qty : Nat, entry : Nat, scan : Nat]

Rows == [outcome : Outcomes, results : Nat, reviews : Nat]

-----------------------------------------------------------------------------
(***************************************************************************)
(* The inductive invariant.                                                *)
(***************************************************************************)

\* Without a positive risk a candidate has no size, now or later.
Riskless(c) == c.entry <= c.stop => c.qty = 0

\* A verdict of elevated volatility is on the candidate.
Marked(c) == Approved(c) /\ Elevated(market[c.symbol]) => c.verdict = "APPROVED_REDUCED_SIZE"

\* The decision of this scan about a candidate, if it was not lost, is pending.
Pending(c) ==
  <<scans, c.symbol>> \in DOMAIN decisions =>
    /\ decisions[<<scans, c.symbol>>].outcome = "PENDING"
    /\ decisions[<<scans, c.symbol>>].results = 0

OnePerSymbol(q) == \A i, j \in DOMAIN q : q[i].symbol = q[j].symbol => i = j

\* Types, and that what is listed was downloaded.
WellFormed ==
  /\ stage \in Stages
  /\ scans \in Nat
  /\ DOMAIN market \subseteq Symbols
  /\ waiting \subseteq Symbols
  /\ focus \subseteq Symbols
  /\ candidates \subseteq Candidates
  /\ final \in Seq(Candidates)
  /\ queue \in Seq(Candidates)
  /\ positions \in [DOMAIN positions -> Holdings] /\ DOMAIN positions \subseteq Symbols
  /\ decisions \in [DOMAIN decisions -> Rows] /\ DOMAIN decisions \subseteq Nat \X Symbols

\* A candidate that no brain has looked at.
Screened(c) == Riskless(c) /\ c.verdict = NoVerdict /\ c.state = "SCREENED"

\* What a stage hands to the next.
Handed ==
  /\ stage = "consensus" => \A c \in candidates : Screened(c) /\ c.symbol \in known
  /\ stage \in {"portfolio", "paper"} => \A c \in ToSet(final) : c.symbol \in known
  /\ stage = "portfolio" =>
       /\ OnePerSymbol(final)
       /\ \A c \in ToSet(final) : /\ Riskless(c) /\ Marked(c)
                                  /\ c.state # "ALLOCATED"
                                  /\ Approved(c) => Pending(c)
  /\ stage = "paper" =>
       /\ OnePerSymbol(queue)
       /\ ToSet(queue) \subseteq ToSet(final)
       /\ \A c \in ToSet(queue) : Pending(c)

\* Rows and holdings of scans to come do not exist, and none of the running scan
\* before the stage that makes them.
Dated ==
  /\ \A id \in DOMAIN decisions : id[1] <= scans
  /\ \A s \in DOMAIN positions : positions[s].scan <= scans
  /\ stage \in {"observe", "screen", "consensus"} =>
       \A id \in DOMAIN decisions : id[1] < scans
  /\ stage \in {"observe", "screen", "consensus", "portfolio"} =>
       \A s \in DOMAIN positions : positions[s].scan < scans

\* The sizes of what is queued.
Reduced(c) ==
  Elevated(market[c.symbol]) =>
    c.qty <= Max({1, (65 * PositionSize([c EXCEPT !.verdict = "APPROVED"])) \div 100})

WithinShare(c) == 100 * Cost(c) <= MaxPerTradePct * Capital

\* What the candidates of a sector cost together.
InSector(cs, x) == {c \in cs : SectorOf[c.symbol] = x}

Price == [c \in Candidates |-> Cost(c)]

Spent(cs, x) == SumFunctionOnSet(Price, InSector(cs, x))

\* The queue is paid for: were all of it bought, every limit that it touches would
\* still hold.  What was restored may be past a limit already.
Affordable ==
  stage = "paper" =>
    /\ \A c \in ToSet(queue) : Reduced(c) /\ WithinShare(c)
    /\ queue # <<>> =>
         Cardinality(DOMAIN positions) + Cardinality(ToSet(queue)) <= MaxPositions
    /\ \A x \in Sectors \ {Unknown} : InSector(ToSet(queue), x) # {} =>
         Exposure(positions, known, x) + Spent(ToSet(queue), x) <= CapOfSector

\* What MemoryAgrees says of a row, and of the row behind a held position.
RowSound(id, row) ==
  /\ row.results <= 1 /\ row.reviews <= 1
  /\ row.reviews = 1 => row.outcome = "CLOSED"
  /\ id[1] # Earlier /\ row.outcome = "CLOSED" => row.reviews = 1

HeldSound(id, row) ==
  /\ row.results = 0 /\ row.reviews = 0
  /\ id[1] # Earlier => row.outcome \notin {"NO_TRADE", "CLOSED"}

MemoryInv == WellFormed /\ Handed /\ Dated /\ MemoryAgrees

Inv == MemoryInv /\ Affordable

-----------------------------------------------------------------------------
(***************************************************************************)
(* Loops: a recursion over the indices of a list has a solution.           *)
(***************************************************************************)

\* The states of a loop of n rounds that starts from base.
Loop(f, n, base, step) ==
  f = [i \in 0..n |-> IF i = 0 THEN base ELSE step[<<i, f[i - 1]>>]]

LEMMA LoopExists ==
  ASSUME NEW n \in Nat, NEW base, NEW step
  PROVE  \E f : Loop(f, n, base, step)
<1> DEFINE N == {m \in Nat : \E f : Loop(f, m, base, step)}
<1>1. 0 \in N
  <2> DEFINE f == [i \in 0..0 |-> base]
  <2>1. Loop(f, 0, base, step)
    BY DEF Loop
  <2>2. QED
    BY <2>1
<1>2. ASSUME NEW m \in Nat, m \in N
      PROVE  m + 1 \in N
  <2>1. PICK f : Loop(f, m, base, step)
    BY <1>2
  <2> DEFINE g == [i \in 0..(m + 1) |-> IF i = m + 1 THEN step[<<i, f[m]>>] ELSE f[i]]
  <2>2. \A i \in 0..(m + 1) : g[i] = IF i = 0 THEN base ELSE step[<<i, g[i - 1]>>]
    <3> SUFFICES ASSUME NEW i \in 0..(m + 1)
                 PROVE  g[i] = IF i = 0 THEN base ELSE step[<<i, g[i - 1]>>]
      OBVIOUS
    <3>1. CASE i = m + 1
      <4>1. i # 0 /\ i - 1 = m /\ i - 1 \in 0..(m + 1) /\ m # m + 1
        BY <3>1
      <4>2. g[i - 1] = f[m] /\ g[i] = step[<<i, f[m]>>]
        BY <3>1, <4>1
      <4>3. QED
        BY <4>1, <4>2
    <3>2. CASE i # m + 1
      <4>1. i \in 0..m /\ g[i] = f[i]
        BY <3>2
      <4>2. f[i] = IF i = 0 THEN base ELSE step[<<i, f[i - 1]>>]
        BY <2>1, <4>1 DEF Loop
      <4>3. i # 0 => g[i - 1] = f[i - 1]
        BY <4>1
      <4>4. QED
        BY <4>1, <4>2, <4>3
    <3>3. QED
      BY <3>1, <3>2
  <2>3. g = [i \in 0..(m + 1) |-> g[i]]
    OBVIOUS
  <2> HIDE DEF g
  <2>4. Loop(g, m + 1, base, step)
    BY <2>2, <2>3 DEF Loop
  <2>5. QED
    BY <2>4
<1>3. Nat \subseteq N
  <2> HIDE DEF N
  <2>1. QED
    BY <1>1, <1>2, NatSetInduction
<1>4. QED
  BY <1>3

\* What is in a set of states at the start and stays there round by round is
\* there at the end.
LEMMA LoopStays ==
  ASSUME NEW n \in Nat, NEW f, NEW G, f[0] \in G[0],
         \A i \in 1..n : f[i - 1] \in G[i - 1] => f[i] \in G[i]
  PROVE  \A i \in 0..n : f[i] \in G[i]
<1> DEFINE N == {m \in Nat : m <= n => f[m] \in G[m]}
<1>1. 0 \in N
  OBVIOUS
<1>2. ASSUME NEW m \in Nat, m \in N
      PROVE  m + 1 \in N
  <2>1. (m + 1) - 1 = m /\ (m + 1 <= n => m <= n /\ m + 1 \in 1..n)
    OBVIOUS
  <2>2. m + 1 <= n => f[m + 1] \in G[m + 1]
    BY <1>2, <2>1
  <2>3. QED
    BY <2>2
<1>3. Nat \subseteq N
  <2> HIDE DEF N
  <2>1. QED
    BY <1>1, <1>2, NatSetInduction
<1>4. QED
  BY <1>3

\* Where the members of r stand in the first n places of q: in order, and at all
\* the places that hold a member of T.
Places(h, r, q, n, T) ==
  /\ h \in [1..Len(r) -> 1..n]
  /\ \A i, j \in 1..Len(r) : i < j => h[i] < h[j]
  /\ \A i \in 1..Len(r) : r[i] = q[h[i]] /\ q[h[i]] \in T
  /\ \A k \in 1..n : q[k] \in T => \E i \in 1..Len(r) : h[i] = k

Keeps(r, q, n, T) == \E h : Places(h, r, q, n, T)

LEMMA KeepsNext ==
  ASSUME NEW S, NEW q \in Seq(S), NEW T, NEW n \in 1..Len(q), NEW r \in Seq(S),
         Keeps(r, q, n - 1, T)
  PROVE  Keeps(IF q[n] \in T THEN Append(r, q[n]) ELSE r, q, n, T)
<1>1. PICK h : Places(h, r, q, n - 1, T)
  BY DEF Keeps
<1>2. n - 1 \in Nat /\ n \in Nat /\ 1..(n - 1) \subseteq 1..n /\ n \in 1..n
  OBVIOUS
<1>3. CASE q[n] \notin T
  <2>1. h \in [1..Len(r) -> 1..n]
    BY <1>1, <1>2 DEF Places
  <2>2. \A k \in 1..n : q[k] \in T => k \in 1..(n - 1)
    BY <1>2, <1>3
  <2>3. Places(h, r, q, n, T)
    BY <1>1, <2>1, <2>2 DEF Places
  <2>4. QED
    BY <1>3, <2>3 DEF Keeps
<1>4. CASE q[n] \in T
  <2> DEFINE m == Len(r)
             e == Append(r, q[n])
             g == [i \in 1..(m + 1) |-> IF i = m + 1 THEN n ELSE h[i]]
  <2>1. m \in Nat /\ q[n] \in S
    OBVIOUS
  <2>2. Len(e) = m + 1 /\ e[m + 1] = q[n] /\ \A i \in 1..m : e[i] = r[i]
    BY <2>1
  <2>3. g[m + 1] = n /\ \A i \in 1..m : g[i] = h[i]
    BY <2>1
  <2>4. h \in [1..m -> 1..(n - 1)]
    BY <1>1 DEF Places
  <2>5. g \in [1..(m + 1) -> 1..n]
    BY <1>2, <2>1, <2>4
  <2>6. \A i \in 1..(m + 1) : i = m + 1 \/ i \in 1..m
    BY <2>1
  <2>7. \A i \in 1..m : i # m + 1 /\ i \in 1..(m + 1) /\ h[i] \in 1..(n - 1) /\ h[i] < n
    BY <1>2, <2>1, <2>4
  <2> HIDE DEF e, g, m
  <2>8. \A i, j \in 1..(m + 1) : i < j => g[i] < g[j]
    <3> SUFFICES ASSUME NEW i \in 1..(m + 1), NEW j \in 1..(m + 1), i < j
                 PROVE  g[i] < g[j]
      OBVIOUS
    <3>1. i \in 1..m
      BY <2>1
    <3>2. CASE j = m + 1
      BY <2>3, <2>7, <3>1, <3>2
    <3>3. CASE j \in 1..m
      BY <1>1, <2>3, <3>1, <3>3 DEF Places, m
    <3>4. QED
      BY <2>6, <3>2, <3>3
  <2>9. \A i \in 1..(m + 1) : e[i] = q[g[i]] /\ q[g[i]] \in T
    <3>1. \A i \in 1..m : r[i] = q[h[i]] /\ q[h[i]] \in T
      BY <1>1 DEF Places, m
    <3>2. QED
      BY <1>4, <2>2, <2>3, <2>6, <3>1
  <2>10. \A k \in 1..n : q[k] \in T => \E i \in 1..(m + 1) : g[i] = k
    <3> SUFFICES ASSUME NEW k \in 1..n, q[k] \in T
                 PROVE  \E i \in 1..(m + 1) : g[i] = k
      OBVIOUS
    <3>1. CASE k = n
      <4>1. m + 1 \in 1..(m + 1)
        BY <2>1
      <4>2. QED
        BY <2>3, <3>1, <4>1
    <3>2. CASE k # n
      <4>1. k \in 1..(n - 1)
        BY <1>2, <3>2
      <4>2. PICK i \in 1..m : h[i] = k
        BY <1>1, <4>1 DEF Places, m
      <4>3. QED
        BY <2>3, <2>7, <4>2
    <3>3. QED
      BY <3>1, <3>2
  <2>11. Places(g, e, q, n, T)
    BY <2>2, <2>5, <2>8, <2>9, <2>10 DEF Places
  <2>12. QED
    BY <1>4, <2>11 DEF Keeps, e
<1>5. QED
  BY <1>3, <1>4

\* Kept keeps the members of T at their places, in their order.
LEMMA KeptKeeps ==
  ASSUME NEW S, NEW q \in Seq(S), NEW T
  PROVE  Kept(q, T) \in Seq(S) /\ Keeps(Kept(q, T), q, Len(q), T)
<1> DEFINE n == Len(q)
           step == [p \in (1..n) \X Seq(S) |->
                      IF q[p[1]] \in T THEN Append(p[2], q[p[1]]) ELSE p[2]]
           Next1(f) == f = [i \in 0..n |-> IF i = 0 THEN <<>>
                              ELSE IF q[i] \in T THEN Append(f[i - 1], q[i]) ELSE f[i - 1]]
<1>1. n \in Nat
  OBVIOUS
<1>2. \A i \in 1..n, r \in Seq(S) :
        /\ step[<<i, r>>] = IF q[i] \in T THEN Append(r, q[i]) ELSE r
        /\ step[<<i, r>>] \in Seq(S)
  <2>1. \A i \in 1..n : q[i] \in S
    OBVIOUS
  <2>2. \A r \in Seq(S), x \in S : Append(r, x) \in Seq(S)
    OBVIOUS
  <2>3. QED
    BY <2>1, <2>2
<1>3. <<>> \in Seq(S)
  OBVIOUS
<1>4. \E f : Next1(f)
  <2> HIDE DEF n, step
  <2>1. PICK f : Loop(f, n, <<>>, step)
    BY <1>1, LoopExists
  <2>2. \A i \in 0..n : f[i] = IF i = 0 THEN <<>> ELSE step[<<i, f[i - 1]>>]
    BY <2>1 DEF Loop
  <2> DEFINE G == [i \in 0..n |-> Seq(S)]
  <2>3. f[0] \in G[0]
    <3>1. 0 \in 0..n
      BY <1>1
    <3>2. f[0] = <<>>
      BY <2>2, <3>1
    <3>3. G[0] = Seq(S)
      BY <3>1
    <3> HIDE DEF G
    <3>4. QED
      BY <1>3, <3>2, <3>3
  <2>4. \A i \in 1..n : /\ i \in 0..n /\ i # 0 /\ i - 1 \in 0..n
                        /\ G[i - 1] = Seq(S) /\ G[i] = Seq(S)
    BY <1>1
  <2>5. \A i \in 1..n : f[i - 1] \in G[i - 1] => f[i] \in G[i]
    <3> HIDE DEF G
    <3>1. QED
      BY <1>2, <2>2, <2>4
  <2>6. \A i \in 0..n : f[i] \in G[i]
    <3> HIDE DEF G
    <3>1. QED
      BY <1>1, <2>3, <2>5, LoopStays
  <2>7. \A i \in 0..n : f[i] \in Seq(S)
    BY <2>6
  <2>8. \A i \in 0..n : f[i] = IF i = 0 THEN <<>>
                               ELSE IF q[i] \in T THEN Append(f[i - 1], q[i]) ELSE f[i - 1]
    <3> SUFFICES ASSUME NEW i \in 0..n, i # 0
                 PROVE  f[i] = IF q[i] \in T THEN Append(f[i - 1], q[i]) ELSE f[i - 1]
      BY <2>2
    <3>1. i \in 1..n /\ i - 1 \in 0..n
      BY <1>1
    <3>2. QED
      BY <1>2, <2>2, <2>7, <3>1
  <2>9. f = [i \in 0..n |-> f[i]]
    BY <2>1 DEF Loop
  <2>10. Next1(f)
    BY <2>8, <2>9
  <2>11. QED
    BY <2>10
<1> DEFINE kept == CHOOSE f : Next1(f)
<1>5. Next1(kept)
  <2> HIDE DEF Next1
  <2>1. QED
    BY <1>4
<1>6. Kept(q, T) = kept[n]
  BY DEF Kept
<1> HIDE DEF kept
<1>7. \A i \in 0..n : kept[i] = IF i = 0 THEN <<>>
                                ELSE IF q[i] \in T THEN Append(kept[i - 1], q[i])
                                ELSE kept[i - 1]
  BY <1>5
<1> DEFINE G == [i \in 0..n |-> {r \in Seq(S) : Keeps(r, q, i, T)}]
<1>8. kept[0] \in G[0]
  <2>1. kept[0] = <<>> /\ 0 \in 0..n
    BY <1>1, <1>7
  <2>2. Len(<<>>) = 0 /\ 1..0 = {}
    OBVIOUS
  <2> DEFINE h == [i \in 1..0 |-> 0]
  <2>3. h \in [1..0 -> 1..0]
    BY <2>2
  <2>4. Places(h, <<>>, q, 0, T)
    <3> HIDE DEF h
    <3>1. QED
      BY <2>2, <2>3 DEF Places
  <2>5. Keeps(<<>>, q, 0, T)
    BY <2>4 DEF Keeps
  <2>6. QED
    BY <1>3, <2>1, <2>5
<1>9. ASSUME NEW i \in 1..n, kept[i - 1] \in G[i - 1]
      PROVE  kept[i] \in G[i]
  <2>1. i \in 0..n /\ i - 1 \in 0..n /\ i # 0 /\ i \in 1..Len(q)
    BY <1>1
  <2>2. kept[i - 1] \in Seq(S) /\ Keeps(kept[i - 1], q, i - 1, T)
    BY <1>9, <2>1
  <2>3. kept[i] = IF q[i] \in T THEN Append(kept[i - 1], q[i]) ELSE kept[i - 1]
    BY <1>7, <2>1
  <2>4. Keeps(kept[i], q, i, T)
    BY <2>1, <2>2, <2>3, KeepsNext
  <2>5. kept[i] \in Seq(S)
    <3>1. q[i] \in S
      BY <2>1
    <3>2. QED
      BY <2>2, <2>3, <3>1
  <2>6. QED
    BY <2>1, <2>4, <2>5
<1>10. \A i \in 0..n : kept[i] \in G[i]
  <2> HIDE DEF G, n
  <2>1. QED
    BY <1>1, <1>8, <1>9, LoopStays
<1>11. n \in 0..n
  BY <1>1
<1>12. kept[n] \in G[n]
  BY <1>10, <1>11
<1>13. QED
  BY <1>6, <1>11, <1>12

\* What is kept: the members of T, all of them, in their order.
LEMMA KeptFacts ==
  ASSUME NEW S, NEW q \in Seq(S), NEW T, NEW r, r = Kept(q, T)
  PROVE  /\ r \in Seq(S)
         /\ \A i \in DOMAIN r : r[i] \in T /\ r[i] \in ToSet(q)
         /\ \A k \in DOMAIN q : q[k] \in T => \E i \in DOMAIN r : r[i] = q[k]
         /\ \A i, j \in DOMAIN r :
              i < j => \E a, b \in DOMAIN q : a < b /\ r[i] = q[a] /\ r[j] = q[b]
<1>1. r \in Seq(S) /\ Keeps(r, q, Len(q), T)
  BY KeptKeeps
<1>2. PICK h : Places(h, r, q, Len(q), T)
  BY <1>1 DEF Keeps
<1>3. DOMAIN r = 1..Len(r) /\ DOMAIN q = 1..Len(q)
  BY <1>1
<1>4. \A i \in DOMAIN r : h[i] \in DOMAIN q
  BY <1>2, <1>3 DEF Places
<1>5. QED
  BY <1>1, <1>2, <1>3, <1>4 DEF Places, ToSet

-----------------------------------------------------------------------------
(***************************************************************************)
(* Sizes.                                                                  *)
(***************************************************************************)

LEMMA AtLeastOne ==
  ASSUME NEW a \in Nat
  PROVE  /\ Max({1, a}) \in Nat /\ Max({1, a}) >= 1
         /\ Max({1, a}) = 1 \/ Max({1, a}) = a
<1>1. 1 \in Int /\ a \in Int
  OBVIOUS
<1>2. /\ Max({1, a}) \in {1, a}
      /\ Max({1, a}) >= 1 /\ Max({1, a}) >= a
  BY <1>1, MaxOfTwo, Zenon
<1>3. QED
  BY <1>2

\* Whole units bought at a price cost no more than the money there was.
LEMMA Quotient ==
  ASSUME NEW money \in Nat, NEW price \in Nat \ {0}
  PROVE  money \div price \in Nat /\ (money \div price) * price <= money
OBVIOUS

LEMMA Product ==
  ASSUME NEW a \in Nat, NEW b \in Nat, NEW p \in Nat, a <= b
  PROVE  a * p \in Nat /\ a * p <= b * p
OBVIOUS

AtFullSize(c) == [c EXCEPT !.verdict = "APPROVED"]

\* calculate_position_size: a whole number within the share of the capital,
\* reduced when the verdict says so, and none without a risk.
LEMMA SizeFacts ==
  ASSUME NEW c \in Candidates, Riskless(c), NEW n, n = PositionSize(c)
  PROVE  /\ n \in Nat
         /\ 100 * (n * c.entry) <= MaxPerTradePct * Capital
         /\ c.entry <= c.stop => n = 0
         /\ c.verdict = "APPROVED_REDUCED_SIZE" =>
              n <= Max({1, (65 * PositionSize(AtFullSize(c))) \div 100})
<1> DEFINE money == (MaxPerTradePct * Capital) \div 100
           full  == Min({RiskAmount \div (c.entry - c.stop), money \div c.entry})
           reduced == (65 * full) \div 100
           part  == Max({1, reduced})
<1>1. /\ c.entry \in Nat \ {0} /\ c.stop \in Int /\ c.qty \in Nat
      /\ RiskAmount \in Nat /\ MaxPerTradePct \in Nat /\ Capital \in Nat
  BY MoneyAssumption DEF Candidates
<1>2. MaxPerTradePct * Capital \in Nat
  BY <1>1
<1>3. money \in Nat /\ 100 * money <= MaxPerTradePct * Capital
  BY <1>2
<1>4. CASE c.entry <= c.stop
  <2>1. n = 0 /\ PositionSize(AtFullSize(c)) = 0
    BY <1>1, <1>4 DEF PositionSize, Riskless, AtFullSize, Candidates
  <2> DEFINE small == (65 * PositionSize(AtFullSize(c))) \div 100
  <2>2. small \in Nat
    BY <2>1
  <2>3. Max({1, small}) \in Nat
    <3> HIDE DEF small
    <3>1. QED
      BY <2>2, AtLeastOne
  <2>4. n <= Max({1, small})
    <3> HIDE DEF small
    <3>1. QED
      BY <2>1, <2>3
  <2>5. n <= Max({1, (65 * PositionSize(AtFullSize(c))) \div 100})
    BY <2>4
  <2>6. n * c.entry = 0
    BY <1>1, <2>1
  <2>7. QED
    BY <1>2, <2>1, <2>5, <2>6
<1>5. CASE ~ (c.entry <= c.stop)
  <2>1. c.entry - c.stop \in Nat \ {0}
    BY <1>1, <1>5
  <2>2. RiskAmount \div (c.entry - c.stop) \in Nat
    BY <1>1, <2>1, Quotient
  <2>3. money \div c.entry \in Nat /\ (money \div c.entry) * c.entry <= money
    <3> HIDE DEF money
    <3>1. QED
      BY <1>1, <1>3, Quotient
  <2>4. full \in Nat /\ full <= money \div c.entry
    <3> HIDE DEF money
    <3>1. RiskAmount \div (c.entry - c.stop) \in Int /\ money \div c.entry \in Int
      BY <2>2, <2>3
    <3>2. QED
      BY <2>2, <2>3, <3>1, MinOfTwo
  <2>5. part \in Nat /\ part >= 1 /\ (full > 0 => part <= full)
    <3> HIDE DEF full
    <3>1. reduced \in Nat /\ reduced <= full
      BY <2>4
    <3> HIDE DEF reduced
    <3>2. part \in Nat /\ part >= 1 /\ (part = 1 \/ part = reduced)
      BY <3>1, AtLeastOne
    <3> HIDE DEF part
    <3>3. QED
      BY <2>4, <3>1, <3>2
  <2>6. PositionSize(AtFullSize(c)) = full
    <3>1. /\ AtFullSize(c).entry = c.entry /\ AtFullSize(c).stop = c.stop
          /\ AtFullSize(c).verdict = "APPROVED"
      BY DEF AtFullSize, Candidates
    <3>2. ~ (c.entry - c.stop <= 0)
      BY <1>1, <1>5
    <3>3. QED
      BY <3>1, <3>2 DEF PositionSize
  <2>7. n = IF c.verdict = "APPROVED_REDUCED_SIZE" /\ full > 0 THEN part ELSE full
    <3>1. ~ (c.entry - c.stop <= 0)
      BY <1>1, <1>5
    <3>2. QED
      BY <3>1 DEF PositionSize
  <2> HIDE DEF full, part, money, reduced
  <2>8. n \in Nat /\ n <= full
    BY <2>4, <2>5, <2>7
  <2>9. c.verdict = "APPROVED_REDUCED_SIZE" => n <= part
    BY <2>4, <2>5, <2>7
  <2>10. n * c.entry <= money
    <3>1. n <= money \div c.entry
      BY <2>3, <2>4, <2>8
    <3>2. n * c.entry \in Nat /\ n * c.entry <= (money \div c.entry) * c.entry
      BY <1>1, <2>3, <2>8, <3>1, Product
    <3>3. (money \div c.entry) * c.entry \in Nat
      BY <1>1, <2>3
    <3>4. QED
      BY <1>3, <2>3, <3>2, <3>3
  <2>11. n * c.entry \in Nat
    BY <1>1, <2>8
  <2>12. 100 * (n * c.entry) <= MaxPerTradePct * Capital
    BY <1>2, <1>3, <2>10, <2>11
  <2>13. QED
    BY <1>5, <2>6, <2>8, <2>9, <2>12 DEF part, reduced
<1>6. QED
  BY <1>4, <1>5

-----------------------------------------------------------------------------
(***************************************************************************)
(* The allocation, candidate by candidate.                                 *)
(***************************************************************************)

Runs == [slots : Nat, cash : Int, sector : [Sectors -> Int], out : Seq(Candidates)]

LEMMA SizedFacts ==
  ASSUME NEW c \in Candidates, Riskless(c), NEW run \in Runs, NEW n, n = Sized(c, run)
  PROVE  /\ n \in Nat /\ n <= PositionSize(c)
         /\ n > 0 => run.slots > 0
         /\ n > 0 /\ SectorOf[c.symbol] # Unknown =>
              run.sector[SectorOf[c.symbol]] + n * c.entry <= CapOfSector
<1> DEFINE full   == PositionSize(c)
           taken  == run.sector[SectorOf[c.symbol]]
           left   == Max({0, CapOfSector - taken})
           room   == left \div c.entry
           fits   == SectorOf[c.symbol] = Unknown \/ taken + full * c.entry <= CapOfSector
<1>1. full \in Nat
  BY SizeFacts
<1>2. c.symbol \in Symbols /\ SectorOf[c.symbol] \in Sectors /\ c.entry \in Nat \ {0}
  BY DEF Candidates, Sectors
<1>3. taken \in Int /\ run.slots \in Nat
  BY <1>2 DEF Runs
<1>4. CapOfSector \in Int
  <2>1. MaxSectorPct * Capital \in Nat
    BY MoneyAssumption
  <2>2. QED
    BY <2>1 DEF CapOfSector
<1>5. left \in Nat /\ (left = 0 \/ left = CapOfSector - taken)
  <2> DEFINE rest == CapOfSector - taken
  <2>1. rest \in Int /\ 0 \in Int
    BY <1>3, <1>4
  <2> HIDE DEF rest
  <2>2. Max({0, rest}) \in {0, rest} /\ Max({0, rest}) >= 0 /\ Max({0, rest}) >= rest
    BY <2>1, MaxOfTwo, Zenon
  <2>3. Max({0, rest}) \in Nat /\ (Max({0, rest}) = 0 \/ Max({0, rest}) = rest)
    BY <2>1, <2>2
  <2>4. QED
    BY <2>3 DEF rest
<1>6. n = IF run.slots = 0 \/ full * c.entry > run.cash THEN 0
          ELSE IF fits THEN full ELSE Min({full, room})
  BY DEF Sized
<1> HIDE DEF left, taken
<1>7. room \in Nat /\ room * c.entry <= left
  BY <1>2, <1>5, Quotient
<1> HIDE DEF full, room
<1>8. /\ Min({full, room}) \in Nat /\ Min({full, room}) <= full /\ Min({full, room}) <= room
  <2>1. full \in Int /\ room \in Int
    BY <1>1, <1>7
  <2>2. /\ Min({full, room}) \in {full, room}
        /\ Min({full, room}) <= full /\ Min({full, room}) <= room
    BY <2>1, MinOfTwo, Zenon
  <2>3. QED
    BY <1>1, <1>7, <2>2
<1> DEFINE trimmed == Min({full, room})
<1>9. trimmed \in Nat /\ trimmed <= full /\ trimmed <= room
  BY <1>8
<1> HIDE DEF trimmed
<1>10. n \in Nat /\ n <= full
  BY <1>1, <1>6, <1>9 DEF trimmed
<1>11. n > 0 => run.slots > 0
  BY <1>3, <1>6
<1>12. ASSUME n > 0, SectorOf[c.symbol] # Unknown
       PROVE  taken + n * c.entry <= CapOfSector
  <2>1. CASE fits
    <3>1. n = full
      BY <1>6, <1>12, <2>1
    <3>2. QED
      BY <1>12, <2>1, <3>1
  <2>2. CASE ~ fits
    <3> HIDE DEF fits
    <3>1. n = trimmed
      BY <1>6, <1>12, <2>2 DEF trimmed
    <3>2. n * c.entry \in Nat /\ n * c.entry <= room * c.entry
      BY <1>2, <1>7, <1>9, <3>1, Product
    <3>3. n * c.entry > 0
      BY <1>2, <1>10, <1>12
    <3>4. room * c.entry \in Nat
      BY <1>2, <1>7
    <3>5. n * c.entry <= left
      BY <1>5, <1>7, <3>2, <3>4
    <3>6. left = CapOfSector - taken
      BY <1>5, <3>2, <3>3, <3>5
    <3>7. QED
      BY <1>3, <1>4, <3>2, <3>5, <3>6
  <2>3. QED
    BY <2>1, <2>2
<1>13. QED
  BY <1>10, <1>11, <1>12 DEF full, taken

WithSize(c, n, st) == [c EXCEPT !.qty = n, !.state = st]

\* What the allocation makes of a candidate.
Treated(d, c) ==
  \/ d = NoCapital(c)
  \/ \E n \in Nat \ {0} :
       n <= PositionSize(c) /\ d = WithSize(c, n, "ALLOCATED")

SameIdea(d, c) ==
  /\ d.symbol = c.symbol /\ d.verdict = c.verdict /\ d.entry = c.entry
  /\ d.stop = c.stop /\ d.score = c.score

LEMMA Resized ==
  ASSUME NEW c \in Candidates, NEW n \in Nat, NEW st \in States
  PROVE  /\ WithSize(c, n, st) \in Candidates
         /\ SameIdea(WithSize(c, n, st), c)
         /\ WithSize(c, n, st).qty = n /\ WithSize(c, n, st).state = st
<1> DEFINE d == [c EXCEPT !.qty = n, !.state = st]
<1>1. DOMAIN c = {"symbol", "strategy", "conf", "rr", "entry", "stop", "score",
                  "verdict", "qty", "state"}
  BY DEF Candidates
<1>2. d.qty = n /\ d.state = st
  BY <1>1
<1>3. d.symbol = c.symbol /\ d.entry = c.entry /\ d.stop = c.stop
  BY <1>1
<1>4. d.score = c.score /\ d.verdict = c.verdict
  BY <1>1
<1>5. d \in Candidates
  BY DEF Candidates
<1>6. WithSize(c, n, st) = d
  BY DEF WithSize
<1> HIDE DEF d
<1>7. QED
  BY <1>2, <1>3, <1>4, <1>5, <1>6 DEF SameIdea

LEMMA TreatedFacts ==
  ASSUME NEW c \in Candidates, NEW d, Treated(d, c)
  PROVE  /\ d \in Candidates
         /\ SameIdea(d, c)
         /\ d.state = "ALLOCATED" => d.qty > 0 /\ d.qty <= PositionSize(c)
<1>1. CASE d = NoCapital(c)
  <2>1. d = WithSize(c, 0, "APPROVED_NO_CAPITAL")
    BY <1>1 DEF NoCapital, WithSize
  <2>2. 0 \in Nat /\ "APPROVED_NO_CAPITAL" \in States
    BY DEF States
  <2>3. d \in Candidates /\ SameIdea(d, c) /\ d.state = "APPROVED_NO_CAPITAL"
    BY <2>1, <2>2, Resized
  <2>4. QED
    BY <2>3
<1>2. ASSUME NEW n \in Nat \ {0}, n <= PositionSize(c), d = WithSize(c, n, "ALLOCATED")
      PROVE  /\ d \in Candidates
             /\ SameIdea(d, c)
             /\ d.state = "ALLOCATED" => d.qty > 0 /\ d.qty <= PositionSize(c)
  <2>1. n \in Nat /\ n > 0 /\ "ALLOCATED" \in States
    BY DEF States
  <2>2. d \in Candidates /\ SameIdea(d, c) /\ d.qty = n
    BY <1>2, <2>1, Resized
  <2>3. QED
    BY <1>2, <2>1, <2>2
<1>3. QED
  BY <1>1, <1>2 DEF Treated

Bought(out) == {c \in ToSet(out) : c.state = "ALLOCATED"}

\* What holds after n rounds: what was bought is paid from the slots and counted in
\* its sector, which stays under its cap.
Round(run, n, order, held, seen) ==
  /\ run \in Runs
  /\ Len(run.out) = n
  /\ \A i \in 1..n : Treated(run.out[i], order[i])
  /\ run.slots + Cardinality(Bought(run.out)) = Max({0, MaxPositions - Cardinality(DOMAIN held)})
  /\ \A x \in Sectors \ {Unknown} :
       /\ run.sector[x] = Exposure(held, seen, x) + Spent(Bought(run.out), x)
       /\ InSector(Bought(run.out), x) # {} => run.sector[x] <= CapOfSector

LEMMA PriceTypes ==
  ASSUME NEW cs, IsFiniteSet(cs), cs \subseteq Candidates, NEW x
  PROVE  /\ IsFiniteSet(InSector(cs, x))
         /\ \A c \in InSector(cs, x) : Price[c] \in Int
         /\ \A c \in cs : Price[c] = c.qty * c.entry /\ Price[c] \in Nat
         /\ Spent(cs, x) \in Int
<1>1. IsFiniteSet(InSector(cs, x)) /\ InSector(cs, x) \subseteq cs
  BY FS_Subset DEF InSector
<1>2. \A c \in cs : Price[c] = c.qty * c.entry
  BY DEF Price, Cost
<1>3. \A c \in cs : c.qty \in Nat /\ c.entry \in Nat
  BY DEF Candidates
<1>4. \A c \in cs : Price[c] \in Nat
  <2> SUFFICES ASSUME NEW c \in cs PROVE Price[c] \in Nat
    OBVIOUS
  <2>1. c.qty \in Nat /\ c.entry \in Nat /\ c.entry <= c.entry
    BY <1>3
  <2>2. c.qty * c.entry \in Nat
    BY <2>1, Product
  <2>3. QED
    BY <1>2, <2>2
<1>5. \A c \in InSector(cs, x) : Price[c] \in Int
  BY <1>1, <1>4
<1>6. Spent(cs, x) \in Int
  BY <1>1, <1>5, SumInt DEF Spent
<1>7. QED
  BY <1>1, <1>2, <1>4, <1>5, <1>6

\* Buying one more adds its price to its sector and to no other.
LEMMA SpentMore ==
  ASSUME NEW cs, IsFiniteSet(cs), cs \subseteq Candidates, NEW d \in Candidates, d \notin cs,
         NEW x
  PROVE  Spent(cs \cup {d}, x) = IF SectorOf[d.symbol] = x
                                 THEN d.qty * d.entry + Spent(cs, x) ELSE Spent(cs, x)
<1>1. IsFiniteSet(cs \cup {d}) /\ cs \cup {d} \subseteq Candidates
  BY FS_AddElement
<1>2. /\ IsFiniteSet(InSector(cs, x))
      /\ \A c \in InSector(cs \cup {d}, x) : Price[c] \in Int
      /\ Price[d] = d.qty * d.entry /\ Price[d] \in Nat
  BY <1>1, PriceTypes
<1>3. CASE SectorOf[d.symbol] = x
  <2>1. InSector(cs \cup {d}, x) = InSector(cs, x) \cup {d} /\ d \notin InSector(cs, x)
    BY <1>3 DEF InSector
  <2>2. \A c \in InSector(cs, x) \cup {d} : Price[c] \in Int
    BY <1>2, <2>1
  <2>3. SumFunctionOnSet(Price, InSector(cs, x) \cup {d})
          = Price[d] + SumFunctionOnSet(Price, InSector(cs, x))
    BY <1>2, <2>1, <2>2, SumAdd
  <2>4. QED
    BY <1>2, <1>3, <2>1, <2>3 DEF Spent
<1>4. CASE SectorOf[d.symbol] # x
  <2>1. InSector(cs \cup {d}, x) = InSector(cs, x)
    BY <1>4 DEF InSector
  <2>2. QED
    BY <1>4, <2>1 DEF Spent
<1>5. QED
  BY <1>3, <1>4

LEMMA BoughtFinite ==
  ASSUME NEW out \in Seq(Candidates)
  PROVE  /\ IsFiniteSet(ToSet(out)) /\ ToSet(out) \subseteq Candidates
         /\ IsFiniteSet(Bought(out)) /\ Bought(out) \subseteq Candidates
<1>1. DOMAIN out = 1..Len(out) /\ Len(out) \in Nat
  OBVIOUS
<1>2. IsFiniteSet(DOMAIN out)
  BY <1>1, FS_Interval
<1>3. IsFiniteSet({out[i] : i \in DOMAIN out})
  BY <1>2, ImageFinite
<1>4. ToSet(out) \subseteq Candidates
  BY <1>1 DEF ToSet
<1>5. IsFiniteSet(ToSet(out))
  BY <1>3 DEF ToSet
<1>6. QED
  BY <1>4, <1>5, FS_Subset DEF Bought

LEMMA BoughtMore ==
  ASSUME NEW out \in Seq(Candidates), NEW d \in Candidates
  PROVE  /\ Append(out, d) \in Seq(Candidates) /\ Len(Append(out, d)) = Len(out) + 1
         /\ \A i \in 1..Len(out) : Append(out, d)[i] = out[i]
         /\ Append(out, d)[Len(out) + 1] = d
         /\ Bought(Append(out, d)) =
              IF d.state = "ALLOCATED" THEN Bought(out) \cup {d} ELSE Bought(out)
<1>1. /\ Append(out, d) \in Seq(Candidates) /\ Len(Append(out, d)) = Len(out) + 1
      /\ \A i \in 1..Len(out) : Append(out, d)[i] = out[i]
      /\ Append(out, d)[Len(out) + 1] = d
  OBVIOUS
<1>2. DOMAIN Append(out, d) = 1..(Len(out) + 1) /\ DOMAIN out = 1..Len(out) /\ Len(out) \in Nat
  OBVIOUS
<1>3. ToSet(Append(out, d)) = ToSet(out) \cup {d}
  <2>1. \A i \in 1..(Len(out) + 1) : i = Len(out) + 1 \/ i \in 1..Len(out)
    BY <1>2
  <2>2. \A i \in 1..Len(out) : i \in 1..(Len(out) + 1)
    BY <1>2
  <2>3. Len(out) + 1 \in 1..(Len(out) + 1)
    BY <1>2
  <2>4. QED
    BY <1>1, <1>2, <2>1, <2>2, <2>3, Zenon DEF ToSet
<1>4. QED
  BY <1>1, <1>3 DEF Bought

\* The two outcomes of a round.
LEMMA FundedCases ==
  ASSUME NEW c \in Candidates, Riskless(c), NEW run \in Runs, NEW n, n = Sized(c, run)
  PROVE  /\ n \in Nat
         /\ n = 0 => Funded(c, run) = [run EXCEPT !.out = Append(run.out, NoCapital(c))]
         /\ n # 0 => Funded(c, run) =
              [slots |-> run.slots - 1,
               cash |-> run.cash - n * c.entry,
               sector |-> [run.sector EXCEPT ![SectorOf[c.symbol]]
                             = run.sector[SectorOf[c.symbol]] + n * c.entry],
               out |-> Append(run.out, WithSize(c, n, "ALLOCATED"))]
<1> DEFINE d == [c EXCEPT !.qty = Sized(c, run), !.state = "ALLOCATED"]
<1>1. n \in Nat
  BY SizedFacts
<1>2. d = WithSize(c, n, "ALLOCATED")
  BY DEF WithSize
<1>3. "ALLOCATED" \in States
  BY DEF States
<1>4. d.qty = n /\ d.entry = c.entry
  BY <1>1, <1>2, <1>3, Resized DEF SameIdea
<1>5. Funded(c, run) =
        IF d.qty <= 0 THEN [run EXCEPT !.out = Append(run.out, NoCapital(c))]
        ELSE [slots |-> run.slots - 1, cash |-> run.cash - d.qty * d.entry,
              sector |-> [run.sector EXCEPT ![SectorOf[c.symbol]]
                            = run.sector[SectorOf[c.symbol]] + d.qty * d.entry],
              out |-> Append(run.out, d)]
  BY DEF Funded, Cost
<1> HIDE DEF d
<1>6. n = 0 => d.qty <= 0
  BY <1>1, <1>4
<1>7. n # 0 => ~ (d.qty <= 0)
  BY <1>1, <1>4
<1>8. QED
  BY <1>1, <1>2, <1>4, <1>5, <1>6, <1>7

LEMMA FundedNext ==
  ASSUME NEW order \in Seq(Candidates), OnePerSymbol(order),
         \A i \in DOMAIN order : Riskless(order[i]),
         NEW held, NEW seen, \A x \in Sectors : Exposure(held, seen, x) \in Int,
         NEW n \in 1..Len(order), NEW run, Round(run, n - 1, order, held, seen)
  PROVE  Round(Funded(order[n], run), n, order, held, seen)
<1> DEFINE c == order[n]
           m == Sized(c, run)
           e == Funded(c, run)
           sec == SectorOf[c.symbol]
<1>1. c \in Candidates /\ Riskless(c) /\ run \in Runs
  BY DEF Round
<1>2. /\ run.out \in Seq(Candidates) /\ run.slots \in Nat /\ run.cash \in Int
      /\ run.sector \in [Sectors -> Int] /\ Len(run.out) = n - 1 /\ n - 1 \in Nat
  BY <1>1 DEF Round, Runs
<1>3. c.symbol \in Symbols /\ sec \in Sectors /\ c.entry \in Nat \ {0}
  BY <1>1 DEF Candidates, Sectors
<1>4. \A i \in 1..(n - 1) : Treated(run.out[i], order[i])
  BY DEF Round
<1>5. \A d \in Candidates : d.symbol = c.symbol => d \notin ToSet(run.out)
  <2> SUFFICES ASSUME NEW d \in Candidates, d.symbol = c.symbol, NEW i \in DOMAIN run.out,
                      d = run.out[i]
               PROVE  FALSE
    BY DEF ToSet
  <2>1. i \in 1..(n - 1)
    BY <1>2
  <2>2. i \in DOMAIN order /\ n \in DOMAIN order /\ i # n
    BY <2>1
  <2>3. order[i] \in Candidates
    BY <2>2
  <2>4. run.out[i].symbol = order[i].symbol
    BY <1>4, <2>1, <2>3, TreatedFacts DEF SameIdea
  <2>5. QED
    BY <2>2, <2>4 DEF OnePerSymbol
<1>6. IsFiniteSet(Bought(run.out)) /\ Bought(run.out) \subseteq Candidates
  BY <1>2, BoughtFinite
<1>7. Cardinality(Bought(run.out)) \in Nat
  BY <1>6, FS_CardinalityType
<1>8. \A i \in 1..n : i = n \/ i \in 1..(n - 1)
  BY <1>2
<1>9. run.slots + Cardinality(Bought(run.out)) = Max({0, MaxPositions - Cardinality(DOMAIN held)})
  BY DEF Round
<1>10. \A x \in Sectors \ {Unknown} :
         /\ run.sector[x] = Exposure(held, seen, x) + Spent(Bought(run.out), x)
         /\ InSector(Bought(run.out), x) # {} => run.sector[x] <= CapOfSector
  BY DEF Round
<1>11. m \in Nat
  BY <1>1, SizedFacts
<1>12. CASE m = 0
  <2>1. e = [run EXCEPT !.out = Append(run.out, NoCapital(c))]
    BY <1>1, <1>12, FundedCases
  <2>2. Treated(NoCapital(c), c)
    BY DEF Treated
  <2>3. NoCapital(c) \in Candidates
    BY <1>1, <2>2, TreatedFacts
  <2>4. NoCapital(c).state = "APPROVED_NO_CAPITAL"
    <3>1. NoCapital(c) = WithSize(c, 0, "APPROVED_NO_CAPITAL")
      BY DEF NoCapital, WithSize
    <3>2. 0 \in Nat /\ "APPROVED_NO_CAPITAL" \in States
      BY DEF States
    <3>3. QED
      BY <1>1, <3>1, <3>2, Resized
  <2> HIDE DEF c, e
  <2>5. /\ Append(run.out, NoCapital(c)) \in Seq(Candidates)
        /\ Len(Append(run.out, NoCapital(c))) = n
        /\ \A i \in 1..(n - 1) : Append(run.out, NoCapital(c))[i] = run.out[i]
        /\ Append(run.out, NoCapital(c))[n] = NoCapital(c)
        /\ Bought(Append(run.out, NoCapital(c))) = Bought(run.out)
    BY <1>2, <2>3, <2>4, BoughtMore
  <2>6. /\ e \in Runs /\ e.slots = run.slots /\ e.sector = run.sector
        /\ e.out = Append(run.out, NoCapital(c))
    BY <1>1, <2>1, <2>5 DEF Runs
  <2>7. \A i \in 1..n : Treated(e.out[i], order[i])
    BY <1>4, <1>8, <2>2, <2>5, <2>6 DEF c
  <2>8. Round(e, n, order, held, seen)
    BY <1>9, <1>10, <2>5, <2>6, <2>7 DEF Round
  <2>9. QED
    BY <2>8 DEF e, c
<1>13. CASE m # 0
  <2> DEFINE d == WithSize(c, m, "ALLOCATED")
  <2>1. e = [slots |-> run.slots - 1,
             cash |-> run.cash - m * c.entry,
             sector |-> [run.sector EXCEPT ![sec] = run.sector[sec] + m * c.entry],
             out |-> Append(run.out, d)]
    BY <1>1, <1>13, FundedCases
  <2>2. m > 0 /\ m \in Nat \ {0} /\ m * c.entry \in Nat
    BY <1>3, <1>11, <1>13
  <2>3. m <= PositionSize(c) /\ run.slots > 0
    BY <1>1, <2>2, SizedFacts
  <2>4. sec # Unknown => run.sector[sec] + m * c.entry <= CapOfSector
    BY <1>1, <2>2, SizedFacts
  <2>5. Treated(d, c)
    BY <2>2, <2>3 DEF Treated
  <2>6. "ALLOCATED" \in States
    BY DEF States
  <2>7. /\ d \in Candidates /\ d.symbol = c.symbol /\ d.entry = c.entry /\ d.qty = m
        /\ d.state = "ALLOCATED"
    BY <1>1, <1>11, <2>6, Resized DEF SameIdea
  <2>8. d \notin ToSet(run.out)
    BY <1>5, <2>7
  <2> HIDE DEF c, e, d, m
  <2>9. /\ Append(run.out, d) \in Seq(Candidates)
        /\ Len(Append(run.out, d)) = n
        /\ \A i \in 1..(n - 1) : Append(run.out, d)[i] = run.out[i]
        /\ Append(run.out, d)[n] = d
        /\ Bought(Append(run.out, d)) = Bought(run.out) \cup {d}
    BY <1>2, <2>7, BoughtMore
  <2>10. /\ e.slots = run.slots - 1 /\ e.cash = run.cash - m * c.entry
         /\ e.sector = [run.sector EXCEPT ![sec] = run.sector[sec] + m * c.entry]
         /\ e.out = Append(run.out, d)
    BY <2>1
  <2>11. e \in Runs
    <3>1. run.slots - 1 \in Nat
      BY <1>2, <2>3
    <3>2. run.cash - m * c.entry \in Int
      BY <1>2, <2>2
    <3>3. run.sector[sec] + m * c.entry \in Int
      BY <1>2, <1>3, <2>2
    <3>4. [run.sector EXCEPT ![sec] = run.sector[sec] + m * c.entry] \in [Sectors -> Int]
      BY <1>2, <3>3
    <3>5. QED
      BY <2>1, <2>9, <3>1, <3>2, <3>4 DEF Runs
  <2>12. \A i \in 1..n : Treated(e.out[i], order[i])
    BY <1>4, <1>8, <2>5, <2>9, <2>10 DEF c
  <2>13. d \notin Bought(run.out)
    BY <2>8 DEF Bought
  <2>14. e.slots + Cardinality(Bought(e.out))
           = Max({0, MaxPositions - Cardinality(DOMAIN held)})
    <3>1. Cardinality(Bought(run.out) \cup {d}) = Cardinality(Bought(run.out)) + 1
      BY <1>6, <2>13, FS_AddElement
    <3>2. Cardinality(Bought(e.out)) = Cardinality(Bought(run.out)) + 1
      BY <2>9, <2>10, <3>1
    <3> DEFINE k == Cardinality(Bought(run.out))
               l == run.slots
    <3>3. k \in Nat /\ l \in Nat
      BY <1>2, <1>7
    <3>4. e.slots = l - 1 /\ Cardinality(Bought(e.out)) = k + 1
      BY <2>10, <3>2
    <3> HIDE DEF k, l
    <3>5. (l - 1) + (k + 1) = l + k
      BY ONLY <3>3
    <3>6. e.slots + Cardinality(Bought(e.out)) = l + k
      BY <3>4, <3>5
    <3>7. QED
      BY <1>9, <3>6 DEF k, l
  <2>15. ASSUME NEW x \in Sectors \ {Unknown}
         PROVE  /\ e.sector[x] = Exposure(held, seen, x) + Spent(Bought(e.out), x)
                /\ InSector(Bought(e.out), x) # {} => e.sector[x] <= CapOfSector
    <3>1. Spent(Bought(run.out) \cup {d}, x)
            = IF SectorOf[d.symbol] = x THEN d.qty * d.entry + Spent(Bought(run.out), x)
              ELSE Spent(Bought(run.out), x)
      BY <1>6, <2>7, <2>13, SpentMore
    <3>2. Bought(e.out) = Bought(run.out) \cup {d}
      BY <2>9, <2>10
    <3>3. Spent(Bought(run.out), x) \in Int /\ Exposure(held, seen, x) \in Int
      BY <1>6, PriceTypes
    <3>4. /\ run.sector[x] = Exposure(held, seen, x) + Spent(Bought(run.out), x)
          /\ InSector(Bought(run.out), x) # {} => run.sector[x] <= CapOfSector
      BY <1>10
    <3>5. CASE sec = x
      <4>1. Spent(Bought(e.out), x) = m * c.entry + Spent(Bought(run.out), x)
        BY <2>7, <3>1, <3>2, <3>5
      <4>2. e.sector[x] = run.sector[x] + m * c.entry
        BY <1>2, <1>3, <2>10, <3>5
      <4>3. e.sector[x] = Exposure(held, seen, x) + Spent(Bought(e.out), x)
        BY <2>2, <3>3, <3>4, <4>1, <4>2
      <4>4. e.sector[x] <= CapOfSector
        BY <2>4, <3>5, <4>2
      <4>5. QED
        BY <4>3, <4>4
    <3>6. CASE sec # x
      <4>1. Spent(Bought(e.out), x) = Spent(Bought(run.out), x)
        BY <2>7, <3>1, <3>2, <3>6
      <4>2. e.sector[x] = run.sector[x]
        BY <1>2, <1>3, <2>10, <3>6
      <4>3. InSector(Bought(e.out), x) = InSector(Bought(run.out), x)
        BY <2>7, <3>2, <3>6 DEF InSector
      <4>4. QED
        BY <3>4, <4>1, <4>2, <4>3
    <3>7. QED
      BY <3>5, <3>6
  <2>16. Len(e.out) = n
    BY <2>9, <2>10
  <2>17. Round(e, n, order, held, seen)
    BY <2>11, <2>12, <2>14, <2>15, <2>16 DEF Round
  <2>18. QED
    BY <2>17 DEF e, c
<1>14. QED
  BY <1>12, <1>13

\* Funded as a function, for the loop.
Step(order) ==
  [p \in (1..Len(order)) \X Runs |-> Funded(order[p[1]], p[2])]

FirstRun(held, seen) ==
  [slots |-> Max({0, MaxPositions - Cardinality(DOMAIN held)}),
   cash |-> Capital,
   sector |-> [x \in Sectors |-> Exposure(held, seen, x)],
   out |-> <<>>]

LEMMA FirstRound ==
  ASSUME NEW order \in Seq(Candidates), NEW held, NEW seen, IsFiniteSet(DOMAIN held),
         \A x \in Sectors : Exposure(held, seen, x) \in Int
  PROVE  Round(FirstRun(held, seen), 0, order, held, seen)
<1> DEFINE r == FirstRun(held, seen)
           rest == MaxPositions - Cardinality(DOMAIN held)
<1>1. rest \in Int /\ 0 \in Int
  BY FS_CardinalityType, MoneyAssumption
<1>2. Max({0, rest}) \in Nat
  <2> HIDE DEF rest
  <2>1. Max({0, rest}) \in {0, rest} /\ Max({0, rest}) >= 0
    BY <1>1, MaxOfTwo, Zenon
  <2>2. QED
    BY <1>1, <2>1
<1> HIDE DEF rest
<1>3. /\ r.slots = Max({0, rest}) /\ r.out = <<>> /\ r.cash = Capital
      /\ r.sector = [x \in Sectors |-> Exposure(held, seen, x)]
  BY DEF FirstRun, rest
<1>4. r \in Runs
  <2>1. <<>> \in Seq(Candidates) /\ Capital \in Int
    BY MoneyAssumption
  <2>2. [x \in Sectors |-> Exposure(held, seen, x)] \in [Sectors -> Int]
    OBVIOUS
  <2>3. QED
    BY <1>2, <2>1, <2>2 DEF Runs, FirstRun, rest
<1> HIDE DEF r
<1>5. Len(<<>>) = 0 /\ 1..0 = {} /\ DOMAIN <<>> = 1..0
  OBVIOUS
<1>6. Bought(r.out) = {}
  BY <1>3, <1>5 DEF Bought, ToSet
<1>7. Cardinality(Bought(r.out)) = 0
  BY <1>6, FS_EmptySet
<1>8. \A x : Spent(Bought(r.out), x) = 0 /\ InSector(Bought(r.out), x) = {}
  <2>1. \A x : InSector(Bought(r.out), x) = {}
    BY <1>6 DEF InSector
  <2>2. QED
    BY <2>1, SumEmpty DEF Spent
<1>9. r.slots + Cardinality(Bought(r.out)) = Max({0, rest})
  BY <1>2, <1>3, <1>7
<1>10. \A x \in Sectors \ {Unknown} :
         /\ r.sector[x] = Exposure(held, seen, x) + Spent(Bought(r.out), x)
         /\ InSector(Bought(r.out), x) # {} => r.sector[x] <= CapOfSector
  BY <1>3, <1>8
<1>11. \A i \in 1..0 : Treated(r.out[i], order[i])
  BY <1>5
<1>12. Len(r.out) = 0
  BY <1>3, <1>5
<1>13. QED
  BY <1>4, <1>9, <1>10, <1>11, <1>12 DEF Round, rest, r

\* allocate: the last round is what it returns.
LEMMA AllocationFacts ==
  ASSUME NEW order \in Seq(Candidates), OnePerSymbol(order),
         \A i \in DOMAIN order : Riskless(order[i]),
         NEW held, NEW seen, IsFiniteSet(DOMAIN held),
         \A x \in Sectors : Exposure(held, seen, x) \in Int
  PROVE  \E run : Round(run, Len(order), order, held, seen) /\ Allocation(order, held, seen) = run.out
<1> DEFINE n == Len(order)
           Recursion(f) == f = [i \in 0..n |-> IF i = 0 THEN FirstRun(held, seen)
                                               ELSE Funded(order[i], f[i - 1])]
           G == [i \in 0..n |-> {run \in Runs : Round(run, i, order, held, seen)}]
<1>1. n \in Nat
  OBVIOUS
<1>2. \A i \in 1..n, run \in Runs : Step(order)[<<i, run>>] = Funded(order[i], run)
  BY DEF Step
<1>3. \A i \in 0..n : \A run : Round(run, i, order, held, seen) => run \in G[i]
  BY DEF Round
<1>4. \A i \in 0..n : \A run \in G[i] : Round(run, i, order, held, seen) /\ run \in Runs
  OBVIOUS
<1>5. Round(FirstRun(held, seen), 0, order, held, seen)
  BY FirstRound
<1>6. \A i \in 1..n : i \in 0..n /\ i - 1 \in 0..n /\ i # 0
  BY <1>1
<1>7. \A i \in 1..n : \A run : Round(run, i - 1, order, held, seen)
                             => Round(Funded(order[i], run), i, order, held, seen)
  BY FundedNext
<1> HIDE DEF G, n
<1>8. PICK f : Loop(f, n, FirstRun(held, seen), Step(order))
  BY <1>1, LoopExists
<1>9. \A i \in 0..n : f[i] = IF i = 0 THEN FirstRun(held, seen) ELSE Step(order)[<<i, f[i - 1]>>]
  BY <1>8 DEF Loop
<1>10. 0 \in 0..n /\ n \in 0..n
  BY <1>1
<1>11. f[0] \in G[0]
  BY <1>3, <1>5, <1>9, <1>10
<1>12. ASSUME NEW i \in 1..n, f[i - 1] \in G[i - 1] PROVE f[i] \in G[i]
  <2>1. i \in 0..n /\ i - 1 \in 0..n /\ i # 0
    BY <1>6
  <2>2. Round(f[i - 1], i - 1, order, held, seen) /\ f[i - 1] \in Runs
    BY <1>4, <1>12, <2>1
  <2>3. f[i] = Funded(order[i], f[i - 1])
    BY <1>2, <1>9, <2>1, <2>2
  <2>4. QED
    BY <1>3, <1>7, <2>1, <2>2, <2>3
<1>13. \A i \in 0..n : f[i] \in G[i]
  BY <1>1, <1>11, <1>12, LoopStays
<1>14. \A i \in 0..n : f[i] = IF i = 0 THEN FirstRun(held, seen) ELSE Funded(order[i], f[i - 1])
  <2> SUFFICES ASSUME NEW i \in 0..n, i # 0 PROVE f[i] = Funded(order[i], f[i - 1])
    BY <1>9
  <2>1. i \in 1..n
    BY <1>1
  <2>2. f[i - 1] \in Runs
    BY <1>4, <1>6, <1>13, <2>1
  <2>3. QED
    BY <1>2, <1>9, <2>1, <2>2
<1>15. f = [i \in 0..n |-> f[i]]
  BY <1>8 DEF Loop
<1>16. \E g : Recursion(g)
  BY <1>14, <1>15
<1> DEFINE run == CHOOSE g : Recursion(g)
<1>17. Recursion(run)
  <2> HIDE DEF Recursion
  <2>1. QED
    BY <1>16
<1>18. Allocation(order, held, seen) = run[n].out
  BY DEF Allocation, FirstRun, n
<1> HIDE DEF run
<1>19. \A i \in 0..n : run[i] = IF i = 0 THEN FirstRun(held, seen) ELSE Funded(order[i], run[i - 1])
  BY <1>17
<1>20. run[0] \in G[0]
  BY <1>3, <1>5, <1>10, <1>19
<1>21. \A i \in 1..n : run[i - 1] \in G[i - 1] => run[i] \in G[i]
  BY <1>3, <1>4, <1>6, <1>7, <1>19
<1>22. \A i \in 0..n : run[i] \in G[i]
  BY <1>1, <1>20, <1>21, LoopStays
<1>23. Round(run[n], n, order, held, seen)
  BY <1>4, <1>10, <1>22
<1>24. QED
  BY <1>18, <1>23 DEF n

-----------------------------------------------------------------------------
(***************************************************************************)
(* MemoryInv is inductive: one lemma for each action.                      *)
(***************************************************************************)

LEMMA OverFacts ==
  ASSUME NEW rows, NEW table
  PROVE  /\ DOMAIN Over(rows, table) = DOMAIN rows \cup DOMAIN table
         /\ \A id \in DOMAIN rows : Over(rows, table)[id] = rows[id]
         /\ \A id \in DOMAIN table \ DOMAIN rows : Over(rows, table)[id] = table[id]
         /\ Over(rows, table) = [id \in DOMAIN Over(rows, table) |-> Over(rows, table)[id]]
BY DEF Over

LEMMA WrittenFacts ==
  ASSUME NEW rows, NEW lost
  PROVE  /\ DOMAIN Written(rows, lost) = (DOMAIN rows \ lost) \cup DOMAIN decisions
         /\ \A id \in DOMAIN rows \ lost : Written(rows, lost)[id] = rows[id]
         /\ \A id \in DOMAIN decisions \ (DOMAIN rows \ lost) :
              Written(rows, lost)[id] = decisions[id]
         /\ Written(rows, lost) =
              [id \in DOMAIN Written(rows, lost) |-> Written(rows, lost)[id]]
BY DEF Written, Over

\* What MemoryAgrees says, by the two kinds of rows.
LEMMA AgreesMeans ==
  MemoryAgrees <=>
    /\ \A s \in DOMAIN positions : <<positions[s].scan, s>> \in DOMAIN decisions =>
         HeldSound(<<positions[s].scan, s>>, decisions[<<positions[s].scan, s>>])
    /\ \A id \in DOMAIN decisions : RowSound(id, decisions[id])
BY DEF MemoryAgrees, HeldSound, RowSound

LEMMA MemoryInit == Init => MemoryInv
<1> SUFFICES ASSUME Init PROVE MemoryInv
  OBVIOUS
<1>1. DOMAIN <<>> = {} /\ <<>> \in Seq(Candidates)
  OBVIOUS
<1>2. /\ DOMAIN positions \subseteq Symbols
      /\ positions \in [DOMAIN positions -> [qty : Nat, entry : Nat, scan : {Earlier}]]
  BY RestoredAssumption DEF Init
<1>3. positions \in [DOMAIN positions -> Holdings]
  BY <1>2 DEF Earlier, Holdings
<1>4. PICK ids \in SUBSET {<<Earlier, s>> : s \in DOMAIN positions} :
        decisions \in [ids -> [outcome : {"PENDING", "CLOSED"}, results : {0}, reviews : {0}]]
  BY DEF Init
<1>5. \A id \in DOMAIN decisions :
        /\ id[1] = Earlier /\ id \in Nat \X Symbols
        /\ decisions[id] \in [outcome : {"PENDING", "CLOSED"}, results : {0}, reviews : {0}]
  BY <1>2, <1>4 DEF Earlier
<1>6. decisions \in [DOMAIN decisions -> Rows]
  BY <1>4, <1>5 DEF Rows, Outcomes
<1>7. WellFormed
  BY <1>1, <1>2, <1>3, <1>5, <1>6 DEF Init, WellFormed, Stages
<1>8. Handed
  BY DEF Init, Handed
<1>9. \A s \in DOMAIN positions : positions[s].scan = Earlier
  BY <1>2
<1>10. scans = Earlier /\ Earlier <= Earlier /\ stage = "idle"
  BY DEF Init, Earlier
<1>11. Dated
  BY <1>5, <1>9, <1>10 DEF Dated
<1>12. \A id \in DOMAIN decisions :
         HeldSound(id, decisions[id]) /\ RowSound(id, decisions[id])
  BY <1>5 DEF HeldSound, RowSound
<1>13. MemoryAgrees
  BY <1>12, AgreesMeans
<1>14. QED
  BY <1>7, <1>8, <1>11, <1>13 DEF MemoryInv

LEMMA MemoryUnchanged ==
  MemoryInv /\ UNCHANGED vars => MemoryInv'
BY DEF MemoryInv, vars, listVars, deskVars, WellFormed, Handed, Dated, MemoryAgrees,
       Screened, Riskless, Marked, Pending, Approved, OnePerSymbol

LEMMA MemoryDownload ==
  ASSUME MemoryInv, NEW frames \in Markets, Download(frames)
  PROVE  MemoryInv'
<1> USE DEF MemoryInv, Download, listVars, deskVars
<1>1. DOMAIN frames \subseteq Symbols
  BY MarketsAssumption
<1>2. scans \in Nat /\ scans' \in Nat /\ scans <= scans'
  BY DEF WellFormed
<1>3. WellFormed'
  BY <1>1, <1>2 DEF WellFormed, Stages
<1>4. Handed'
  BY DEF Handed
<1>5. stage' # "idle" => scans < scans'
  BY <1>2
<1>6. /\ \A id \in DOMAIN decisions : id[1] \in Nat
      /\ \A s \in DOMAIN positions : positions[s].scan \in Nat
  BY DEF WellFormed, Holdings
<1>7. Dated'
  BY <1>2, <1>5, <1>6 DEF Dated
<1>8. MemoryAgrees'
  BY DEF MemoryAgrees
<1>9. QED
  BY <1>3, <1>4, <1>7, <1>8

LEMMA MemoryObserve ==
  MemoryInv /\ Observe => MemoryInv'
<1> SUFFICES ASSUME MemoryInv, Observe PROVE MemoryInv'
  OBVIOUS
<1> USE DEF MemoryInv, Observe, deskVars
<1>1. WellFormed'
  BY DEF WellFormed, Stages
<1>2. Handed' /\ Dated' /\ MemoryAgrees'
  BY DEF Handed, Dated, MemoryAgrees
<1>3. QED
  BY <1>1, <1>2

\* The pipeline ends or breaks off: only the lists are lost.
LEMMA MemoryStopped ==
  ASSUME MemoryInv, Stopped, UNCHANGED <<deskVars, scans>>
  PROVE  MemoryInv'
<1> USE DEF MemoryInv, Stopped, deskVars
<1>1. WellFormed'
  <2>1. DOMAIN <<>> = {} /\ <<>> \in Seq(Candidates)
    OBVIOUS
  <2>2. QED
    BY <2>1 DEF WellFormed, Stages
<1>2. Handed' /\ Dated' /\ MemoryAgrees'
  BY DEF Handed, Dated, MemoryAgrees
<1>3. QED
  BY <1>1, <1>2

LEMMA MemoryExit ==
  ASSUME MemoryInv, NEW s \in DOMAIN positions, Exit(s)
  PROVE  MemoryInv'
<1> DEFINE id == <<positions[s].scan, s>>
<1> USE DEF MemoryInv
<1>1. PICK lost \in SUBSET {"outcome", "review"} :
        decisions' = Over(Reviewed(id, lost), decisions)
  BY DEF Exit
<1>2. /\ stage = "idle" /\ stage' = "idle"
      /\ positions' = [t \in DOMAIN positions \ {s} |-> positions[t]]
      /\ UNCHANGED <<market, stage, listVars, waiting, scans>>
  BY DEF Exit
<1>3. /\ DOMAIN positions' = DOMAIN positions \ {s}
      /\ \A t \in DOMAIN positions' : positions'[t] = positions[t] /\ t # s
  BY <1>2
<1>4. /\ DOMAIN decisions' = DOMAIN decisions
      /\ \A i \in DOMAIN decisions : i # id => decisions'[i] = decisions[i]
      /\ id \in DOMAIN decisions => decisions'[id] = Reviewed(id, lost)[id]
      /\ decisions' = [i \in DOMAIN decisions |-> decisions'[i]]
  <2> DEFINE rows == Reviewed(id, lost)
  <2>1. DOMAIN rows = {id} \cap DOMAIN decisions
    BY DEF Reviewed
  <2> HIDE DEF rows, id
  <2>2. /\ DOMAIN Over(rows, decisions) = DOMAIN decisions
        /\ \A i \in DOMAIN decisions : i # id => Over(rows, decisions)[i] = decisions[i]
        /\ id \in DOMAIN decisions => Over(rows, decisions)[id] = rows[id]
    BY <2>1 DEF Over
  <2>3. Over(rows, decisions) = [i \in DOMAIN decisions |-> Over(rows, decisions)[i]]
    BY <2>2, OverFacts
  <2>4. QED
    BY <1>1, <2>2, <2>3 DEF rows
<1>5. ASSUME id \in DOMAIN decisions
      PROVE  /\ decisions'[id] \in Rows
             /\ RowSound(id, decisions'[id])
  <2> DEFINE old == decisions[id]
             row == decisions'[id]
  <2>1. old \in Rows /\ HeldSound(id, old)
    BY <1>5, AgreesMeans DEF WellFormed
  <2>2. /\ old.results = 0 /\ old.reviews = 0
        /\ id[1] # Earlier => old.outcome # "CLOSED"
    BY <2>1 DEF HeldSound
  <2>3. row = [outcome |-> IF "review" \in lost THEN old.outcome ELSE "CLOSED",
               results |-> old.results + (IF "outcome" \in lost THEN 0 ELSE 1),
               reviews |-> old.reviews + (IF "review" \in lost THEN 0 ELSE 1)]
    BY <1>4, <1>5 DEF Reviewed
  <2> HIDE DEF old, row
  <2>4. /\ row.outcome = IF "review" \in lost THEN old.outcome ELSE "CLOSED"
        /\ row.results = IF "outcome" \in lost THEN 0 ELSE 1
        /\ row.reviews = IF "review" \in lost THEN 0 ELSE 1
    BY <2>1, <2>2, <2>3
  <2>5. row \in Rows
    <3>1. row.outcome \in Outcomes
      BY <2>1, <2>4 DEF Outcomes, Rows
    <3>2. row.results \in Nat /\ row.reviews \in Nat
      BY <2>4
    <3>3. row = [outcome |-> row.outcome, results |-> row.results, reviews |-> row.reviews]
      BY <2>3
    <3>4. QED
      BY <3>1, <3>2, <3>3 DEF Rows
  <2>6. RowSound(id, row)
    BY <2>2, <2>4 DEF RowSound
  <2>7. QED
    BY <2>5, <2>6 DEF row
<1>6. WellFormed'
  <2>1. decisions' \in [DOMAIN decisions' -> Rows] /\ DOMAIN decisions' \subseteq Nat \X Symbols
    BY <1>4, <1>5 DEF WellFormed
  <2>2. positions' \in [DOMAIN positions' -> Holdings] /\ DOMAIN positions' \subseteq Symbols
    BY <1>2, <1>3 DEF WellFormed
  <2>3. QED
    BY <1>2, <2>1, <2>2 DEF WellFormed, listVars
<1>7. Handed'
  BY <1>2 DEF Handed
<1>8. Dated'
  BY <1>2, <1>3, <1>4 DEF Dated
<1>9. MemoryAgrees'
  <2>1. \A t \in DOMAIN positions' : <<positions'[t].scan, t>> # id
    BY <1>3
  <2> HIDE DEF id
  <2>2. \A i \in DOMAIN decisions' : RowSound(i, decisions'[i])
    BY <1>4, <1>5, AgreesMeans
  <2>3. \A t \in DOMAIN positions' : <<positions'[t].scan, t>> \in DOMAIN decisions' =>
          HeldSound(<<positions'[t].scan, t>>, decisions'[<<positions'[t].scan, t>>])
    BY <1>3, <1>4, <2>1, AgreesMeans
  <2>4. QED
    BY <2>2, <2>3 DEF MemoryAgrees, HeldSound, RowSound
<1>10. QED
  BY <1>6, <1>7, <1>8, <1>9

LEMMA TailFacts ==
  ASSUME NEW q \in Seq(Candidates), q # <<>>, OnePerSymbol(q)
  PROVE  /\ Head(q) \in Candidates /\ Head(q) \in ToSet(q)
         /\ Tail(q) \in Seq(Candidates) /\ OnePerSymbol(Tail(q))
         /\ ToSet(Tail(q)) = ToSet(q) \ {Head(q)}
         /\ \A c \in ToSet(Tail(q)) : c.symbol # Head(q).symbol
<1> DEFINE t == Tail(q)
<1>1. Len(q) \in Nat \ {0} /\ DOMAIN q = 1..Len(q) /\ Head(q) = q[1] /\ 1 \in DOMAIN q
  OBVIOUS
<1>2. /\ t \in Seq(Candidates) /\ Len(t) = Len(q) - 1 /\ DOMAIN t = 1..(Len(q) - 1)
      /\ \A i \in 1..(Len(q) - 1) : t[i] = q[i + 1]
  BY <1>1
<1> HIDE DEF t
<1>3. \A i \in DOMAIN t : i + 1 \in DOMAIN q /\ i + 1 # 1 /\ i \in Int /\ t[i] = q[i + 1]
  BY <1>1, <1>2
<1>4. OnePerSymbol(t)
  <2> SUFFICES ASSUME NEW i \in DOMAIN t, NEW j \in DOMAIN t, t[i].symbol = t[j].symbol
               PROVE  i = j
    BY DEF OnePerSymbol
  <2>1. i + 1 = j + 1
    BY <1>3 DEF OnePerSymbol
  <2>2. QED
    BY <1>3, <2>1
<1>5. \A i \in DOMAIN t : t[i].symbol # q[1].symbol
  BY <1>1, <1>3 DEF OnePerSymbol
<1>6. \A k \in DOMAIN q : k = 1 \/ (k - 1 \in DOMAIN t /\ t[k - 1] = q[k])
  BY <1>1, <1>2
<1>7. ToSet(t) = ToSet(q) \ {q[1]}
  <2>1. ASSUME NEW c \in ToSet(t) PROVE c \in ToSet(q) /\ c # q[1]
    BY <1>3, <1>5 DEF ToSet
  <2>2. ASSUME NEW c \in ToSet(q), c # q[1] PROVE c \in ToSet(t)
    BY <1>6, <2>2 DEF ToSet
  <2>3. QED
    BY <2>1, <2>2
<1>8. \A c \in ToSet(t) : c.symbol # q[1].symbol
  BY <1>5 DEF ToSet
<1>9. Head(q) \in Candidates /\ Head(q) \in ToSet(q)
  BY <1>1 DEF ToSet
<1>10. QED
  BY <1>1, <1>2, <1>4, <1>7, <1>8, <1>9 DEF t

LEMMA MemoryEnter ==
  ASSUME MemoryInv, NEW marketOpen \in BOOLEAN, NEW filled \in BOOLEAN,
         Enter(marketOpen, filled)
  PROVE  MemoryInv'
<1> DEFINE c == Head(queue)
           new == [s \in {c.symbol} |-> [qty |-> c.qty, entry |-> c.entry, scan |-> scans]]
<1> USE DEF MemoryInv
<1>1. /\ stage = "paper" /\ queue # <<>> /\ queue' = Tail(queue)
      /\ UNCHANGED <<market, stage, known, focus, candidates, final, decisions, scans, faults>>
  BY DEF Enter
<1>2. \/ /\ filled /\ c.symbol \notin DOMAIN positions
         /\ positions' = Over(new, positions) /\ waiting' = waiting \ {c.symbol}
      \/ /\ ~ filled /\ waiting' = waiting \cup {c.symbol} /\ positions' = positions
  BY DEF Enter
<1>3. queue \in Seq(Candidates) /\ OnePerSymbol(queue) /\ \A d \in ToSet(queue) : Pending(d)
  BY <1>1 DEF WellFormed, Handed
<1>4. /\ c \in Candidates /\ c \in ToSet(queue)
      /\ queue' \in Seq(Candidates) /\ OnePerSymbol(queue')
      /\ ToSet(queue') \subseteq ToSet(queue)
  BY <1>1, <1>3, TailFacts
<1>5. c.symbol \in Symbols /\ c.qty \in Nat /\ c.entry \in Nat /\ Pending(c)
  BY <1>3, <1>4 DEF Candidates
<1> HIDE DEF c
<1>6. scans \in Nat
  BY DEF WellFormed
<1>7. filled =>
        /\ DOMAIN positions' = DOMAIN positions \cup {c.symbol}
        /\ \A s \in DOMAIN positions : positions'[s] = positions[s] /\ s # c.symbol
        /\ positions'[c.symbol] = [qty |-> c.qty, entry |-> c.entry, scan |-> scans]
        /\ positions' = [s \in DOMAIN positions' |-> positions'[s]]
  BY <1>2 DEF Over
<1>8. positions' \in [DOMAIN positions' -> Holdings] /\ DOMAIN positions' \subseteq Symbols
  <2>1. CASE filled
    <3>1. positions'[c.symbol] \in Holdings
      BY <1>5, <1>6, <1>7, <2>1 DEF Holdings
    <3>2. \A s \in DOMAIN positions' : positions'[s] \in Holdings
      BY <1>7, <2>1, <3>1 DEF WellFormed
    <3>3. QED
      BY <1>5, <1>7, <2>1, <3>2 DEF WellFormed
  <2>2. CASE ~ filled
    BY <1>2, <2>2 DEF WellFormed
  <2>3. QED
    BY <2>1, <2>2
<1>9. WellFormed'
  BY <1>1, <1>2, <1>4, <1>5, <1>8 DEF WellFormed
<1>10. Handed'
  <2>1. ToSet(queue') \subseteq ToSet(final')
    BY <1>1, <1>4 DEF Handed
  <2>2. \A d \in ToSet(queue') : Pending(d)'
    BY <1>1, <1>3, <1>4 DEF Pending
  <2>3. QED
    BY <1>1, <1>4, <2>1, <2>2 DEF Handed, OnePerSymbol
<1>11. \A s \in DOMAIN positions' :
         \/ s \in DOMAIN positions /\ positions'[s] = positions[s]
         \/ s = c.symbol /\ positions'[s].scan = scans
  BY <1>2, <1>7
<1>12. Dated'
  BY <1>1, <1>6, <1>11 DEF Dated
<1>13. MemoryAgrees'
  <2>1. ASSUME NEW s \in DOMAIN positions', <<positions'[s].scan, s>> \in DOMAIN decisions
        PROVE  HeldSound(<<positions'[s].scan, s>>, decisions[<<positions'[s].scan, s>>])
    <3>1. CASE s \in DOMAIN positions /\ positions'[s] = positions[s]
      BY <2>1, <3>1, AgreesMeans
    <3>2. CASE s = c.symbol /\ positions'[s].scan = scans
      <4> DEFINE row == decisions[<<scans, s>>]
      <4>1. row.outcome = "PENDING" /\ row.results = 0
        BY <1>5, <2>1, <3>2 DEF Pending
      <4>2. row \in Rows /\ RowSound(<<scans, s>>, row)
        BY <2>1, <3>2, AgreesMeans DEF WellFormed
      <4> HIDE DEF row
      <4>3. row.reviews = 0
        BY <4>1, <4>2 DEF Rows, RowSound
      <4>4. HeldSound(<<scans, s>>, row)
        BY <4>1, <4>3 DEF HeldSound
      <4>5. QED
        BY <3>2, <4>4 DEF row
    <3>3. QED
      BY <1>11, <3>1, <3>2
  <2>2. \A id \in DOMAIN decisions : RowSound(id, decisions[id])
    BY AgreesMeans
  <2>3. QED
    BY <1>1, <2>1, <2>2 DEF MemoryAgrees, HeldSound, RowSound
<1>14. QED
  BY <1>9, <1>10, <1>12, <1>13

LEMMA FocusInside ==
  ASSUME DOMAIN market \subseteq Symbols, NEW ranking \in Rankings(market, Eligible(market)),
         NEW must
  PROVE  /\ ranking \in Seq(Symbols) /\ ToSet(ranking) \subseteq Eligible(market)
         /\ Focus(market, ranking, must, FocusLimit, MinOpportunity) \subseteq ToSet(ranking)
<1>1. Eligible(market) \subseteq Symbols /\ IsFiniteSet(Eligible(market))
  BY SymbolsAssumption, FS_Subset DEF Eligible
<1>2. Cardinality(Eligible(market)) \in Nat
  BY <1>1, FS_CardinalityType
<1>3. ranking \in [1..Cardinality(Eligible(market)) -> Eligible(market)]
  BY DEF Rankings, SetToSeqs
<1>4. ranking \in Seq(Symbols)
  BY <1>1, <1>2, <1>3
<1>5. ToSet(ranking) \subseteq Eligible(market)
  BY <1>3 DEF ToSet
<1> DEFINE T == {s \in ToSet(ranking) \ must : OpportunityScore(market[s]) >= MinOpportunity}
           rest == Kept(ranking, T)
<1>6. \A i \in DOMAIN rest : rest[i] \in ToSet(ranking)
  <2> HIDE DEF T
  <2>1. QED
    BY <1>4, KeptFacts
<1>7. Focus(market, ranking, must, FocusLimit, MinOpportunity) \subseteq ToSet(ranking)
  BY <1>6 DEF Focus
<1>8. QED
  BY <1>4, <1>5, <1>7

LEMMA CandidateFacts ==
  ASSUME NEW s \in Symbols, NEW idea \in Ideas, NEW evaluated \in BOOLEAN
  PROVE  /\ Candidate(s, idea, evaluated) \in Candidates
         /\ Screened(Candidate(s, idea, evaluated))
         /\ Candidate(s, idea, evaluated).symbol = s
<1> DEFINE c == [symbol |-> s, strategy |-> idea.strategy, conf |-> idea.conf,
                 rr |-> idea.rr, entry |-> idea.entry, stop |-> idea.stop,
                 score |-> 0, verdict |-> NoVerdict, qty |-> 0, state |-> "SCREENED"]
           n == IF evaluated THEN PositionSize(c) ELSE 0
<1>1. /\ idea.conf \in Int /\ idea.rr \in Int /\ idea.entry \in Nat \ {0} /\ idea.stop \in Int
  BY IdeasAssumption
<1>2. c \in Candidates
  BY <1>1 DEF Candidates, Verdicts, States
<1>3. Riskless(c)
  BY DEF Riskless
<1>4. PositionSize(c) \in Nat /\ (c.entry <= c.stop => PositionSize(c) = 0)
  <2> HIDE DEF c
  <2>1. QED
    BY <1>2, <1>3, SizeFacts
<1>5. n \in Nat /\ (idea.entry <= idea.stop => n = 0)
  BY <1>4
<1>6. Candidate(s, idea, evaluated) = [c EXCEPT !.qty = n]
  BY DEF Candidate
<1> HIDE DEF n
<1>7. [c EXCEPT !.qty = n]
        = [symbol |-> s, strategy |-> idea.strategy, conf |-> idea.conf,
           rr |-> idea.rr, entry |-> idea.entry, stop |-> idea.stop,
           score |-> 0, verdict |-> NoVerdict, qty |-> n, state |-> "SCREENED"]
  OBVIOUS
<1>8. QED
  BY <1>1, <1>5, <1>6, <1>7 DEF Screened, Riskless, Candidates, Verdicts, States

LEMMA MemoryScreen ==
  MemoryInv /\ Screen => MemoryInv'
<1> SUFFICES ASSUME MemoryInv, Screen PROVE MemoryInv'
  OBVIOUS
<1> USE DEF MemoryInv
<1>1. /\ stage = "screen" /\ stage' = "consensus"
      /\ known' = known \cup focus'
      /\ UNCHANGED <<market, final, queue, deskVars, scans, faults>>
  BY DEF Screen
<1>2. focus' \subseteq Symbols
  <2>1. PICK ranking \in Rankings(market, Eligible(market)) :
          focus' = Focus(market, ranking, Mandatory, FocusLimit, MinOpportunity)
    BY DEF Screen, FocusChoices
  <2>2. DOMAIN market \subseteq Symbols
    BY DEF WellFormed
  <2>3. focus' \subseteq ToSet(ranking) /\ ToSet(ranking) \subseteq Eligible(market)
    BY <2>1, <2>2, FocusInside
  <2>4. QED
    BY <2>2, <2>3 DEF Eligible
<1>3. \A c \in candidates' : c \in Candidates /\ Screened(c) /\ c.symbol \in focus'
  <2>1. PICK found \in [focus' -> SUBSET Ideas], whole \in [focus' -> BOOLEAN] :
          candidates' = UNION {{Candidate(s, idea, whole[s]) : idea \in found[s]} :
                                 s \in focus'}
    BY DEF Screen
  <2>2. \A s \in focus', idea \in Ideas :
          /\ Candidate(s, idea, whole[s]) \in Candidates
          /\ Screened(Candidate(s, idea, whole[s]))
          /\ Candidate(s, idea, whole[s]).symbol = s
    BY <1>2, CandidateFacts
  <2>3. \A s \in focus' : \A idea \in found[s] : idea \in Ideas
    OBVIOUS
  <2>4. QED
    BY <2>1, <2>2, <2>3
<1>4. WellFormed'
  BY <1>1, <1>2, <1>3 DEF WellFormed, Stages, deskVars
<1>5. Handed'
  BY <1>1, <1>3 DEF Handed, Screened, Riskless
<1>6. Dated' /\ MemoryAgrees'
  BY <1>1 DEF Dated, MemoryAgrees, deskVars
<1>7. QED
  BY <1>4, <1>5, <1>6

LEMMA DecidedFacts ==
  ASSUME NEW c \in Candidates, Screened(c), NEW f, NEW score \in Int, NEW omen, NEW held, NEW seen
  PROVE  LET d == Decided(c, f, held, seen, score, omen)
         IN  /\ d \in Candidates /\ d.symbol = c.symbol
             /\ Riskless(d) /\ d.state # "ALLOCATED"
             /\ Approved(d) /\ Elevated(f) => d.verdict = "APPROVED_REDUCED_SIZE"
<1> DEFINE d == Decided(c, f, held, seen, score, omen)
           v == Verdict(c, f, held, seen, omen)
           st == CASE v = "VETOED" -> "VETOED"
                   [] v = "APPROVED_REDUCED_SIZE" -> "READY"
                   [] OTHER -> c.state
<1>1. DOMAIN c = {"symbol", "strategy", "conf", "rr", "entry", "stop", "score",
                  "verdict", "qty", "state"}
  BY DEF Candidates
<1>2. c.verdict = NoVerdict /\ c.state = "SCREENED" /\ (c.entry <= c.stop => c.qty = 0)
  BY DEF Screened, Riskless
<1>3. v \in {"VETOED", "APPROVED", "APPROVED_REDUCED_SIZE"}
  BY DEF Verdict
<1>4. Elevated(f) => v # "APPROVED"
  BY DEF Verdict
<1>5. CASE score < FastThreshold
  <2>1. d = [c EXCEPT !.score = score, !.state = "AI_REJECTED"]
    BY <1>5 DEF Decided
  <2>2. d \in Candidates
    BY <2>1 DEF Candidates, States
  <2>3. d.symbol = c.symbol /\ d.entry = c.entry /\ d.stop = c.stop /\ d.qty = c.qty
    BY <1>1, <2>1
  <2>4. d.verdict = c.verdict /\ d.state = "AI_REJECTED"
    BY <1>1, <2>1
  <2> HIDE DEF d
  <2>5. ~ Approved(d)
    BY <1>2, <2>4 DEF Approved, Approvals, NoVerdict
  <2>6. QED
    BY <1>2, <2>2, <2>3, <2>4, <2>5 DEF Riskless, d
<1>6. CASE ~ (score < FastThreshold)
  <2>1. st \in {"VETOED", "READY", "SCREENED"}
    BY <1>2, <1>3
  <2>2. d = [c EXCEPT !.score = score, !.verdict = v, !.state = st]
    BY <1>6 DEF Decided
  <2> HIDE DEF v, st, d
  <2>3. d \in Candidates
    BY <1>3, <2>1, <2>2 DEF Candidates, States, Verdicts, Approvals
  <2>4. d.symbol = c.symbol /\ d.entry = c.entry /\ d.stop = c.stop /\ d.qty = c.qty
    BY <1>1, <2>2
  <2>5. d.verdict = v /\ d.state = st
    BY <1>1, <2>2
  <2>6. Riskless(d)
    BY <1>2, <2>4 DEF Riskless
  <2>7. Approved(d) /\ Elevated(f) => d.verdict = "APPROVED_REDUCED_SIZE"
    BY <1>3, <1>4, <2>5 DEF Approved, Approvals
  <2>8. d.state # "ALLOCATED"
    BY <2>1, <2>5
  <2>9. QED
    BY <2>3, <2>4, <2>6, <2>7, <2>8 DEF d
<1>7. QED
  BY <1>5, <1>6

LEMMA MemoryConsensus ==
  MemoryInv /\ Consensus => MemoryInv'
<1> SUFFICES ASSUME MemoryInv, Consensus PROVE MemoryInv'
  OBVIOUS
<1> USE DEF MemoryInv
<1>1. /\ stage = "consensus" /\ stage' = "portfolio" /\ candidates' = {} /\ focus' = {}
      /\ UNCHANGED <<market, known, queue, positions, waiting, scans>>
  BY DEF Consensus
<1>2. PICK score \in [CandidateSymbols -> Scores], omen \in [CandidateSymbols -> Omens],
           best \in {f \in [CandidateSymbols -> candidates] : \A s \in CandidateSymbols :
                       f[s] \in Best({c \in candidates : c.symbol = s})} :
        LET decided == {Decided(best[s], market[s], positions, known, score[s], omen[s]) :
                          s \in CandidateSymbols}
        IN \E order \in FinalOrders(decided), lost \in SUBSET DOMAIN Recorded(decided) :
             /\ final' = order
             /\ decisions' = Written(Recorded(decided), lost)
  BY DEF Consensus
<1> DEFINE dec(s) == Decided(best[s], market[s], positions, known, score[s], omen[s])
           decided == {dec(s) : s \in CandidateSymbols}
<1>3. PICK order \in FinalOrders(decided), lost \in SUBSET DOMAIN Recorded(decided) :
        final' = order /\ decisions' = Written(Recorded(decided), lost)
  BY <1>2
<1>4. \A s \in CandidateSymbols :
        /\ best[s] \in candidates /\ best[s] \in Candidates /\ best[s].symbol = s
        /\ Screened(best[s]) /\ score[s] \in Int /\ s \in known
  <2>1. \A c \in candidates : c \in Candidates /\ Screened(c) /\ c.symbol \in known
    BY <1>1 DEF WellFormed, Handed
  <2>2. \A s \in CandidateSymbols : best[s].symbol = s
    BY DEF Best
  <2>3. QED
    BY <2>1, <2>2, ScoresAssumption
<1>5. \A s \in CandidateSymbols :
        /\ dec(s) \in Candidates /\ dec(s).symbol = s /\ s \in known
        /\ Riskless(dec(s)) /\ dec(s).state # "ALLOCATED" /\ Marked(dec(s))
  <2> SUFFICES ASSUME NEW s \in CandidateSymbols
               PROVE  /\ dec(s) \in Candidates /\ dec(s).symbol = s /\ s \in known
                      /\ Riskless(dec(s)) /\ dec(s).state # "ALLOCATED" /\ Marked(dec(s))
    OBVIOUS
  <2>1. /\ dec(s) \in Candidates /\ dec(s).symbol = best[s].symbol
        /\ Riskless(dec(s)) /\ dec(s).state # "ALLOCATED"
        /\ Approved(dec(s)) /\ Elevated(market[s]) => dec(s).verdict = "APPROVED_REDUCED_SIZE"
    BY <1>4, DecidedFacts
  <2> HIDE DEF dec
  <2>2. QED
    BY <1>4, <2>1 DEF Marked
<1> HIDE DEF dec
<1>6. \A c \in decided :
        /\ c \in Candidates /\ Riskless(c) /\ c.state # "ALLOCATED" /\ Marked(c)
        /\ c.symbol \in known
        /\ \A d \in decided : c.symbol = d.symbol => c = d
  BY <1>5
<1> DEFINE rows == Recorded(decided)
<1>7. /\ \A id \in DOMAIN rows : id[1] = scans /\ id[2] \in Symbols /\ id = <<id[1], id[2]>>
      /\ \A id \in DOMAIN rows :
           /\ rows[id].results = 0 /\ rows[id].reviews = 0
           /\ rows[id].outcome \in {"PENDING", "NO_TRADE"}
           /\ rows[id] = [outcome |-> rows[id].outcome, results |-> rows[id].results,
                          reviews |-> rows[id].reviews]
      /\ \A c \in decided : Approved(c) /\ <<scans, c.symbol>> \in DOMAIN rows =>
           rows[<<scans, c.symbol>>].outcome = "PENDING"
  <2> HIDE DEF decided
  <2>1. DOMAIN rows = {<<scans, c.symbol>> : c \in {d \in decided : d.verdict # NoVerdict}}
    BY DEF Recorded
  <2>2. \A id \in DOMAIN rows :
          rows[id] = [outcome |-> IF \E c \in decided : c.symbol = id[2] /\ c.verdict = "VETOED"
                                  THEN "NO_TRADE" ELSE "PENDING",
                      results |-> 0, reviews |-> 0]
    BY DEF Recorded
  <2>3. \A c \in decided : c.symbol \in Symbols
    BY <1>6 DEF Candidates
  <2>4. \A id \in DOMAIN rows : id[1] = scans /\ id[2] \in Symbols /\ id = <<id[1], id[2]>>
    BY <2>1, <2>3
  <2>5. ASSUME NEW c \in decided, Approved(c), <<scans, c.symbol>> \in DOMAIN rows
        PROVE  rows[<<scans, c.symbol>>].outcome = "PENDING"
    <3>1. c.verdict # "VETOED"
      BY <2>5 DEF Approved, Approvals
    <3>2. ~ \E d \in decided : d.symbol = c.symbol /\ d.verdict = "VETOED"
      BY <1>6, <3>1
    <3>3. QED
      BY <2>2, <2>5, <3>2
  <2> HIDE DEF rows
  <2>6. \A id \in DOMAIN rows :
           /\ rows[id].results = 0 /\ rows[id].reviews = 0
           /\ rows[id].outcome \in {"PENDING", "NO_TRADE"}
           /\ rows[id] = [outcome |-> rows[id].outcome, results |-> rows[id].results,
                          reviews |-> rows[id].reviews]
    BY <2>2
  <2>7. QED
    BY <2>4, <2>5, <2>6
<1>8. scans \in Nat /\ \A id \in DOMAIN decisions : id[1] < scans
  BY <1>1 DEF WellFormed, Dated
<1> HIDE DEF decided, rows
<1>9. /\ DOMAIN decisions' = (DOMAIN rows \ lost) \cup DOMAIN decisions
      /\ \A id \in DOMAIN rows \ lost : decisions'[id] = rows[id]
      /\ \A id \in DOMAIN decisions : id \notin DOMAIN rows /\ decisions'[id] = decisions[id]
      /\ decisions' = [id \in DOMAIN decisions' |-> decisions'[id]]
  <2>1. \A id \in DOMAIN decisions : id \notin DOMAIN rows
    BY <1>7, <1>8
  <2>2. decisions' = Written(rows, lost)
    BY <1>3 DEF rows
  <2>3. /\ DOMAIN Written(rows, lost) = (DOMAIN rows \ lost) \cup DOMAIN decisions
        /\ \A id \in DOMAIN rows \ lost : Written(rows, lost)[id] = rows[id]
        /\ \A id \in DOMAIN decisions \ (DOMAIN rows \ lost) :
             Written(rows, lost)[id] = decisions[id]
        /\ Written(rows, lost) =
             [id \in DOMAIN Written(rows, lost) |-> Written(rows, lost)[id]]
    BY WrittenFacts, Zenon
  <2>4. QED
    BY <2>1, <2>2, <2>3, Zenon
<1>10. /\ order \in Seq(Candidates) /\ ToSet(order) \subseteq decided /\ OnePerSymbol(order)
  <2>1. /\ order \in [1..Cardinality(decided) -> decided]
        /\ \A i, j \in 1..Cardinality(decided) : i # j => order[i] # order[j]
    BY DEF FinalOrders, SetToSeqs
  <2>2. IsFiniteSet(decided)
    <3> DEFINE sym == [c \in decided |-> c.symbol]
    <3>1. sym \in [decided -> Symbols]
      BY <1>6 DEF Candidates
    <3>2. \A c, d \in decided : sym[c] = sym[d] => c = d
      BY <1>6
    <3> HIDE DEF sym
    <3>3. sym \in Injection(decided, Symbols)
      BY <3>1, <3>2 DEF Injection, IsInjective
    <3>4. QED
      BY <3>3, SymbolsAssumption, FS_Injection
  <2>3. Cardinality(decided) \in Nat
    BY <2>2, FS_CardinalityType
  <2>4. order \in Seq(Candidates) /\ DOMAIN order = 1..Cardinality(decided)
    BY <1>6, <2>1, <2>3
  <2>5. \A i \in DOMAIN order : order[i] \in decided
    BY <2>1, <2>4
  <2>6. OnePerSymbol(order)
    BY <1>6, <2>1, <2>4, <2>5 DEF OnePerSymbol
  <2>7. QED
    BY <2>4, <2>5, <2>6 DEF ToSet
<1>11. \A c \in decided : Approved(c) => Pending(c)'
  <2> SUFFICES ASSUME NEW c \in decided, Approved(c), <<scans, c.symbol>> \in DOMAIN decisions'
               PROVE  /\ decisions'[<<scans, c.symbol>>].outcome = "PENDING"
                      /\ decisions'[<<scans, c.symbol>>].results = 0
    BY <1>1 DEF Pending
  <2> DEFINE id == <<scans, c.symbol>>
  <2>1. id \notin DOMAIN decisions
    BY <1>8
  <2>2. id \in DOMAIN rows \ lost
    BY <1>9, <2>1
  <2>3. QED
    BY <1>7, <1>9, <2>2
<1>12. WellFormed'
  <2>1. \A id \in DOMAIN rows : rows[id] \in Rows /\ id \in Nat \X Symbols
    BY <1>7, <1>8 DEF Rows, Outcomes
  <2>2. \A id \in DOMAIN decisions' : decisions'[id] \in Rows /\ id \in Nat \X Symbols
    BY <1>9, <2>1 DEF WellFormed
  <2>3. decisions' \in [DOMAIN decisions' -> Rows] /\ DOMAIN decisions' \subseteq Nat \X Symbols
    BY <1>9, <2>2
  <2>4. QED
    BY <1>1, <1>3, <1>10, <2>3 DEF WellFormed, Stages
<1>13. Handed'
  <2>1. OnePerSymbol(final)'
    BY <1>3, <1>10 DEF OnePerSymbol
  <2>2. ASSUME NEW c \in ToSet(final')
        PROVE  /\ Riskless(c) /\ Marked(c)' /\ c.state # "ALLOCATED" /\ c.symbol \in known
               /\ Approved(c) => Pending(c)'
    <3>1. c \in decided
      BY <1>3, <1>10, <2>2
    <3>2. QED
      BY <1>1, <1>6, <1>11, <3>1 DEF Marked
  <2>3. QED
    BY <1>1, <2>1, <2>2 DEF Handed, Riskless, Approved
<1>14. Dated'
  <2>1. \A id \in DOMAIN decisions' : id[1] <= scans
    BY <1>7, <1>8, <1>9 DEF Dated
  <2>2. QED
    BY <1>1, <2>1 DEF Dated
<1>15. MemoryAgrees'
  <2>1. \A s \in DOMAIN positions : <<positions[s].scan, s>> \notin DOMAIN rows
    BY <1>1, <1>7, <1>8 DEF Dated
  <2>2. \A id \in DOMAIN decisions' : RowSound(id, decisions'[id])
    <3>1. \A id \in DOMAIN rows : RowSound(id, rows[id])
      BY <1>7 DEF RowSound
    <3>2. QED
      BY <1>9, <3>1, AgreesMeans
  <2>3. ASSUME NEW s \in DOMAIN positions, <<positions[s].scan, s>> \in DOMAIN decisions'
        PROVE  HeldSound(<<positions[s].scan, s>>, decisions'[<<positions[s].scan, s>>])
    BY <1>9, <2>1, <2>3, AgreesMeans
  <2>4. QED
    BY <1>1, <2>2, <2>3 DEF MemoryAgrees, HeldSound, RowSound
<1>16. QED
  BY <1>12, <1>13, <1>14, <1>15

-----------------------------------------------------------------------------
(***************************************************************************)
(* The portfolio stage: what it does to the lists, for the two halves of   *)
(* the invariant.                                                          *)
(***************************************************************************)

LEMMA ExposureInt ==
  ASSUME WellFormed
  PROVE  /\ IsFiniteSet(DOMAIN positions) /\ Cardinality(DOMAIN positions) \in Nat
         /\ \A x : IsFiniteSet({s \in DOMAIN positions : SectorSeen(s, known) = x})
         /\ \A s \in DOMAIN positions : positions[s].qty * positions[s].entry \in Nat
         /\ \A x : Exposure(positions, known, x) \in Int
<1>1. IsFiniteSet(DOMAIN positions) /\ Cardinality(DOMAIN positions) \in Nat
  BY SymbolsAssumption, FS_Subset, FS_CardinalityType DEF WellFormed
<1>2. \A x : IsFiniteSet({s \in DOMAIN positions : SectorSeen(s, known) = x})
  BY <1>1, FS_Subset
<1> DEFINE w == [s \in DOMAIN positions |-> positions[s].qty * positions[s].entry]
<1>3. \A s \in DOMAIN positions : positions[s].qty * positions[s].entry \in Nat
  <2> SUFFICES ASSUME NEW s \in DOMAIN positions
               PROVE  positions[s].qty * positions[s].entry \in Nat
    OBVIOUS
  <2>1. positions[s].qty \in Nat /\ positions[s].entry \in Nat
    BY DEF WellFormed, Holdings
  <2>2. QED
    BY <2>1, Product
<1>4. \A s \in DOMAIN positions : w[s] \in Int
  BY <1>3
<1>5. \A x : Exposure(positions, known, x) \in Int
  <2> SUFFICES ASSUME NEW x PROVE Exposure(positions, known, x) \in Int
    OBVIOUS
  <2> DEFINE S == {s \in DOMAIN positions : SectorSeen(s, known) = x}
  <2>1. IsFiniteSet(S) /\ \A s \in S : w[s] \in Int
    BY <1>2, <1>4
  <2>2. Exposure(positions, known, x) = SumFunctionOnSet(w, S)
    BY DEF Exposure
  <2> HIDE DEF w, S
  <2>3. QED
    BY <2>1, <2>2, SumInt
<1>6. QED
  BY <1>1, <1>2, <1>3, <1>5

\* The final list after the allocation: a candidate is as it was, or as the run has
\* treated it.
FundedList(list, run) ==
  /\ list \in Seq(Candidates) /\ DOMAIN list = DOMAIN final
  /\ \A i \in DOMAIN final :
       \/ list[i] = final[i]
       \/ list[i] \in ToSet(run.out) /\ Treated(list[i], final[i]) /\ Approved(final[i])

LEMMA CapMeansLimit ==
  ASSUME NEW e \in Int
  PROVE  100 * e <= MaxSectorPct * Capital <=> e <= CapOfSector
<1>1. MaxSectorPct * Capital \in Nat
  BY MoneyAssumption
<1> DEFINE m == MaxSectorPct * Capital
<1> HIDE DEF m
<1>2. m \in Nat
  BY <1>1 DEF m
<1>3. 100 * e <= m <=> e <= m \div 100
  BY <1>2
<1>4. QED
  BY <1>3 DEF CapOfSector, m

LEMMA PortfolioFacts ==
  ASSUME Inv, Portfolio
  PROVE  \E run, n, part :
           /\ Round(run, n, part, positions, known)
           /\ FundedList(final', run)
<1>1. /\ WellFormed
      /\ stage = "portfolio" /\ final \in Seq(Candidates) /\ OnePerSymbol(final)
      /\ \A c \in ToSet(final) : Riskless(c)
  BY DEF Inv, MemoryInv, WellFormed, Handed, Portfolio
<1> DEFINE able == {c \in ToSet(final) : Approved(c)}
<1> DEFINE listed(order, k) ==
             [i \in DOMAIN final |->
                IF \E j \in DOMAIN Allocation(SubSeq(order, 1, k), positions, known) :
                     Allocation(SubSeq(order, 1, k), positions, known)[j].symbol = final[i].symbol
                THEN CHOOSE c \in ToSet(Allocation(SubSeq(order, 1, k), positions, known)) :
                       c.symbol = final[i].symbol
                ELSE final[i]]
<1>2. PICK order \in FundingOrders(able) : \E k \in 0..Len(order) : final' = listed(order, k)
  BY DEF Portfolio
<1>3. PICK k \in 0..Len(order) : final' = listed(order, k)
  BY <1>2
<1>4. IsFiniteSet(able) /\ able \subseteq ToSet(final) /\ able \subseteq Candidates
  BY <1>1, BoughtFinite, FS_Subset
<1>5. Cardinality(able) \in Nat
  BY <1>4, FS_CardinalityType
<1>6. \A c, d \in able : c.symbol = d.symbol => c = d
  BY <1>1, <1>4 DEF OnePerSymbol, ToSet
<1>7. /\ order \in [1..Cardinality(able) -> able]
      /\ \A i, j \in 1..Cardinality(able) : i # j => order[i] # order[j]
  BY DEF FundingOrders, SetToSeqs
<1> HIDE DEF able
<1>8. order \in Seq(Candidates) /\ Len(order) = Cardinality(able)
  BY <1>4, <1>5, <1>7
<1> DEFINE part == SubSeq(order, 1, k)
           done == Allocation(part, positions, known)
<1>9. k \in Nat /\ k <= Len(order)
  BY <1>5, <1>8
<1>10. /\ part \in Seq(Candidates) /\ Len(part) = k /\ DOMAIN part = 1..k
      /\ \A i \in 1..k : part[i] = order[i]
  BY <1>8, <1>9
<1>11. \A i \in 1..k : i \in 1..Cardinality(able)
  BY <1>5, <1>8, <1>9
<1> HIDE DEF part
<1>12. \A i \in DOMAIN part : part[i] \in able /\ Riskless(part[i])
  BY <1>1, <1>4, <1>7, <1>10, <1>11
<1>13. OnePerSymbol(part)
  BY <1>6, <1>7, <1>10, <1>11, <1>12 DEF OnePerSymbol
<1>14. /\ IsFiniteSet(DOMAIN positions)
       /\ \A x \in Sectors : Exposure(positions, known, x) \in Int
  BY <1>1, ExposureInt
<1>15. PICK run : Round(run, Len(part), part, positions, known) /\ done = run.out
  BY <1>10, <1>12, <1>13, <1>14, AllocationFacts
<1>16. final' = [i \in DOMAIN final |->
                   IF \E j \in DOMAIN done : done[j].symbol = final[i].symbol
                   THEN CHOOSE c \in ToSet(done) : c.symbol = final[i].symbol
                   ELSE final[i]]
  BY <1>3 DEF part
<1> HIDE DEF done
<1>17. done \in Seq(Candidates) /\ DOMAIN done = DOMAIN part
  BY <1>10, <1>15 DEF Round, Runs
<1>18. ASSUME NEW i \in DOMAIN final
       PROVE  \/ final'[i] = final[i]
              \/ /\ final'[i] \in ToSet(run.out) /\ Treated(final'[i], final[i])
                 /\ Approved(final[i]) /\ final'[i] \in Candidates
  <2>1. CASE ~ \E j \in DOMAIN done : done[j].symbol = final[i].symbol
    BY <1>16, <2>1
  <2>2. CASE \E j \in DOMAIN done : done[j].symbol = final[i].symbol
    <3>1. \E c \in ToSet(done) : c.symbol = final[i].symbol
      BY <2>2 DEF ToSet
    <3>2. final'[i] \in ToSet(done) /\ final'[i].symbol = final[i].symbol
      BY <1>16, <2>2, <3>1
    <3>3. PICK j \in DOMAIN part : final'[i] = done[j]
      BY <1>17, <3>2 DEF ToSet
    <3>4. Treated(final'[i], part[j])
      BY <1>10, <1>15, <3>3 DEF Round
    <3>5. part[j] \in able /\ part[j] \in Candidates
      BY <1>4, <1>12
    <3>6. final'[i] \in Candidates /\ final'[i].symbol = part[j].symbol
      BY <3>4, <3>5, TreatedFacts DEF SameIdea
    <3>7. part[j] \in ToSet(final) /\ Approved(part[j])
      BY <3>5 DEF able
    <3>8. part[j] = final[i]
      BY <1>1, <3>2, <3>6, <3>7 DEF OnePerSymbol, ToSet
    <3>9. QED
      BY <1>15, <3>2, <3>4, <3>6, <3>7, <3>8
  <2>3. QED
    BY <2>1, <2>2
<1>19. DOMAIN final' = DOMAIN final /\ final' = [i \in DOMAIN final |-> final'[i]]
  BY <1>16
<1>20. final' \in Seq(Candidates)
  <2>1. DOMAIN final = 1..Len(final) /\ Len(final) \in Nat
    BY <1>1
  <2>2. \A i \in DOMAIN final : final'[i] \in Candidates
    BY <1>1, <1>18
  <2>3. final' \in [1..Len(final) -> Candidates]
    BY <1>19, <2>1, <2>2
  <2>4. QED
    BY <2>1, <2>3
<1>21. FundedList(final', run)
  BY <1>18, <1>19, <1>20 DEF FundedList
<1>22. QED
  BY <1>15, <1>21

\* What is queued: approved candidates of the final list that the run has bought.
LEMMA QueuedFacts ==
  ASSUME Inv, Portfolio, NEW run, FundedList(final', run)
  PROVE  /\ queue' \in Seq(Candidates)
         /\ OnePerSymbol(final') /\ OnePerSymbol(queue')
         /\ \A d \in ToSet(queue') :
              /\ d \in ToSet(final') /\ Approved(d) /\ d.state = "ALLOCATED"
              /\ d \in Bought(run.out)
              /\ \E c \in ToSet(final) : Treated(d, c) /\ Approved(c)
<1>1. /\ final \in Seq(Candidates) /\ OnePerSymbol(final)
      /\ \A c \in ToSet(final) : c.state # "ALLOCATED"
  BY DEF Inv, MemoryInv, WellFormed, Handed, Portfolio
<1>2. queue' = Selected(final')
  BY DEF Portfolio
<1> DEFINE list == final'
           T == {c \in ToSet(list) : Approved(c) /\ c.state = "ALLOCATED"}
<1>3. /\ list \in Seq(Candidates) /\ DOMAIN list = DOMAIN final
      /\ \A i \in DOMAIN final :
           \/ list[i] = final[i]
           \/ list[i] \in ToSet(run.out) /\ Treated(list[i], final[i]) /\ Approved(final[i])
  BY DEF FundedList
<1>4. queue' = Kept(list, T)
  BY <1>2 DEF Selected
<1> HIDE DEF list
<1>5. \A i \in DOMAIN list : list[i].symbol = final[i].symbol
  <2> SUFFICES ASSUME NEW i \in DOMAIN list PROVE list[i].symbol = final[i].symbol
    OBVIOUS
  <2>1. final[i] \in Candidates
    BY <1>1, <1>3
  <2>2. CASE list[i] = final[i]
    BY <2>2
  <2>3. CASE Treated(list[i], final[i])
    BY <2>1, <2>3, TreatedFacts DEF SameIdea
  <2>4. QED
    BY <1>3, <2>2, <2>3
<1>6. OnePerSymbol(list)
  BY <1>1, <1>3, <1>5 DEF OnePerSymbol
<1> HIDE DEF T
<1> DEFINE q == Kept(list, T)
<1>7. /\ q \in Seq(Candidates)
      /\ \A i \in DOMAIN q : q[i] \in T /\ q[i] \in ToSet(list)
      /\ \A i, j \in DOMAIN q :
           i < j => \E a, b \in DOMAIN list : a < b /\ q[i] = list[a] /\ q[j] = list[b]
  BY <1>3, KeptFacts
<1> HIDE DEF q
<1>8. OnePerSymbol(q)
  <2>1. DOMAIN q = 1..Len(q) /\ DOMAIN list = 1..Len(list)
    BY <1>3, <1>7
  <2>2. \A a, b \in DOMAIN list : a < b => list[a].symbol # list[b].symbol
    <3> SUFFICES ASSUME NEW a \in DOMAIN list, NEW b \in DOMAIN list, a < b
                 PROVE  list[a].symbol # list[b].symbol
      OBVIOUS
    <3>1. a # b
      BY <2>1
    <3>2. QED
      BY <1>6, <3>1 DEF OnePerSymbol
  <2>3. \A i, j \in DOMAIN q : i < j => q[i].symbol # q[j].symbol
    BY <1>7, <2>2
  <2>4. \A i, j \in DOMAIN q : i = j \/ i < j \/ j < i
    BY <2>1
  <2>5. QED
    BY <2>3, <2>4 DEF OnePerSymbol
<1>9. ASSUME NEW d \in ToSet(q)
      PROVE  /\ d \in ToSet(list) /\ Approved(d) /\ d.state = "ALLOCATED"
             /\ d \in Bought(run.out)
             /\ \E c \in ToSet(final) : Treated(d, c) /\ Approved(c)
  <2>1. d \in T
    BY <1>7 DEF ToSet
  <2>2. d \in ToSet(list) /\ Approved(d) /\ d.state = "ALLOCATED"
    BY <2>1 DEF T
  <2>3. PICK i \in DOMAIN list : d = list[i]
    BY <2>2 DEF ToSet
  <2>4. final[i] \in ToSet(final)
    BY <1>3 DEF ToSet
  <2>5. d # final[i]
    BY <1>1, <2>2, <2>4
  <2>6. d \in ToSet(run.out) /\ Treated(d, final[i]) /\ Approved(final[i])
    BY <1>3, <2>3, <2>5
  <2>7. QED
    BY <2>2, <2>4, <2>6 DEF Bought
<1>10. QED
  BY <1>4, <1>6, <1>7, <1>8, <1>9 DEF list, q

LEMMA MemoryPortfolio ==
  Inv /\ Portfolio => MemoryInv'
<1> SUFFICES ASSUME Inv, Portfolio PROVE MemoryInv'
  OBVIOUS
<1> USE DEF MemoryInv
<1>1. /\ stage = "portfolio" /\ stage' = "paper" /\ WellFormed /\ Dated /\ MemoryAgrees
      /\ UNCHANGED <<market, known, focus, candidates, positions, waiting, scans>>
  BY DEF Portfolio, Inv
<1>2. /\ final \in Seq(Candidates) /\ scans \in Nat
      /\ \A c \in ToSet(final) : Approved(c) => Pending(c)
      /\ \A s \in DOMAIN positions : positions[s].scan < scans /\ positions[s].scan \in Nat
  BY <1>1 DEF Inv, WellFormed, Handed, Dated, Holdings
<1>3. PICK run : FundedList(final', run)
  BY PortfolioFacts
<1>4. /\ queue' \in Seq(Candidates) /\ OnePerSymbol(queue')
      /\ \A d \in ToSet(queue') : d \in ToSet(final') /\ Approved(d) /\ d.state = "ALLOCATED"
  BY <1>3, QueuedFacts
<1> DEFINE approved == {c \in ToSet(final') : Approved(c)}
           rows == Settled(approved)
<1>5. PICK lost \in SUBSET DOMAIN rows : decisions' = Written(rows, lost)
  BY DEF Portfolio
<1>6. \A c \in approved : Pending(c) /\ c.symbol \in Symbols
  <2> SUFFICES ASSUME NEW c \in approved PROVE Pending(c) /\ c.symbol \in Symbols
    OBVIOUS
  <2>1. PICK i \in DOMAIN final : c = final'[i]
    BY <1>3 DEF FundedList, ToSet
  <2>2. final[i] \in Candidates /\ final[i] \in ToSet(final)
    BY <1>2 DEF ToSet
  <2>3. CASE c = final[i]
    BY <1>2, <2>2, <2>3 DEF Candidates
  <2>4. CASE Treated(c, final[i]) /\ Approved(final[i])
    <3>1. c.symbol = final[i].symbol
      BY <2>2, <2>4, TreatedFacts DEF SameIdea
    <3>2. QED
      BY <1>2, <2>2, <2>4, <3>1 DEF Pending, Candidates
  <2>5. QED
    BY <1>3, <2>1, <2>3, <2>4 DEF FundedList
<1>7. /\ DOMAIN rows = {<<scans, c.symbol>> : c \in approved} \cap DOMAIN decisions
      /\ \A id \in DOMAIN rows :
           rows[id] = [decisions[id] EXCEPT !.outcome =
                         IF \E c \in approved : c.symbol = id[2] /\ c.state = "ALLOCATED"
                         THEN "PENDING" ELSE "NO_TRADE"]
  BY DEF Settled
<1> HIDE DEF approved, rows
<1>8. ASSUME NEW id \in DOMAIN rows
      PROVE  /\ id \in DOMAIN decisions /\ id[1] = scans
             /\ rows[id] \in Rows /\ rows[id].results = 0 /\ rows[id].reviews = 0
             /\ rows[id].outcome = IF \E c \in approved : c.symbol = id[2] /\ c.state = "ALLOCATED"
                                   THEN "PENDING" ELSE "NO_TRADE"
  <2>1. PICK c \in approved : id = <<scans, c.symbol>>
    BY <1>7
  <2>2. id \in DOMAIN decisions /\ id[1] = scans
    BY <1>7, <2>1
  <2>3. /\ decisions[id] \in Rows /\ decisions[id].results = 0
        /\ decisions[id].outcome = "PENDING"
    BY <1>1, <1>6, <2>1, <2>2 DEF Pending, WellFormed
  <2>4. decisions[id].reviews = 0
    <3>1. decisions[id].reviews \in Nat /\ decisions[id].reviews <= 1
      BY <1>1, <2>2, <2>3, AgreesMeans DEF RowSound, Rows
    <3>2. decisions[id].reviews # 1
      BY <1>1, <2>2, <2>3, AgreesMeans DEF RowSound
    <3>3. QED
      BY <3>1, <3>2
  <2> DEFINE new == IF \E d \in approved : d.symbol = id[2] /\ d.state = "ALLOCATED"
                    THEN "PENDING" ELSE "NO_TRADE"
  <2>5. new \in Outcomes
    BY DEF Outcomes
  <2>6. rows[id] = [decisions[id] EXCEPT !.outcome = new]
    BY <1>7
  <2> HIDE DEF new
  <2>7. /\ rows[id] \in Rows /\ rows[id].outcome = new
        /\ rows[id].results = decisions[id].results /\ rows[id].reviews = decisions[id].reviews
    BY <2>3, <2>5, <2>6 DEF Rows
  <2>8. QED
    BY <2>2, <2>3, <2>4, <2>7 DEF new
<1>9. /\ DOMAIN decisions' = DOMAIN decisions
      /\ \A id \in DOMAIN rows \ lost : decisions'[id] = rows[id]
      /\ \A id \in DOMAIN decisions \ (DOMAIN rows \ lost) : decisions'[id] = decisions[id]
      /\ decisions' = [id \in DOMAIN decisions' |-> decisions'[id]]
  <2>1. /\ DOMAIN Written(rows, lost) = (DOMAIN rows \ lost) \cup DOMAIN decisions
        /\ \A id \in DOMAIN rows \ lost : Written(rows, lost)[id] = rows[id]
        /\ \A id \in DOMAIN decisions \ (DOMAIN rows \ lost) :
             Written(rows, lost)[id] = decisions[id]
        /\ Written(rows, lost) =
             [id \in DOMAIN Written(rows, lost) |-> Written(rows, lost)[id]]
    BY WrittenFacts, Zenon
  <2>2. (DOMAIN rows \ lost) \cup DOMAIN decisions = DOMAIN decisions
    BY <1>8
  <2>3. QED
    BY <1>5, <2>1, <2>2, Zenon
<1>10. WellFormed'
  <2>1. \A id \in DOMAIN decisions' : decisions'[id] \in Rows /\ id \in Nat \X Symbols
    BY <1>1, <1>8, <1>9 DEF WellFormed
  <2>2. decisions' \in [DOMAIN decisions' -> Rows] /\ DOMAIN decisions' \subseteq Nat \X Symbols
    BY <1>9, <2>1
  <2>3. final' \in Seq(Candidates)
    BY <1>3 DEF FundedList
  <2>4. QED
    BY <1>1, <1>4, <2>2, <2>3 DEF WellFormed, Stages
<1>11. Handed'
  <2>1. ASSUME NEW d \in ToSet(queue'), <<scans, d.symbol>> \in DOMAIN decisions'
        PROVE  /\ decisions'[<<scans, d.symbol>>].outcome = "PENDING"
               /\ decisions'[<<scans, d.symbol>>].results = 0
    <3> DEFINE id == <<scans, d.symbol>>
    <3>1. d \in approved /\ d.state = "ALLOCATED"
      BY <1>4 DEF approved
    <3>2. id[2] = d.symbol
      OBVIOUS
    <3> HIDE DEF id
    <3>3. CASE id \in DOMAIN rows \ lost
      BY <1>8, <1>9, <3>1, <3>2, <3>3 DEF id
    <3>4. CASE id \notin DOMAIN rows \ lost
      <4>1. id \in DOMAIN decisions
        BY <1>9, <2>1 DEF id
      <4>2. decisions'[id] = decisions[id]
        BY <1>9, <3>4, <4>1
      <4>3. decisions[id].outcome = "PENDING" /\ decisions[id].results = 0
        BY <1>6, <3>1, <4>1 DEF Pending, id
      <4>4. QED
        BY <4>2, <4>3 DEF id
    <3>5. QED
      BY <3>3, <3>4
  <2>2. \A d \in ToSet(queue') : Pending(d)'
    BY <1>1, <2>1 DEF Pending
  <2>3. ToSet(queue') \subseteq ToSet(final')
    BY <1>4
  <2>4. ASSUME NEW c \in ToSet(final') PROVE c.symbol \in known
    <3>1. PICK i \in DOMAIN final : c = final'[i]
      BY <1>3, <2>4 DEF FundedList, ToSet
    <3>2. final[i] \in Candidates /\ final[i] \in ToSet(final)
      BY <1>2 DEF ToSet
    <3>3. c.symbol = final[i].symbol
      BY <1>3, <3>1, <3>2, TreatedFacts DEF FundedList, SameIdea
    <3>4. QED
      BY <1>1, <3>2, <3>3 DEF Inv, Handed
  <2>5. QED
    BY <1>1, <1>4, <2>2, <2>3, <2>4 DEF Handed, OnePerSymbol
<1>12. Dated'
  BY <1>1, <1>9 DEF Dated
<1>13. MemoryAgrees'
  <2>1. \A id \in DOMAIN decisions : RowSound(id, decisions'[id])
    <3>1. \A id \in DOMAIN rows : RowSound(id, rows[id])
      BY <1>8 DEF RowSound
    <3>2. QED
      BY <1>1, <1>9, <3>1, AgreesMeans
  <2>2. ASSUME NEW s \in DOMAIN positions, <<positions[s].scan, s>> \in DOMAIN decisions
        PROVE  HeldSound(<<positions[s].scan, s>>, decisions'[<<positions[s].scan, s>>])
    <3>1. positions[s].scan # scans
      BY <1>2
    <3>2. <<positions[s].scan, s>> \notin DOMAIN rows
      BY <1>8, <3>1
    <3>3. QED
      BY <1>1, <1>9, <2>2, <3>2, AgreesMeans
  <2>3. QED
    BY <1>1, <1>9, <2>1, <2>2 DEF MemoryAgrees, HeldSound, RowSound
<1>14. QED
  BY <1>10, <1>11, <1>12, <1>13

-----------------------------------------------------------------------------
(***************************************************************************)
(* The limits.                                                             *)
(***************************************************************************)

\* One holding more adds its cost to its sector and to no other.
LEMMA ExposureMore ==
  ASSUME NEW held, IsFiniteSet(DOMAIN held), NEW more, NEW t, t \notin DOMAIN held,
         DOMAIN more = DOMAIN held \cup {t}, \A s \in DOMAIN held : more[s] = held[s],
         \A s \in DOMAIN more : more[s].qty * more[s].entry \in Nat
  PROVE  \A seen, x :
           /\ Exposure(held, seen, x) \in Int
           /\ SectorSeen(t, seen) = x =>
                Exposure(more, seen, x) = more[t].qty * more[t].entry + Exposure(held, seen, x)
           /\ SectorSeen(t, seen) # x => Exposure(more, seen, x) = Exposure(held, seen, x)
<1> TAKE seen, x
<1> DEFINE v == [s \in DOMAIN held |-> held[s].qty * held[s].entry]
           w == [s \in DOMAIN more |-> more[s].qty * more[s].entry]
           S == {s \in DOMAIN held : SectorSeen(s, seen) = x}
           R == {s \in DOMAIN more : SectorSeen(s, seen) = x}
<1>1. Exposure(held, seen, x) = SumFunctionOnSet(v, S) /\ Exposure(more, seen, x) = SumFunctionOnSet(w, R)
  BY DEF Exposure
<1>2. IsFiniteSet(S)
  BY FS_Subset
<1>3. \A s \in S : v[s] = w[s]
  OBVIOUS
<1>4. \A s \in R : w[s] \in Int
  OBVIOUS
<1>5. R = IF SectorSeen(t, seen) = x THEN S \cup {t} ELSE S
  OBVIOUS
<1>6. t \notin S /\ S \subseteq R
  OBVIOUS
<1>7. t \in DOMAIN more /\ w[t] = more[t].qty * more[t].entry
  OBVIOUS
<1> HIDE DEF v, w, S, R
<1>8. SumFunctionOnSet(v, S) = SumFunctionOnSet(w, S)
  BY <1>2, <1>3, SumCongruence
<1>9. SumFunctionOnSet(w, S) \in Int
  BY <1>2, <1>4, <1>6, SumInt
<1>10. SectorSeen(t, seen) = x => SumFunctionOnSet(w, S \cup {t}) = w[t] + SumFunctionOnSet(w, S)
  <2> SUFFICES ASSUME SectorSeen(t, seen) = x
               PROVE  SumFunctionOnSet(w, S \cup {t}) = w[t] + SumFunctionOnSet(w, S)
    OBVIOUS
  <2>1. \A s \in S \cup {t} : w[s] \in Int
    BY <1>4, <1>5
  <2>2. QED
    BY <1>2, <1>6, <2>1, SumAdd
<1>11. QED
  BY <1>1, <1>5, <1>7, <1>8, <1>9, <1>10

LEMMA AffordableInit == Init => Affordable
BY DEF Init, Affordable

\* A step that does not lead to the paper stage.
LEMMA AffordableElsewhere ==
  ASSUME stage' # "paper"
  PROVE  Affordable'
BY DEF Affordable

LEMMA AffordableUnchanged ==
  ASSUME Affordable, UNCHANGED vars
  PROVE  Affordable'
BY DEF Affordable, vars, listVars, deskVars, Reduced, WithinShare

LEMMA SpentNat ==
  ASSUME NEW cs, IsFiniteSet(cs), cs \subseteq Candidates, NEW x
  PROVE  Spent(cs, x) \in Nat
<1>1. IsFiniteSet(InSector(cs, x)) /\ \A c \in cs : Price[c] \in Nat
  BY PriceTypes
<1>2. InSector(cs, x) \subseteq cs
  BY DEF InSector
<1> DEFINE S == InSector(cs, x)
<1>3. IsFiniteSet(S) /\ \A c \in S : Price[c] \in Nat
  BY <1>1, <1>2
<1>4. Spent(cs, x) = SumFunctionOnSet(Price, S)
  BY DEF Spent
<1> HIDE DEF S
<1>5. QED
  BY <1>3, <1>4, SumSubset

\* The first candidate of the queue is taken off the bill.
LEMMA QueueShrinks ==
  ASSUME WellFormed, Handed, stage = "paper", queue # <<>>, queue' = Tail(queue)
  PROVE  /\ Head(queue) \in Candidates /\ Head(queue) \in ToSet(queue)
         /\ ToSet(queue') \subseteq ToSet(queue)
         /\ Cardinality(ToSet(queue')) \in Nat
         /\ Cardinality(ToSet(queue)) = Cardinality(ToSet(queue')) + 1
         /\ Head(queue).qty * Head(queue).entry \in Nat
         /\ \A x : /\ Spent(ToSet(queue'), x) \in Nat
                   /\ Spent(ToSet(queue), x) =
                        IF SectorOf[Head(queue).symbol] = x
                        THEN Head(queue).qty * Head(queue).entry + Spent(ToSet(queue'), x)
                        ELSE Spent(ToSet(queue'), x)
<1>1. queue \in Seq(Candidates) /\ OnePerSymbol(queue)
  BY DEF WellFormed, Handed
<1>2. /\ Head(queue) \in Candidates /\ Head(queue) \in ToSet(queue)
      /\ ToSet(Tail(queue)) = ToSet(queue) \ {Head(queue)}
  BY <1>1, TailFacts
<1>3. IsFiniteSet(ToSet(queue)) /\ ToSet(queue) \subseteq Candidates
  BY <1>1, BoughtFinite
<1> DEFINE c == Head(queue)
           Q == ToSet(queue)
           R == ToSet(queue')
<1>4. /\ c \in Candidates /\ c \in Q /\ R = Q \ {c} /\ IsFiniteSet(Q) /\ Q \subseteq Candidates
  BY <1>2, <1>3
<1> HIDE DEF c, Q, R
<1>5. IsFiniteSet(R) /\ R \subseteq Candidates /\ c \notin R /\ Q = R \cup {c}
  BY <1>4, FS_Subset
<1>6. Cardinality(R) \in Nat /\ Cardinality(Q) = Cardinality(R) + 1
  BY <1>4, <1>5, FS_AddElement, FS_CardinalityType
<1>7. c.qty * c.entry \in Nat
  BY <1>4, PriceTypes
<1>8. \A x : Spent(R, x) \in Nat
  BY <1>5, SpentNat
<1>9. \A x : Spent(Q, x) = IF SectorOf[c.symbol] = x
                           THEN c.qty * c.entry + Spent(R, x) ELSE Spent(R, x)
  BY <1>4, <1>5, SpentMore
<1>10. R \subseteq Q
  BY <1>5
<1>11. QED
  BY <1>4, <1>6, <1>7, <1>8, <1>9, <1>10 DEF c, Q, R

LEMMA Grouped ==
  ASSUME NEW a \in Int, NEW b \in Int
  PROVE  100 * a * b = 100 * (a * b)
OBVIOUS

\* What LimitsKept says of the purchase of a symbol.
WithinLimits(s) ==
  /\ s \in known
  /\ Cardinality(DOMAIN positions') <= MaxPositions
  /\ 100 * positions'[s].qty * positions'[s].entry <= MaxPerTradePct * Capital
  /\ SectorOf[s] # Unknown =>
       100 * Exposure(positions', known, SectorOf[s]) <= MaxSectorPct * Capital

LEMMA LimitsEnter ==
  ASSUME Inv, NEW marketOpen \in BOOLEAN, NEW filled \in BOOLEAN, Enter(marketOpen, filled)
  PROVE  /\ Affordable'
         /\ filled => WithinLimits(Head(queue).symbol)
<1> DEFINE c == Head(queue)
           cost == c.qty * c.entry
<1>1. /\ WellFormed /\ Handed /\ Affordable
      /\ stage = "paper" /\ queue # <<>> /\ queue' = Tail(queue)
      /\ UNCHANGED <<market, stage, known>>
  BY DEF Inv, MemoryInv, Enter
<1>2. /\ c \in Candidates /\ c \in ToSet(queue) /\ ToSet(queue') \subseteq ToSet(queue)
      /\ Cardinality(ToSet(queue')) \in Nat
      /\ Cardinality(ToSet(queue)) = Cardinality(ToSet(queue')) + 1
      /\ cost \in Nat
      /\ \A x : /\ Spent(ToSet(queue'), x) \in Nat
                /\ Spent(ToSet(queue), x) = IF SectorOf[c.symbol] = x
                                            THEN cost + Spent(ToSet(queue'), x)
                                            ELSE Spent(ToSet(queue'), x)
  BY <1>1, QueueShrinks
<1>3. /\ IsFiniteSet(DOMAIN positions) /\ Cardinality(DOMAIN positions) \in Nat
      /\ \A s \in DOMAIN positions : positions[s].qty * positions[s].entry \in Nat
      /\ \A x : Exposure(positions, known, x) \in Int
  BY <1>1, ExposureInt
<1>4. /\ \A d \in ToSet(queue) : Reduced(d) /\ WithinShare(d)
      /\ Cardinality(DOMAIN positions) + Cardinality(ToSet(queue)) <= MaxPositions
      /\ \A x \in Sectors \ {Unknown} : InSector(ToSet(queue), x) # {} =>
           Exposure(positions, known, x) + Spent(ToSet(queue), x) <= CapOfSector
  BY <1>1 DEF Affordable
<1>5. CapOfSector \in Int /\ MaxPositions \in Nat
  BY MoneyAssumption DEF CapOfSector
<1>6. /\ \A d \in ToSet(queue') : Reduced(d)' /\ WithinShare(d)'
      /\ \A x : InSector(ToSet(queue'), x) \subseteq InSector(ToSet(queue), x)
  BY <1>1, <1>2, <1>4 DEF Reduced, WithinShare, InSector
<1>7. c.symbol \in known /\ c.symbol \in Symbols
  BY <1>1, <1>2 DEF Handed, Candidates
<1>8. CASE ~ filled
  <2>1. positions' = positions
    BY <1>8 DEF Enter
  <2>2. Cardinality(DOMAIN positions) + Cardinality(ToSet(queue')) <= MaxPositions
    BY <1>2, <1>3, <1>4, <1>5
  <2>3. ASSUME NEW x \in Sectors \ {Unknown}, InSector(ToSet(queue'), x) # {}
        PROVE  Exposure(positions, known, x) + Spent(ToSet(queue'), x) <= CapOfSector
    <3> DEFINE e == Exposure(positions, known, x)
               m == Spent(ToSet(queue), x)
               n == Spent(ToSet(queue'), x)
    <3>1. e \in Int /\ n \in Nat /\ e + m <= CapOfSector
      BY <1>2, <1>3, <1>4, <1>6, <2>3
    <3>2. m = cost + n \/ m = n
      BY <1>2
    <3>3. cost \in Nat
      BY <1>2
    <3> HIDE DEF e, m, n, cost
    <3>4. e + n <= CapOfSector
      BY <1>5, <3>1, <3>2, <3>3
    <3>5. QED
      BY <3>4 DEF e, n
  <2>4. QED
    BY <1>1, <1>6, <1>8, <2>1, <2>2, <2>3 DEF Affordable
<1>9. CASE filled
  <2>1. /\ c.symbol \notin DOMAIN positions
        /\ DOMAIN positions' = DOMAIN positions \cup {c.symbol}
        /\ \A s \in DOMAIN positions : positions'[s] = positions[s]
        /\ positions'[c.symbol].qty = c.qty /\ positions'[c.symbol].entry = c.entry
    BY <1>9 DEF Enter, Over
  <2>2. /\ Cardinality(DOMAIN positions') = Cardinality(DOMAIN positions) + 1
    BY <1>3, <2>1, FS_AddElement
  <2>3. /\ Cardinality(DOMAIN positions') + Cardinality(ToSet(queue')) <= MaxPositions
        /\ Cardinality(DOMAIN positions') <= MaxPositions
    BY <1>2, <1>3, <1>4, <1>5, <2>2
  <2>4. 100 * positions'[c.symbol].qty * positions'[c.symbol].entry <= MaxPerTradePct * Capital
    <3>1. 100 * (c.qty * c.entry) <= MaxPerTradePct * Capital
      BY <1>2, <1>4 DEF WithinShare, Cost
    <3>2. c.qty \in Int /\ c.entry \in Int
      BY <1>2 DEF Candidates
    <3>3. 100 * c.qty * c.entry = 100 * (c.qty * c.entry)
      BY <3>2, Grouped
    <3>4. QED
      BY <2>1, <3>1, <3>3
  <2>5. ASSUME NEW x \in Sectors \ {Unknown}, InSector(ToSet(queue), x) # {}
        PROVE  /\ Exposure(positions', known, x) + Spent(ToSet(queue'), x) <= CapOfSector
               /\ 100 * Exposure(positions', known, x) <= MaxSectorPct * Capital
    <3> DEFINE before == positions
               after  == positions'
               t == c.symbol
    <3>1. /\ IsFiniteSet(DOMAIN before) /\ DOMAIN after = DOMAIN before \cup {t}
          /\ t \notin DOMAIN before
      BY <1>3, <2>1
    <3>2. \A s \in DOMAIN before : after[s] = before[s]
      BY <2>1
    <3>3. after[t].qty * after[t].entry = cost
      BY <2>1
    <3>4. \A s \in DOMAIN before : before[s].qty * before[s].entry \in Nat
      BY <1>3
    <3>5. SectorSeen(t, known) = SectorOf[t]
      BY <1>7 DEF SectorSeen
    <3> HIDE DEF before, after, t, cost
    <3>6. \A s \in DOMAIN after : after[s].qty * after[s].entry \in Nat
      BY <1>2, <3>1, <3>2, <3>3, <3>4
    <3>7. Exposure(after, known, x) = IF SectorSeen(t, known) = x
                                      THEN after[t].qty * after[t].entry
                                             + Exposure(before, known, x)
                                      ELSE Exposure(before, known, x)
      <4>1. /\ SectorSeen(t, known) = x =>
                 Exposure(after, known, x) = after[t].qty * after[t].entry
                                               + Exposure(before, known, x)
            /\ SectorSeen(t, known) # x =>
                 Exposure(after, known, x) = Exposure(before, known, x)
        BY <3>1, <3>2, <3>6, ExposureMore
      <4>2. QED
        BY <4>1
    <3> DEFINE e == Exposure(before, known, x)
               f == Exposure(after, known, x)
               m == Spent(ToSet(queue), x)
               n == Spent(ToSet(queue'), x)
    <3>8. e \in Int /\ n \in Nat /\ e + m <= CapOfSector
      BY <1>2, <1>3, <1>4, <2>5 DEF before
    <3>9. f = IF SectorOf[t] = x THEN cost + e ELSE e
      BY <3>3, <3>5, <3>7
    <3>10. m = IF SectorOf[t] = x THEN cost + n ELSE n
      BY <1>2 DEF t
    <3> HIDE DEF e, f, m, n
    <3>11. f \in Int /\ f + n <= CapOfSector /\ f <= CapOfSector
      BY <1>2, <1>5, <3>8, <3>9, <3>10
    <3>12. 100 * f <= MaxSectorPct * Capital
      BY <3>11, CapMeansLimit
    <3>13. QED
      BY <3>11, <3>12 DEF after, f, n
  <2>6. Affordable'
    BY <1>1, <1>6, <2>3, <2>5 DEF Affordable
  <2>7. SectorOf[c.symbol] # Unknown =>
          100 * Exposure(positions', known, SectorOf[c.symbol]) <= MaxSectorPct * Capital
    <3>1. SectorOf[c.symbol] \in Sectors /\ c \in InSector(ToSet(queue), SectorOf[c.symbol])
      BY <1>2, <1>7 DEF Sectors, InSector
    <3>2. QED
      BY <2>5, <3>1
  <2>8. QED
    BY <1>7, <2>3, <2>4, <2>6, <2>7 DEF WithinLimits
<1>10. QED
  BY <1>8, <1>9

LEMMA SpentLess ==
  ASSUME NEW cs, IsFiniteSet(cs), cs \subseteq Candidates, NEW ds, ds \subseteq cs, NEW x
  PROVE  Spent(ds, x) <= Spent(cs, x)
<1> DEFINE S == InSector(cs, x)
           R == InSector(ds, x)
<1>1. IsFiniteSet(S) /\ \A c \in cs : Price[c] \in Nat
  BY PriceTypes
<1>2. S \subseteq cs /\ R \in SUBSET S
  BY DEF InSector
<1>3. Spent(cs, x) = SumFunctionOnSet(Price, S) /\ Spent(ds, x) = SumFunctionOnSet(Price, R)
  BY DEF Spent
<1> HIDE DEF S, R
<1>4. \A c \in S : Price[c] \in Nat
  BY <1>1, <1>2
<1>5. QED
  BY <1>1, <1>2, <1>3, <1>4, SumSubset

\* A size is decided by entry, stop and verdict, where there is a risk.
LEMMA SameSize ==
  ASSUME NEW c, NEW d, d.entry = c.entry, d.stop = c.stop, d.verdict = c.verdict,
         ~ (c.entry - c.stop <= 0)
  PROVE  PositionSize(d) = PositionSize(c)
BY DEF PositionSize

LEMMA FullSizeFields ==
  ASSUME NEW c \in Candidates
  PROVE  /\ AtFullSize(c).entry = c.entry /\ AtFullSize(c).stop = c.stop
         /\ AtFullSize(c).verdict = "APPROVED"
         /\ Riskless(c) => PositionSize(AtFullSize(c)) \in Nat
<1>1. DOMAIN c = {"symbol", "strategy", "conf", "rr", "entry", "stop", "score",
                  "verdict", "qty", "state"}
  BY DEF Candidates
<1> DEFINE d == [c EXCEPT !.verdict = "APPROVED"]
<1>2. d.entry = c.entry /\ d.stop = c.stop /\ d.verdict = "APPROVED" /\ d.qty = c.qty
  BY <1>1
<1>3. d \in Candidates
  BY DEF Candidates, Verdicts, Approvals
<1>4. AtFullSize(c) = d
  BY DEF AtFullSize
<1> HIDE DEF d
<1>5. Riskless(c) => Riskless(d)
  BY <1>2 DEF Riskless
<1>6. Riskless(c) => PositionSize(d) \in Nat
  BY <1>3, <1>5, SizeFacts
<1>7. QED
  BY <1>2, <1>4, <1>6

\* A candidate that the allocation has bought is within its share, and reduced if
\* its symbol is of elevated volatility.
LEMMA BoughtWithin ==
  ASSUME NEW c \in Candidates, Riskless(c), Marked(c), Approved(c),
         NEW d, Treated(d, c), d.state = "ALLOCATED"
  PROVE  Reduced(d) /\ WithinShare(d)
<1> DEFINE n == PositionSize(c)
           full == PositionSize(AtFullSize(c))
<1>1. /\ d \in Candidates /\ SameIdea(d, c) /\ d.qty > 0 /\ d.qty <= n
  BY TreatedFacts
<1>2. /\ n \in Nat
      /\ 100 * (n * c.entry) <= MaxPerTradePct * Capital
      /\ c.entry <= c.stop => n = 0
      /\ c.verdict = "APPROVED_REDUCED_SIZE" => n <= Max({1, (65 * full) \div 100})
  BY SizeFacts
<1>3. /\ c.entry \in Nat /\ c.stop \in Int /\ d.qty \in Nat
      /\ d.entry = c.entry /\ d.stop = c.stop /\ d.symbol = c.symbol
  BY <1>1 DEF Candidates, SameIdea
<1> HIDE DEF n
<1>4. ~ (c.entry <= c.stop) /\ ~ (c.entry - c.stop <= 0)
  BY <1>1, <1>2, <1>3
<1>5. PositionSize(AtFullSize(d)) = full
  <2>1. /\ AtFullSize(d).entry = c.entry /\ AtFullSize(d).stop = c.stop
        /\ AtFullSize(c).entry = c.entry /\ AtFullSize(c).stop = c.stop
        /\ AtFullSize(d).verdict = AtFullSize(c).verdict
    BY <1>1, <1>3, FullSizeFields
  <2>2. ~ (AtFullSize(c).entry - AtFullSize(c).stop <= 0)
    BY <1>4, <2>1
  <2>3. QED
    BY <2>1, <2>2, SameSize
<1>6. WithinShare(d)
  <2>1. d.qty * c.entry \in Nat /\ d.qty * c.entry <= n * c.entry
    BY <1>1, <1>2, <1>3, Product
  <2>2. n * c.entry \in Nat
    BY <1>2, <1>3, Product
  <2>3. MaxPerTradePct * Capital \in Nat
    BY MoneyAssumption
  <2> DEFINE p == d.qty * c.entry
             q == n * c.entry
             m == MaxPerTradePct * Capital
  <2>4. p \in Nat /\ q \in Nat /\ m \in Nat /\ p <= q /\ 100 * q <= m
    BY <1>2, <2>1, <2>2, <2>3
  <2> HIDE DEF p, q, m
  <2>5. 100 * p <= m
    BY ONLY <2>4
  <2>6. QED
    BY <1>3, <2>5 DEF WithinShare, Cost, p, m
<1>7. Reduced(d)
  <2> SUFFICES ASSUME Elevated(market[d.symbol])
               PROVE  d.qty <= Max({1, (65 * full) \div 100})
    BY <1>5 DEF Reduced, AtFullSize
  <2>1. c.verdict = "APPROVED_REDUCED_SIZE"
    BY <1>3 DEF Marked
  <2> DEFINE top == Max({1, (65 * full) \div 100})
  <2>2. n <= top
    BY <1>2, <2>1
  <2>3. top \in Int
    <3>1. full \in Int
      BY FullSizeFields
    <3>2. (65 * full) \div 100 \in Int
      BY <3>1
    <3> DEFINE a == (65 * full) \div 100
    <3> HIDE DEF a
    <3>3. a \in Int
      BY <3>2 DEF a
    <3>4. Max({1, a}) \in Int
      BY <3>3, MaxOfTwo
    <3>5. QED
      BY <3>4 DEF a
  <2> HIDE DEF top
  <2>4. d.qty <= top
    BY <1>1, <1>2, <1>3, <2>2, <2>3
  <2>5. QED
    BY <2>4 DEF top
<1>8. QED
  BY <1>6, <1>7

LEMMA AffordablePortfolio ==
  Inv /\ Portfolio => Affordable'
<1> SUFFICES ASSUME Inv, Portfolio PROVE Affordable'
  OBVIOUS
<1>1. /\ WellFormed
      /\ \A c \in ToSet(final) : c \in Candidates /\ Riskless(c) /\ Marked(c)
      /\ UNCHANGED <<market, known, positions>>
  <2>1. stage = "portfolio" /\ WellFormed /\ Handed
    BY DEF Inv, MemoryInv, Portfolio
  <2>2. ToSet(final) \subseteq Candidates
    BY <2>1, BoughtFinite DEF WellFormed
  <2>3. QED
    BY <2>1, <2>2 DEF Inv, Portfolio, Handed
<1>2. PICK run, n, part : Round(run, n, part, positions, known) /\ FundedList(final', run)
  BY PortfolioFacts
<1>3. /\ queue' \in Seq(Candidates)
      /\ \A d \in ToSet(queue') :
           /\ d.state = "ALLOCATED" /\ d \in Bought(run.out)
           /\ \E c \in ToSet(final) : Treated(d, c) /\ Approved(c)
  BY <1>2, QueuedFacts
<1> DEFINE Q == ToSet(queue')
           B == Bought(run.out)
<1>4. run \in Runs /\ run.out \in Seq(Candidates) /\ run.slots \in Nat
  BY <1>2 DEF Round, Runs
<1>5. /\ IsFiniteSet(B) /\ B \subseteq Candidates /\ Q \subseteq B
      /\ Cardinality(Q) \in Nat /\ Cardinality(B) \in Nat /\ Cardinality(Q) <= Cardinality(B)
  <2>1. IsFiniteSet(B) /\ B \subseteq Candidates /\ Q \subseteq B
    BY <1>3, <1>4, BoughtFinite
  <2> HIDE DEF B, Q
  <2>2. QED
    BY <2>1, FS_Subset, FS_CardinalityType
<1>6. \A d \in Q : Reduced(d) /\ WithinShare(d)
  <2> SUFFICES ASSUME NEW d \in Q PROVE Reduced(d) /\ WithinShare(d)
    OBVIOUS
  <2>1. PICK c \in ToSet(final) : Treated(d, c) /\ Approved(c)
    BY <1>3
  <2>2. QED
    BY <1>1, <1>3, <2>1, BoughtWithin
<1>7. \A d \in Q : Reduced(d)' /\ WithinShare(d)'
  BY <1>1, <1>6 DEF Reduced, WithinShare
<1>8. ASSUME queue' # <<>>
      PROVE  Cardinality(DOMAIN positions) + Cardinality(Q) <= MaxPositions
  <2>1. run.slots + Cardinality(B) = Max({0, MaxPositions - Cardinality(DOMAIN positions)})
    BY <1>2 DEF Round
  <2>2. Cardinality(DOMAIN positions) \in Nat /\ MaxPositions \in Nat
    BY <1>1, ExposureInt, MoneyAssumption
  <2>3. Cardinality(Q) > 0
    <3>1. queue'[1] \in Q
      BY <1>3, <1>8 DEF ToSet
    <3>2. IsFiniteSet(Q)
      BY <1>3, BoughtFinite
    <3> HIDE DEF Q
    <3>3. Cardinality(Q) # 0
      BY <3>1, <3>2, FS_EmptySet
    <3>4. QED
      BY <3>2, <3>3, FS_CardinalityType
  <2> DEFINE left == MaxPositions - Cardinality(DOMAIN positions)
  <2>4. left \in Int
    BY <2>2
  <2> HIDE DEF left
  <2>5. Max({0, left}) = 0 \/ Max({0, left}) = left
    <3>1. 0 \in Int /\ left \in Int
      BY <2>4
    <3>2. Max({0, left}) \in {0, left}
      BY <3>1, MaxOfTwo, Zenon
    <3>3. QED
      BY <3>2
  <2>6. run.slots + Cardinality(B) = 0 \/ run.slots + Cardinality(B) = left
    BY <2>1, <2>5 DEF left
  <2> HIDE DEF B, Q
  <2>7. Cardinality(Q) <= left
    BY <1>4, <1>5, <2>3, <2>4, <2>6
  <2>8. QED
    BY <1>5, <2>2, <2>7 DEF left
<1>9. ASSUME NEW x \in Sectors \ {Unknown}, InSector(Q, x) # {}
      PROVE  Exposure(positions, known, x) + Spent(Q, x) <= CapOfSector
  <2> DEFINE e == Exposure(positions, known, x)
             m == Spent(B, x)
             k == Spent(Q, x)
  <2>1. e + m <= CapOfSector
    <3>1. InSector(B, x) # {}
      BY <1>5, <1>9 DEF InSector
    <3>2. QED
      BY <1>2, <3>1 DEF Round
  <2>2. e \in Int
    BY <1>1, ExposureInt
  <2>3. CapOfSector \in Int
    BY MoneyAssumption DEF CapOfSector
  <2> HIDE DEF B, Q
  <2>4. k <= m
    BY <1>5, SpentLess
  <2>5. k \in Nat /\ m \in Nat
    <3>1. IsFiniteSet(Q) /\ Q \subseteq Candidates
      BY <1>5, FS_Subset
    <3>2. QED
      BY <1>5, <3>1, SpentNat
  <2> HIDE DEF e, m, k
  <2>6. e + k <= CapOfSector
    BY <2>1, <2>2, <2>3, <2>4, <2>5
  <2>7. QED
    BY <2>6 DEF e, k
<1>10. QED
  BY <1>1, <1>7, <1>8, <1>9 DEF Affordable

LEMMA InvInit == Init => Inv
BY MemoryInit, AffordableInit DEF Inv

\* Every step keeps both halves of the invariant.
LEMMA InvNext ==
  Inv /\ [Next]_vars => Inv'
<1> SUFFICES ASSUME Inv, [Next]_vars PROVE Inv'
  OBVIOUS
<1>1. MemoryInv /\ Affordable
  BY DEF Inv
<1>2. ASSUME MemoryInv', Affordable' PROVE Inv'
  BY <1>2 DEF Inv
<1>3. ASSUME NEW frames \in Markets, Download(frames)
      PROVE  Inv'
  <2>1. MemoryInv'
    BY <1>1, <1>3, MemoryDownload
  <2>2. stage' # "paper"
    BY <1>3 DEF Download, deskVars
  <2>3. QED
    BY <1>1, <1>2, <2>1, <2>2, AffordableElsewhere
<1>4. CASE Observe
  <2>1. MemoryInv'
    BY <1>1, <1>4, MemoryObserve
  <2>2. stage' # "paper"
    BY <1>4 DEF Observe, deskVars
  <2>3. QED
    BY <1>1, <1>2, <2>1, <2>2, AffordableElsewhere
<1>5. CASE Screen
  <2>1. MemoryInv'
    BY <1>1, <1>5, MemoryScreen
  <2>2. stage' # "paper"
    BY <1>5 DEF Screen, deskVars
  <2>3. QED
    BY <1>1, <1>2, <2>1, <2>2, AffordableElsewhere
<1>6. CASE Consensus
  <2>1. MemoryInv'
    BY <1>1, <1>6, MemoryConsensus
  <2>2. stage' # "paper"
    BY <1>6 DEF Consensus
  <2>3. QED
    BY <1>1, <1>2, <2>1, <2>2, AffordableElsewhere
<1>7. CASE Portfolio
  BY <1>2, <1>7, MemoryPortfolio, AffordablePortfolio
<1>8. ASSUME NEW marketOpen \in BOOLEAN, NEW filled \in BOOLEAN, Enter(marketOpen, filled)
      PROVE  Inv'
  BY <1>1, <1>2, <1>8, MemoryEnter, LimitsEnter
<1>9. CASE Finish \/ StageFails
  <2>1. Stopped /\ UNCHANGED <<deskVars, scans>>
    BY <1>9 DEF Finish, StageFails
  <2>2. stage' # "paper"
    BY <2>1 DEF Stopped, deskVars
  <2>3. QED
    BY <1>1, <1>2, <2>1, <2>2, MemoryStopped, AffordableElsewhere
<1>10. ASSUME NEW s \in DOMAIN positions, Exit(s)
       PROVE  Inv'
  <2>1. MemoryInv'
    BY <1>1, <1>10, MemoryExit
  <2>2. stage' # "paper"
    BY <1>10 DEF Exit
  <2>3. QED
    BY <1>2, <2>1, <2>2, AffordableElsewhere
<1>11. CASE UNCHANGED vars
  BY <1>1, <1>2, <1>11, MemoryUnchanged, AffordableUnchanged
<1>12. QED
  BY <1>3, <1>4, <1>5, <1>6, <1>7, <1>8, <1>9, <1>10, <1>11 DEF Next

-----------------------------------------------------------------------------
(***************************************************************************)
(* The focus list.                                                         *)
(***************************************************************************)

LEMMA ScoreInt ==
  ASSUME NEW f
  PROVE  OpportunityScore(f) \in Int
<1>1. \A h : \A n \in Int : Points(h, n) \in Int
  BY DEF Points
<1>2. \A h, l : \A n, k \in Int : Tier(h, n, l, k) \in Int
  BY <1>1 DEF Tier
<1>3. QED
  BY <1>1, <1>2 DEF OpportunityScore

\* A ranking lists every eligible symbol, the best first.
LEMMA RankingFacts ==
  ASSUME NEW frames, NEW symbols, IsFiniteSet(symbols),
         NEW ranking \in Rankings(frames, symbols)
  PROVE  /\ ranking \in Seq(symbols) /\ ToSet(ranking) = symbols
         /\ \A i, j \in DOMAIN ranking :
              i < j => OpportunityScore(frames[ranking[i]])
                         >= OpportunityScore(frames[ranking[j]])
<1> DEFINE n == Cardinality(symbols)
           D == 1..n
<1>1. n \in Nat
  BY FS_CardinalityType
<1>2. /\ ranking \in [D -> symbols]
      /\ \A i, j \in D : i # j => ranking[i] # ranking[j]
      /\ \A i, j \in DOMAIN ranking :
           i < j => OpportunityScore(frames[ranking[i]])
                      >= OpportunityScore(frames[ranking[j]])
  BY DEF Rankings, SetToSeqs
<1>3. IsFiniteSet(D) /\ Cardinality(D) = n
  BY <1>1, FS_Interval
<1>4. ranking \in Seq(symbols)
  BY <1>1, <1>2
<1> HIDE DEF D
<1>5. ranking \in Injection(D, symbols)
  BY <1>2 DEF Injection, IsInjective
<1>6. ranking \in Surjection(D, symbols)
  BY <1>3, <1>5, FS_Injection
<1>7. ToSet(ranking) = symbols
  BY <1>2, <1>6 DEF Surjection, ToSet
<1>8. QED
  BY <1>2, <1>4, <1>7

LEMMA ImageSmall ==
  ASSUME NEW S, IsFiniteSet(S), NEW g
  PROVE  IsFiniteSet({g[x] : x \in S}) /\ Cardinality({g[x] : x \in S}) <= Cardinality(S)
<1> DEFINE T == {g[x] : x \in S}
           f == [x \in S |-> g[x]]
<1>1. f \in Surjection(S, T)
  BY DEF Surjection
<1> HIDE DEF f
<1>2. Cardinality(T) <= Cardinality(S)
  BY <1>1, FS_Surjection
<1>3. QED
  BY <1>2, ImageFinite

\* The first members of a list are at most as many.
LEMMA FirstFew ==
  ASSUME NEW S, NEW q \in Seq(S), NEW room \in Nat
  PROVE  /\ IsFiniteSet({q[i] : i \in {j \in DOMAIN q : j <= room}})
         /\ Cardinality({q[i] : i \in {j \in DOMAIN q : j <= room}}) <= room
         /\ Cardinality({q[i] : i \in {j \in DOMAIN q : j <= room}}) \in Nat
<1> DEFINE R == {j \in DOMAIN q : j <= room}
           T == {q[i] : i \in R}
<1>1. R \subseteq 1..room
  OBVIOUS
<1>2. IsFiniteSet(1..room) /\ Cardinality(1..room) = room
  BY FS_Interval
<1>3. IsFiniteSet(R) /\ Cardinality(R) <= room /\ Cardinality(R) \in Nat
  <2> HIDE DEF R
  <2>1. QED
    BY <1>1, <1>2, FS_Subset, FS_CardinalityType
<1>4. IsFiniteSet(T) /\ Cardinality(T) <= Cardinality(R)
  <2> HIDE DEF R
  <2>1. QED
    BY <1>3, ImageSmall
<1> HIDE DEF R, T
<1>5. Cardinality(T) \in Nat
  BY <1>4, FS_CardinalityType
<1>6. Cardinality(T) <= room
  BY <1>3, <1>4, <1>5
<1>7. QED
  BY <1>4, <1>5, <1>6 DEF R, T

\* What FocusKeepsPromises asks of a focus list.
Promises(frames, mandatory, limit, list) ==
  LET must == mandatory \cap Eligible(frames)
      rest == Eligible(frames) \ must
  IN /\ must \subseteq list
     /\ list \subseteq Eligible(frames)
     /\ limit > 0 => Cardinality(list) <= Max({limit, Cardinality(must) + 1})
     /\ \A s \in list \cap rest, t \in rest \ list :
          OpportunityScore(frames[s]) >= OpportunityScore(frames[t])

\* build_focus_universe keeps its promises, whatever the frames and the mandatory
\* symbols.
LEMMA FocusFacts ==
  ASSUME NEW frames, IsFiniteSet(Eligible(frames)), NEW mandatory,
         NEW ranking \in Rankings(frames, Eligible(frames)),
         NEW limit \in Nat, NEW least \in Int, NEW list,
         list = Focus(frames, ranking, mandatory, limit, least)
  PROVE  Promises(frames, mandatory, limit, list)
<1> DEFINE E == Eligible(frames)
           must == mandatory \cap E
           rest == E \ must
           T == {s \in E \ mandatory : OpportunityScore(frames[s]) >= least}
           q == Kept(ranking, T)
           m == Cardinality(must)
           room == IF limit = 0 THEN Len(q) ELSE IF limit - m < 1 THEN 1 ELSE limit - m
           few == {q[i] : i \in {j \in DOMAIN q : j <= room}}
<1>1. /\ ranking \in Seq(E) /\ ToSet(ranking) = E
      /\ \A i, j \in DOMAIN ranking :
           i < j => OpportunityScore(frames[ranking[i]])
                      >= OpportunityScore(frames[ranking[j]])
  BY RankingFacts
<1>2. E \cap mandatory = must /\ rest = E \ mandatory
  OBVIOUS
<1>3. list = must \cup few
  <2>1. list = (E \cap mandatory) \cup
               {q[i] : i \in {j \in DOMAIN q :
                  j <= IF limit = 0 THEN Len(q)
                       ELSE IF limit - Cardinality(E \cap mandatory) < 1 THEN 1
                       ELSE limit - Cardinality(E \cap mandatory)}}
    BY <1>1 DEF Focus
  <2>2. QED
    BY <1>2, <2>1
<1> HIDE DEF T
<1>4. /\ q \in Seq(E)
      /\ \A i \in DOMAIN q : q[i] \in T
      /\ \A k \in DOMAIN ranking : ranking[k] \in T => \E i \in DOMAIN q : q[i] = ranking[k]
      /\ \A i, j \in DOMAIN q :
           i < j => \E a, b \in DOMAIN ranking : a < b /\ q[i] = ranking[a] /\ q[j] = ranking[b]
  BY <1>1, KeptFacts
<1> HIDE DEF q
<1>5. IsFiniteSet(must) /\ m \in Nat
  <2>1. must \subseteq E
    OBVIOUS
  <2> HIDE DEF must, E
  <2>2. IsFiniteSet(must)
    BY <2>1, FS_Subset DEF E
  <2>3. QED
    BY <2>2, FS_CardinalityType
<1> HIDE DEF m
<1>6. room \in Nat /\ (limit > 0 => room + m = limit \/ room = 1)
  BY <1>4, <1>5
<1>7. few \subseteq T /\ T \subseteq rest
  BY <1>4 DEF T
<1>8. limit > 0 => Cardinality(list) <= Max({limit, m + 1})
  <2> SUFFICES ASSUME limit > 0 PROVE Cardinality(list) <= Max({limit, m + 1})
    OBVIOUS
  <2> HIDE DEF room
  <2>1. IsFiniteSet(few) /\ Cardinality(few) <= room /\ Cardinality(few) \in Nat
    BY <1>4, <1>6, FirstFew
  <2> HIDE DEF few, must
  <2>2. /\ Cardinality(must \cup few)
             = Cardinality(must) + Cardinality(few) - Cardinality(must \cap few)
        /\ Cardinality(must \cap few) \in Nat /\ Cardinality(must \cup few) \in Nat
    BY <1>5, <2>1, FS_Union, FS_Subset, FS_CardinalityType
  <2> DEFINE c == Cardinality(must \cup few)
             d == Cardinality(few)
             e == Cardinality(must \cap few)
             top == Max({limit, m + 1})
  <2>3. c = m + d - e /\ c \in Nat /\ d \in Nat /\ e \in Nat /\ d <= room
    BY <2>1, <2>2 DEF m
  <2>4. top >= limit /\ top >= m + 1 /\ top \in {limit, m + 1}
    <3>1. limit \in Int /\ m + 1 \in Int
      BY <1>5
    <3> DEFINE n == m + 1
    <3> HIDE DEF n
    <3>2. /\ Max({limit, n}) \in {limit, n}
          /\ Max({limit, n}) >= limit /\ Max({limit, n}) >= n
      BY <3>1, MaxOfTwo DEF n
    <3>3. QED
      BY <3>2 DEF n
  <2> HIDE DEF c, d, e, top
  <2>5. top \in Int
    BY <1>5, <2>4
  <2>6. c <= top
    BY <1>5, <1>6, <2>3, <2>4, <2>5
  <2>7. QED
    BY <1>3, <2>6 DEF c, top
<1>9. ASSUME NEW s \in list \cap rest, NEW t \in rest \ list
      PROVE  OpportunityScore(frames[s]) >= OpportunityScore(frames[t])
  <2>1. s \in few /\ t \in E \ mandatory /\ t \notin few
    BY <1>3, <1>9
  <2>2. PICK i \in DOMAIN q : i <= room /\ s = q[i]
    BY <2>1
  <2>3. OpportunityScore(frames[s]) >= least
    BY <1>4, <2>2 DEF T
  <2>4. OpportunityScore(frames[s]) \in Int /\ OpportunityScore(frames[t]) \in Int
    BY ScoreInt
  <2>5. CASE t \notin T
    <3>1. ~ (OpportunityScore(frames[t]) >= least)
      BY <2>1, <2>5 DEF T
    <3>2. QED
      BY <2>3, <2>4, <3>1
  <2>6. CASE t \in T
    <3>1. PICK k \in DOMAIN ranking : t = ranking[k]
      BY <1>1, <2>1 DEF ToSet
    <3>2. PICK j \in DOMAIN q : q[j] = t
      BY <1>4, <2>6, <3>1
    <3>3. ~ (j <= room)
      BY <2>1, <3>2
    <3>4. i \in Nat /\ j \in Nat
      BY <1>4
    <3>5. i < j
      BY <1>6, <2>2, <3>3, <3>4
    <3>6. PICK a \in DOMAIN ranking : \E b \in DOMAIN ranking :
            a < b /\ q[i] = ranking[a] /\ q[j] = ranking[b]
      BY <1>4, <3>5
    <3>7. QED
      BY <1>1, <2>2, <3>2, <3>6
  <2>7. QED
    BY <2>5, <2>6
<1>10. must \subseteq list /\ list \subseteq E
  BY <1>3, <1>7
<1>11. QED
  BY <1>8, <1>9, <1>10 DEF m, Promises

LEMMA FocusInit == Init => FocusKeepsPromises
BY DEF Init, FocusKeepsPromises

LEMMA FocusScreen ==
  Inv /\ Screen => FocusKeepsPromises'
<1> SUFFICES ASSUME Inv, Screen PROVE FocusKeepsPromises'
  OBVIOUS
<1>1. UNCHANGED <<market, positions, waiting>>
  BY DEF Screen, deskVars
<1>2. PICK ranking \in Rankings(market, Eligible(market)) :
        focus' = Focus(market, ranking, Mandatory, FocusLimit, MinOpportunity)
  BY DEF Screen, FocusChoices
<1>3. IsFiniteSet(Eligible(market))
  <2>1. Eligible(market) \subseteq Symbols
    BY DEF Eligible, Inv, MemoryInv, WellFormed
  <2>2. QED
    BY <2>1, SymbolsAssumption, FS_Subset
<1>4. Promises(market, Mandatory, FocusLimit, focus')
  <2>1. FocusLimit \in Nat /\ MinOpportunity \in Int
    BY FocusAssumption
  <2>2. QED
    BY <1>2, <1>3, <2>1, FocusFacts, Zenon
<1>5. Mandatory' = Mandatory
  BY <1>1 DEF Mandatory
<1>6. QED
  BY <1>1, <1>4, <1>5 DEF FocusKeepsPromises, Promises

LEMMA FocusNext ==
  Inv /\ FocusKeepsPromises /\ [Next]_vars => FocusKeepsPromises'
<1> SUFFICES ASSUME Inv, FocusKeepsPromises, [Next]_vars PROVE FocusKeepsPromises'
  OBVIOUS
<1>1. ASSUME stage' # "consensus" PROVE FocusKeepsPromises'
  BY <1>1 DEF FocusKeepsPromises
<1>2. ASSUME NEW frames \in Markets, Download(frames) PROVE stage' # "consensus"
  BY <1>2 DEF Download
<1>3. CASE Screen
  BY <1>3, FocusScreen
<1>4. CASE Observe \/ Consensus \/ Portfolio \/ Finish \/ StageFails
  BY <1>1, <1>4 DEF Observe, Consensus, Portfolio, Finish, StageFails, Stopped
<1>5. ASSUME NEW marketOpen \in BOOLEAN, NEW filled \in BOOLEAN, Enter(marketOpen, filled)
      PROVE  stage' # "consensus"
  BY <1>5 DEF Enter
<1>6. ASSUME NEW s \in DOMAIN positions, Exit(s) PROVE stage' # "consensus"
  BY <1>6 DEF Exit
<1>7. CASE UNCHANGED vars
  BY <1>7 DEF FocusKeepsPromises, Mandatory, vars, listVars, deskVars
<1>8. QED
  BY <1>1, <1>2, <1>3, <1>4, <1>5, <1>6, <1>7 DEF Next

-----------------------------------------------------------------------------
(***************************************************************************)
(* Theorems.                                                               *)
(***************************************************************************)

LEMMA InvAlways == Spec => []Inv
BY InvInit, InvNext, PTL DEF Spec

\* The Experience Memory agrees with the desk through every scan, every stage that
\* raises and every lost write: a held position was neither refused nor closed, and
\* no decision is reviewed or given a result twice.
THEOREM MemoryAlwaysAgrees == Spec => []MemoryAgrees
<1>1. Inv => MemoryAgrees
  BY DEF Inv, MemoryInv
<1>2. QED
  BY <1>1, InvAlways, PTL

\* The discovery evaluates every eligible symbol that is held, awaited or watched,
\* and of the others the best ranked, within the limit but for one.
THEOREM FocusAlwaysKeepsPromises == Spec => []FocusKeepsPromises
BY FocusInit, FocusNext, InvAlways, PTL DEF Spec

\* What is bought in a step: nothing but the first of the queue.
LEMMA NewPositions ==
  ASSUME Inv, Next, NEW s \in DOMAIN positions' \ DOMAIN positions
  PROVE  /\ stage = "paper" /\ queue # <<>> /\ s = Head(queue).symbol
         /\ positions'[s].qty = Head(queue).qty
<1>1. ASSUME NEW frames \in Markets, Download(frames) PROVE FALSE
  BY <1>1 DEF Download, deskVars
<1>2. CASE Observe \/ Screen \/ Consensus \/ Portfolio \/ Finish \/ StageFails
  BY <1>2 DEF Observe, Screen, Consensus, Portfolio, Finish, StageFails, deskVars
<1>3. ASSUME NEW marketOpen \in BOOLEAN, NEW filled \in BOOLEAN, Enter(marketOpen, filled)
      PROVE  /\ stage = "paper" /\ queue # <<>> /\ s = Head(queue).symbol
             /\ positions'[s].qty = Head(queue).qty
  BY <1>3 DEF Enter, Over
<1>4. ASSUME NEW t \in DOMAIN positions, Exit(t) PROVE FALSE
  BY <1>4 DEF Exit
<1>5. QED
  BY <1>1, <1>2, <1>3, <1>4 DEF Next

\* A purchase leaves the positions within the slots, its share and the cap of its
\* sector, as far as the session knows the sectors, although what an entry buys was
\* sized stages before it and a restored position may be past a limit.
THEOREM LimitsAlwaysKept == Spec => LimitsKept
<1> DEFINE AllWithin == \A s \in DOMAIN positions' \ DOMAIN positions : WithinLimits(s)
<1>1. ASSUME Inv, Next PROVE AllWithin
  <2> SUFFICES ASSUME NEW s \in DOMAIN positions' \ DOMAIN positions
               PROVE  WithinLimits(s)
    OBVIOUS
  <2>1. PICK marketOpen \in BOOLEAN, filled \in BOOLEAN : Enter(marketOpen, filled) /\ filled
    <3>1. ASSUME NEW frames \in Markets, Download(frames) PROVE FALSE
      BY <3>1 DEF Download, deskVars
    <3>2. CASE Observe \/ Screen \/ Consensus \/ Portfolio \/ Finish \/ StageFails
      BY <3>2 DEF Observe, Screen, Consensus, Portfolio, Finish, StageFails, deskVars
    <3>3. ASSUME NEW marketOpen \in BOOLEAN, NEW filled \in BOOLEAN,
                 Enter(marketOpen, filled), ~ filled
          PROVE  FALSE
      BY <3>3 DEF Enter
    <3>4. ASSUME NEW t \in DOMAIN positions, Exit(t) PROVE FALSE
      BY <3>4 DEF Exit
    <3>5. QED
      BY <1>1, <3>1, <3>2, <3>3, <3>4 DEF Next
  <2>2. s = Head(queue).symbol
    BY <1>1, NewPositions
  <2>3. QED
    BY <1>1, <2>1, <2>2, LimitsEnter
<1>2. Inv /\ [Next]_vars => [AllWithin]_vars
  BY <1>1
<1> HIDE DEF AllWithin
<1>3. Spec => [][AllWithin]_vars
  BY <1>2, InvAlways, PTL DEF Spec
<1>4. QED
  BY <1>3 DEF LimitsKept, AllWithin, WithinLimits

\* A position opened on a symbol of elevated volatility holds at most 65 percent of
\* the size its risk would allow, or a single share.
THEOREM ReducedAlwaysBuysLess == Spec => ReducedBuysLess
<1> DEFINE BuysLess ==
      \A s \in DOMAIN positions' \ DOMAIN positions :
        Elevated(market[s]) =>
          \E c \in ToSet(final) :
            /\ c.symbol = s
            /\ LET full == PositionSize([c EXCEPT !.verdict = "APPROVED"])
               IN positions'[s].qty <= Max({1, (65 * full) \div 100})
<1>1. ASSUME Inv, Next PROVE BuysLess
  <2> SUFFICES ASSUME NEW s \in DOMAIN positions' \ DOMAIN positions, Elevated(market[s])
               PROVE  \E c \in ToSet(final) :
                        /\ c.symbol = s
                        /\ positions'[s].qty <=
                             Max({1, (65 * PositionSize([c EXCEPT !.verdict = "APPROVED"]))
                                       \div 100})
    OBVIOUS
  <2> DEFINE c == Head(queue)
  <2>1. /\ stage = "paper" /\ queue # <<>> /\ s = c.symbol /\ positions'[s].qty = c.qty
    BY <1>1, NewPositions
  <2>2. c \in ToSet(queue)
    <3>1. queue \in Seq(Candidates) /\ OnePerSymbol(queue)
      BY <1>1, <2>1 DEF Inv, MemoryInv, WellFormed, Handed
    <3>2. QED
      BY <2>1, <3>1, TailFacts
  <2>3. c \in ToSet(final) /\ Reduced(c)
    BY <1>1, <2>1, <2>2 DEF Inv, MemoryInv, Handed, Affordable
  <2> HIDE DEF c
  <2>4. QED
    BY <2>1, <2>3 DEF Reduced
<1>2. Inv /\ [Next]_vars => [BuysLess]_vars
  BY <1>1
<1> HIDE DEF BuysLess
<1>3. Spec => [][BuysLess]_vars
  BY <1>2, InvAlways, PTL DEF Spec
<1>4. QED
  BY <1>3 DEF ReducedBuysLess, BuysLess

=============================================================================
