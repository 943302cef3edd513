--------------------------- MODULE WorkersProofs ----------------------------
(***************************************************************************)
(* Proof of WorkersInv: what workers and people send a session is accounted *)
(* for at every moment, for any workers, messages, replies of the model,   *)
(* budgets and contexts that end between any two steps.                    *)
(*                                                                         *)
(* The inductive invariant (WorkersIInv) adds three things.  Where the run *)
(* is decides what it has in hand, whether it is counted and whether a     *)
(* result is being returned (Control); a job marked as delivered has its   *)
(* result in the tool call, in the history or in a refused write, so that  *)
(* a drain may drop its handoff (Results); and the accepted messages are   *)
(* one line: those dealt with, those in hand, those that wait (Lines), of  *)
(* which exactly the first have become one thing each (Dealt).             *)
(*                                                                         *)
(* What a drain keeps is a function that goes through the queue: that it   *)
(* keeps every handoff not delivered is shown for every length of a queue  *)
(* by the well-foundedness of the numbers (NumbersReached).                *)
(***************************************************************************)
EXTENDS Workers, FiniteSetTheorems, TLAPS

(* A set of numbers that has zero and every successor has every number.     *)
LEMMA NumbersReached ==
    ASSUME NEW S \in SUBSET Nat, 0 \in S, \A n \in S : n + 1 \in S
    PROVE  Nat \subseteq S
  <1>. DEFINE T == Nat \ S
  <1>. SUFFICES ASSUME T # {} PROVE FALSE
    BY Zenon
  <1>1. PICK x \in T : \A y \in T : <<y, x>> \notin OpToRel(<, Nat)
    <2>. DEFINE R == OpToRel(<, Nat)
    <2>1. IsWellFoundedOn(R, Nat)
      BY NatLessThanWellFounded, Zenon
    <2>2. T \subseteq Nat
      BY Zenon
    <2>. HIDE DEF R, T
    <2>3. \E x \in T : \A y \in T : ~ (<<y, x>> \in R)
      BY <2>1, <2>2, WFMin, Zenon
    <2>. QED
      BY <2>3, Zenon DEF R
  <1>2. x \in Nat /\ x # 0 /\ x \notin S
    BY Zenon
  <1>3. x - 1 \in Nat /\ x - 1 < x /\ (x - 1) + 1 = x
    BY <1>2
  <1>4. x - 1 \in T => <<x - 1, x>> \in OpToRel(<, Nat)
    BY <1>2, <1>3 DEF OpToRel
  <1>5. x - 1 \in S
    BY <1>1, <1>3, <1>4, Zenon
  <1>. QED
    BY <1>2, <1>3, <1>5, Zenon

-----------------------------------------------------------------------------
(* The handoffs a drain keeps.                                              *)
Drained(f, q) ==
    [n \in 0..Len(q) |-> IF n = 0 THEN <<>>
                         ELSE IF q[n] \in deliveredJobs THEN f[n - 1] ELSE Append(f[n - 1], q[n])]

(* A queue can be gone through. *)
LEMMA DrainReached ==
    ASSUME NEW q \in Seq(Workers)
    PROVE  \E f : f = Drained(f, q)
  <1>. DEFINE Upto(m, f) ==
                 \A n \in 0..m :
                    f[n] = IF n = 0 THEN <<>>
                           ELSE IF q[n] \in deliveredJobs THEN f[n - 1] ELSE Append(f[n - 1], q[n])
              S == {m \in Nat : \E f : f = [n \in 0..m |-> f[n]] /\ Upto(m, f)}
  <1>1. 0 \in S
    <2>1. [n \in 0..0 |-> <<>>] = [k \in 0..0 |-> [n \in 0..0 |-> <<>>][k]]
      OBVIOUS
    <2>2. Upto(0, [n \in 0..0 |-> <<>>])
      OBVIOUS
    <2>. QED
      BY <2>1, <2>2
  <1>2. ASSUME NEW m \in S PROVE m + 1 \in S
    <2>1. PICK f : f = [n \in 0..m |-> f[n]] /\ Upto(m, f)
      OBVIOUS
    <2>. DEFINE more == IF q[m + 1] \in deliveredJobs THEN f[m] ELSE Append(f[m], q[m + 1])
                g == [n \in 0..m + 1 |-> IF n = m + 1 THEN more ELSE f[n]]
    <2>2. m \in Nat /\ m + 1 \in Nat /\ m + 1 # 0 /\ (m + 1) - 1 = m
      OBVIOUS
    <2>3. g[m + 1] = more /\ \A n \in 0..m : g[n] = f[n]
      BY <2>2
    <2>. HIDE DEF more
    <2>4. Upto(m + 1, g)
      <3>. SUFFICES ASSUME NEW n \in 0..m + 1
                    PROVE  g[n] = IF n = 0 THEN <<>>
                                  ELSE IF q[n] \in deliveredJobs THEN g[n - 1] ELSE Append(g[n - 1], q[n])
        OBVIOUS
      <3>. HIDE DEF g
      <3>1. CASE n = m + 1
        <4>1. g[m] = f[m]
          BY <2>2, <2>3
        <4>. QED
          BY <3>1, <4>1, <2>2, <2>3, Zenon DEF more
      <3>2. CASE n # m + 1
        <4>1. n \in 0..m /\ (n # 0 => n - 1 \in 0..m)
          BY <2>2, <3>2
        <4>. QED
          BY <2>1, <2>3, <4>1, Zenon
      <3>. QED
        BY <3>1, <3>2
    <2>5. g = [n \in 0..m + 1 |-> g[n]]
      BY Zenon
    <2>. QED
      BY <2>2, <2>4, <2>5, Zenon
  <1>3. S \in SUBSET Nat
    BY Zenon
  <1>4. Len(q) \in S
    <2>. HIDE DEF S
    <2>. QED
      BY <1>1, <1>2, <1>3, NumbersReached
  <1>5. PICK f : f = [n \in 0..Len(q) |-> f[n]] /\ Upto(Len(q), f)
    BY <1>4, Zenon
  <1>6. f = Drained(f, q)
    BY <1>5, Zenon DEF Drained
  <1>. QED
    BY <1>6, Zenon

(* A drain keeps every handoff that was not delivered. *)
LEMMA DrainKeeps ==
    ASSUME NEW q \in Seq(Workers)
    PROVE  /\ Undelivered(q) \in Seq(Workers)
           /\ Bodies(q) \subseteq Bodies(Undelivered(q)) \cup deliveredJobs
  <1>1. PICK f : f = Drained(f, q) /\ Undelivered(q) = f[Len(q)]
    BY DrainReached, Zenon DEF Undelivered, Drained
  <1>. DEFINE Keeps(n) ==
                 /\ f[n] \in Seq(Workers)
                 /\ \A i \in 1..n : q[i] \in deliveredJobs \/ \E k \in DOMAIN f[n] : f[n][k] = q[i]
              S == {n \in Nat : n <= Len(q) => Keeps(n)}
  <1>2. \A n \in 0..Len(q) :
           f[n] = IF n = 0 THEN <<>>
                  ELSE IF q[n] \in deliveredJobs THEN f[n - 1] ELSE Append(f[n - 1], q[n])
    BY <1>1, Zenon DEF Drained
  <1>3. 0 \in S
    <2>1. f[0] = <<>>
      BY <1>2
    <2>2. <<>> \in Seq(Workers) /\ 1..0 = {} /\ 0 \in Nat
      OBVIOUS
    <2>. QED
      BY <2>1, <2>2, Zenon
  <1>4. ASSUME NEW n \in S PROVE n + 1 \in S
    <2>. SUFFICES ASSUME n + 1 <= Len(q) PROVE Keeps(n + 1)
      OBVIOUS
    <2>1. n \in Nat /\ n + 1 \in 1..Len(q) /\ n + 1 \in 0..Len(q) /\ (n + 1) - 1 = n /\ n + 1 # 0
      OBVIOUS
    <2>2. Keeps(n)
      BY <2>1
    <2>3. f[n + 1] = IF q[n + 1] \in deliveredJobs THEN f[n] ELSE Append(f[n], q[n + 1])
      BY <1>2, <2>1
    <2>4. \A i \in 1..n + 1 : i = n + 1 \/ i \in 1..n
      BY <2>1
    <2>5. CASE q[n + 1] \notin deliveredJobs
      <3>1. f[n + 1] = Append(f[n], q[n + 1]) /\ q[n + 1] \in Workers
        BY <2>1, <2>3, <2>5
      <3>2. /\ f[n + 1] \in Seq(Workers) /\ f[n + 1][Len(f[n]) + 1] = q[n + 1]
            /\ Len(f[n]) + 1 \in DOMAIN f[n + 1]
            /\ \A k \in DOMAIN f[n] : k \in DOMAIN f[n + 1] /\ f[n + 1][k] = f[n][k]
        BY <2>2, <3>1
      <3>. QED
        BY <2>2, <2>4, <3>2, Zenon
    <2>6. CASE q[n + 1] \in deliveredJobs
      <3>1. f[n + 1] = f[n]
        BY <2>3, <2>6, Zenon
      <3>. QED
        BY <2>2, <2>4, <2>6, <3>1, Zenon
    <2>. QED
      BY <2>5, <2>6, Zenon
  <1>5. Keeps(Len(q))
    <2>1. S \in SUBSET Nat
      BY Zenon
    <2>2. Len(q) \in Nat /\ Len(q) <= Len(q)
      OBVIOUS
    <2>3. Len(q) \in S
      <3>. HIDE DEF S
      <3>. QED
        BY <1>3, <1>4, <2>1, <2>2, NumbersReached, Zenon
    <2>. QED
      BY <2>2, <2>3, Zenon
  <1>6. DOMAIN q = 1..Len(q)
    OBVIOUS
  <1>. QED
    BY <1>1, <1>5, <1>6, Zenon DEF Bodies

-----------------------------------------------------------------------------
(* The messages of the history, and the calls of a reply.                   *)
Body == Workers \cup Messages \cup {None}
Ids == Nat \X Nat
Entry ==
    [role: {"user"}, body: Body] \cup [role: {"tool"}, id: Ids, body: Body]
      \cup [role: {"assistant"}, calls: Seq(Ids)]
Served == [id: Ids, call: ToolCalls]

(* The steps of the run: those without a run in flight, those about a call  *)
(* of the reply, and those that write what was taken off a queue.           *)
Steps == {"idle", "top", "write", "steer", "writeSteer", "read", "budget", "call", "charge", "reply",
          "complete", "tools", "spawn", "reserve", "create", "join", "wait", "result", "exit",
          "lastDrain", "lastWrite"}
Without == {"idle", "lastDrain", "lastWrite"}
OfJob == {"spawn", "reserve", "create", "join", "wait"}
Writing == {"write", "lastWrite", "writeSteer"}

StoreTyped ==
    /\ history \in Seq(Entry) /\ spent \in Nat
    /\ job \in [Workers -> {"absent", "running", "finished"}] /\ slice \in [Workers -> 0..Budget]
MemoryTyped ==
    /\ running \in {0, 1} /\ pendingHandoffs \in Seq(Workers)
    /\ deliveredJobs \subseteq Workers /\ steers \in Seq(Messages)
RunTyped ==
    /\ pc \in Steps /\ ctx \in {"live", "ended"} /\ calls \in Seq(Served)
    /\ row \in Nat /\ available \in Nat /\ got \in Workers \cup {None}
    /\ runs \in 0..MaxRuns /\ turns \in 0..MaxTurns
WorkerTyped ==
    /\ wpc \in [Workers -> {"none", "run", "finish", "charge", "deliver", "write", "done"}]
    /\ cost \in [Workers -> 0..Budget]
RecordTyped ==
    steered \in Seq(Messages) /\ returned \subseteq Messages /\ refused \subseteq Workers \cup Messages

(* Where the run is, what it has in hand and what waits for it.             *)
Control(p, rn, cs, hd, gt, ph) ==
    /\ p \in Without => rn = 0
    /\ p \notin Without => rn = 1
    /\ p \in OfJob \cup {"result"} => cs # <<>>
    /\ p \in OfJob => Head(cs).call.tool \in {"spawn", "wait"}
    /\ p \in {"write", "lastWrite"} => hd \in Seq(Workers)
    /\ p = "writeSteer" => hd \in Seq(Messages)
    /\ p \notin Writing => hd = <<>>
    /\ gt # None => p = "result"
    /\ p \in {"idle", "lastWrite"} => ph = <<>>

(* The results of workers: one that job wait returned is being written or   *)
(* was, so that a drain may drop its handoff.                               *)
Results(ca, ph, hd, gt, rf, dj, wp) ==
    /\ \A w \in Workers \ Shared :
          wp[w] = "done" => w \in ca \cup Bodies(ph) \cup Bodies(hd) \cup {gt} \cup rf
    /\ \A w \in dj : w \in ca \cup {gt} \cup rf

(* The accepted messages Q, in order: b that are dealt with, those in hand, *)
(* those that wait.                                                         *)
Lines(b, Q, s, h) ==
    /\ b + Len(h) + Len(s) = Len(Q)
    /\ \A k \in 1..Len(h) : h[k] = Q[b + k]
    /\ \A k \in 1..Len(s) : s[k] = Q[b + Len(h) + k]
    /\ \A i, j \in 1..Len(Q) : Q[i] = Q[j] => i = j

(* Of a message that is dealt with one thing became, of others nothing.     *)
Dealt(b, Q, ca, re, rf) ==
    /\ \A i \in 1..b : Q[i] \in ca \cup re \cup rf
    /\ \A m \in Messages : m \in ca \cup re \cup rf => \E i \in 1..b : Q[i] = m
    /\ \A m \in Messages : ~(m \in ca /\ m \in re) /\ ~(m \in ca /\ m \in rf) /\ ~(m \in re /\ m \in rf)

(* What is delivered stands in the order it was accepted.                   *)
InOrder(hs, Q) ==
    \A i, j \in DOMAIN hs :
       hs[i].role = "user" /\ hs[j].role = "user" /\ i < j =>
         \A a, b \in DOMAIN Q : Q[a] = hs[i].body /\ Q[b] = hs[j].body => a < b

InHand == IF pc = "writeSteer" THEN held ELSE <<>>

Steering ==
    /\ InOrder(history, steered)
    /\ \E b \in Nat : Lines(b, steered, steers, InHand) /\ Dealt(b, steered, Carried, returned, refused)

WorkersIInv ==
    /\ StoreTyped /\ MemoryTyped /\ RunTyped /\ WorkerTyped /\ RecordTyped
    /\ Control(pc, running, calls, held, got, pendingHandoffs)
    /\ Results(Carried, pendingHandoffs, held, got, refused, deliveredJobs, wpc)
    /\ Steering

-----------------------------------------------------------------------------
(* A sequence with something behind it. *)
LEMMA AppendParts ==
    ASSUME NEW T, NEW q \in Seq(T), NEW x \in T
    PROVE  /\ Append(q, x) \in Seq(T) /\ Len(q) \in Nat /\ Len(Append(q, x)) = Len(q) + 1
           /\ DOMAIN q = 1..Len(q) /\ DOMAIN Append(q, x) = 1..(Len(q) + 1)
           /\ Append(q, x)[Len(q) + 1] = x
           /\ \A i \in 1..Len(q) : Append(q, x)[i] = q[i]
  OBVIOUS

(* What a sequence holds, with something behind it and without its head. *)
LEMMA AppendBodies ==
    ASSUME NEW T, NEW q \in Seq(T), NEW x \in T
    PROVE  Append(q, x) \in Seq(T) /\ Bodies(Append(q, x)) = Bodies(q) \cup {x}
  <1>. DEFINE w == Append(q, x)
  <1>1. /\ w \in Seq(T) /\ Len(q) \in Nat /\ DOMAIN q = 1..Len(q) /\ DOMAIN w = 1..(Len(q) + 1)
        /\ w[Len(q) + 1] = x /\ \A i \in 1..Len(q) : w[i] = q[i]
    OBVIOUS
  <1>. HIDE DEF w
  <1>2. /\ \A i \in DOMAIN w : i \in DOMAIN q \/ i = Len(q) + 1
        /\ \A i \in DOMAIN q : i \in DOMAIN w
        /\ Len(q) + 1 \in DOMAIN w
    BY <1>1
  <1>3. Bodies(w) = Bodies(q) \cup {x}
    BY <1>1, <1>2, Zenon DEF Bodies
  <1>. QED
    BY <1>1, <1>3, Zenon DEF w

(* A sequence without its head. *)
LEMMA TailParts ==
    ASSUME NEW T, NEW q \in Seq(T), q # <<>>
    PROVE  /\ Head(q) \in T /\ Head(q) = q[1] /\ Tail(q) \in Seq(T) /\ Len(q) \in Nat /\ Len(q) > 0
           /\ Len(Tail(q)) = Len(q) - 1
           /\ \A i \in 1..(Len(q) - 1) : Tail(q)[i] = q[i + 1]
  OBVIOUS

(* What a sequence holds, without its head. *)
LEMMA TailBodies ==
    ASSUME NEW T, NEW q \in Seq(T), q # <<>>
    PROVE  /\ Head(q) \in T /\ Tail(q) \in Seq(T)
           /\ \A x \in Bodies(q) : x = Head(q) \/ x \in Bodies(Tail(q))
  <1>. DEFINE t == Tail(q)
  <1>1. /\ Head(q) \in T /\ Head(q) = q[1] /\ t \in Seq(T) /\ Len(q) \in Nat /\ Len(q) > 0
        /\ DOMAIN q = 1..Len(q) /\ DOMAIN t = 1..(Len(q) - 1)
        /\ \A i \in 1..(Len(q) - 1) : t[i] = q[i + 1]
    OBVIOUS
  <1>. HIDE DEF t
  <1>2. ASSUME NEW i \in DOMAIN q PROVE q[i] = Head(q) \/ q[i] \in Bodies(t)
    <2>1. CASE i = 1
      BY <1>1, <2>1, Zenon
    <2>2. CASE i # 1
      <3>1. i - 1 \in DOMAIN t /\ t[i - 1] = q[i]
        BY <1>1, <2>2
      <3>2. PICK k \in DOMAIN t : t[k] = q[i]
        BY <3>1, Zenon
      <3>. QED
        BY <3>2, Zenon DEF Bodies
    <2>. QED
      BY <2>1, <2>2, Zenon
  <1>3. \A x \in Bodies(q) : x = Head(q) \/ x \in Bodies(t)
    BY <1>2, Zenon DEF Bodies
  <1>. QED
    BY <1>1, <1>3, Zenon DEF t

(* What a history carries. *)
CarriedIn(h) == {h[k].body : k \in {i \in DOMAIN h : h[i].role # "assistant"}}

(* A message behind a history adds what it carries. *)
LEMMA CarriedNext ==
    ASSUME NEW h \in Seq(Entry), NEW msg \in Entry
    PROVE  /\ Append(h, msg) \in Seq(Entry) /\ CarriedIn(h) \subseteq CarriedIn(Append(h, msg))
           /\ msg.role # "assistant" => CarriedIn(Append(h, msg)) = CarriedIn(h) \cup {msg.body}
           /\ msg.role = "assistant" => CarriedIn(Append(h, msg)) = CarriedIn(h)
  <1>. DEFINE w == Append(h, msg)
  <1>1. /\ w \in Seq(Entry) /\ Len(h) \in Nat /\ DOMAIN h = 1..Len(h) /\ DOMAIN w = 1..(Len(h) + 1)
        /\ w[Len(h) + 1] = msg /\ \A i \in 1..Len(h) : w[i] = h[i]
    BY AppendParts
  <1>. HIDE DEF w
  <1>2. /\ \A i \in DOMAIN w : i \in DOMAIN h \/ i = Len(h) + 1
        /\ \A i \in DOMAIN h : i \in DOMAIN w /\ w[i] = h[i]
        /\ Len(h) + 1 \in DOMAIN w
    BY <1>1
  <1>3. CarriedIn(h) \subseteq CarriedIn(w)
    BY <1>2, Zenon DEF CarriedIn
  <1>4. msg.role # "assistant" => CarriedIn(w) = CarriedIn(h) \cup {msg.body}
    BY <1>1, <1>2, Zenon DEF CarriedIn
  <1>5. msg.role = "assistant" => CarriedIn(w) = CarriedIn(h)
    BY <1>1, <1>2, Zenon DEF CarriedIn
  <1>. QED
    BY <1>1, <1>3, <1>4, <1>5, Zenon DEF w

(* The messages the harness writes. *)
LEMMA EntryKinds ==
    /\ \A x \in Body : User(x) \in Entry /\ User(x).role = "user" /\ User(x).body = x
    /\ \A x \in Body, id \in Ids : Tool(id, x) \in Entry /\ Tool(id, x).role = "tool" /\ Tool(id, x).body = x
    /\ \A ids \in Seq(Ids) : Assistant(ids) \in Entry /\ Assistant(ids).role = "assistant"
    /\ "user" # "assistant" /\ "tool" # "assistant" /\ "tool" # "user"
  BY DEF Entry, User, Tool, Assistant

-----------------------------------------------------------------------------
(* A person steers a message into the run. *)
LEMMA LinesAccept ==
    ASSUME NEW b \in Nat, NEW Q \in Seq(Messages), NEW s \in Seq(Messages), NEW h \in Seq(Messages),
           Lines(b, Q, s, h), NEW m \in Messages, m \notin Bodies(Q)
    PROVE  Lines(b, Append(Q, m), Append(s, m), h)
  <1>. DEFINE P == Append(Q, m)
              t == Append(s, m)
  <1>1. /\ Len(Q) \in Nat /\ Len(P) = Len(Q) + 1 /\ P[Len(Q) + 1] = m /\ \A i \in 1..Len(Q) : P[i] = Q[i]
        /\ Len(s) \in Nat /\ Len(t) = Len(s) + 1 /\ t[Len(s) + 1] = m /\ \A i \in 1..Len(s) : t[i] = s[i]
        /\ Len(h) \in Nat /\ DOMAIN Q = 1..Len(Q)
    BY AppendParts
  <1>. HIDE DEF P, t
  <1>2. /\ b + Len(h) + Len(s) = Len(Q)
        /\ \A k \in 1..Len(h) : h[k] = Q[b + k]
        /\ \A k \in 1..Len(s) : s[k] = Q[b + Len(h) + k]
        /\ \A i, j \in 1..Len(Q) : Q[i] = Q[j] => i = j
    BY Zenon DEF Lines
  <1>3. \A i \in 1..Len(Q) : Q[i] # m
    <2>1. \A i \in DOMAIN Q : Q[i] # m
      BY Zenon DEF Bodies
    <2>. QED
      BY <1>1, <2>1, Zenon
  <1>4. b + Len(h) + Len(t) = Len(P)
    <2>1. Len(t) = Len(s) + 1 /\ Len(P) = Len(Q) + 1 /\ b + Len(h) + Len(s) = Len(Q)
      BY <1>1, <1>2, Zenon
    <2>2. Len(Q) \in Nat /\ Len(s) \in Nat /\ Len(h) \in Nat
      BY <1>1, Zenon
    <2>. QED
      BY <2>1, <2>2
  <1>5. \A k \in 1..Len(h) : h[k] = P[b + k]
    BY <1>1, <1>2
  <1>6. \A k \in 1..Len(t) : t[k] = P[b + Len(h) + k]
    BY <1>1, <1>2
  <1>7. \A i, j \in 1..Len(P) : P[i] = P[j] => i = j
    <2>1. \A i \in 1..Len(P) : i \in 1..Len(Q) \/ i = Len(Q) + 1
      BY <1>1
    <2>. SUFFICES ASSUME NEW i \in 1..Len(P), NEW j \in 1..Len(P), P[i] = P[j] PROVE i = j
      BY Zenon
    <2>2. CASE i \in 1..Len(Q) /\ j \in 1..Len(Q)
      <3>1. Q[i] = Q[j]
        BY <1>1, <2>2, Zenon
      <3>. QED
        BY <1>2, <2>2, <3>1, Zenon
    <2>3. CASE i \in 1..Len(Q) /\ j = Len(Q) + 1
      BY <1>1, <1>3, <2>3, Zenon
    <2>4. CASE i = Len(Q) + 1 /\ j \in 1..Len(Q)
      BY <1>1, <1>3, <2>4, Zenon
    <2>. QED
      BY <2>1, <2>2, <2>3, <2>4, Zenon
  <1>. QED
    BY <1>4, <1>5, <1>6, <1>7, Zenon DEF Lines, P, t

(* Nothing has become of a message that was just accepted. *)
LEMMA DealtAccept ==
    ASSUME NEW b \in Nat, NEW Q \in Seq(Messages), NEW ca, NEW re, NEW rf, NEW m \in Messages,
           b <= Len(Q), Dealt(b, Q, ca, re, rf)
    PROVE  Dealt(b, Append(Q, m), ca, re, rf)
  <1>1. \A i \in 1..b : Append(Q, m)[i] = Q[i]
    BY AppendParts
  <1>. QED
    BY <1>1, Zenon DEF Dealt

(* The waiting messages are taken in hand. *)
LEMMA LinesTake ==
    ASSUME NEW b \in Nat, NEW Q \in Seq(Messages), NEW s \in Seq(Messages), Lines(b, Q, s, <<>>)
    PROVE  Lines(b, Q, <<>>, s)
  BY DEF Lines

(* The first in hand is dealt with. *)
LEMMA LinesNext ==
    ASSUME NEW b \in Nat, NEW Q \in Seq(Messages), NEW s \in Seq(Messages), NEW h \in Seq(Messages),
           Lines(b, Q, s, h), h # <<>>
    PROVE  /\ Lines(b + 1, Q, s, Tail(h)) /\ b + 1 \in Nat /\ b + 1 \in 1..Len(Q) /\ Q[b + 1] = Head(h)
  <1>. DEFINE t == Tail(h)
  <1>1. /\ Len(Q) \in Nat /\ Len(s) \in Nat /\ Len(h) \in Nat /\ Len(h) > 0
        /\ Head(h) = h[1] /\ Len(t) = Len(h) - 1 /\ \A i \in 1..(Len(h) - 1) : t[i] = h[i + 1]
    BY TailParts
  <1>. HIDE DEF t
  <1>2. /\ b + Len(h) + Len(s) = Len(Q)
        /\ \A k \in 1..Len(h) : h[k] = Q[b + k]
        /\ \A k \in 1..Len(s) : s[k] = Q[b + Len(h) + k]
        /\ \A i, j \in 1..Len(Q) : Q[i] = Q[j] => i = j
    BY Zenon DEF Lines
  <1>3. (b + 1) + Len(t) + Len(s) = Len(Q) /\ b + 1 \in Nat /\ b + 1 \in 1..Len(Q)
    <2>1. Len(t) = Len(h) - 1 /\ Len(h) > 0 /\ b + Len(h) + Len(s) = Len(Q)
      BY <1>1, <1>2, Zenon
    <2>2. Len(Q) \in Nat /\ Len(s) \in Nat /\ Len(h) \in Nat
      BY <1>1, Zenon
    <2>. QED
      BY <2>1, <2>2
  <1>4. Q[b + 1] = Head(h)
    BY <1>1, <1>2
  <1>5. \A k \in 1..Len(t) : t[k] = Q[(b + 1) + k]
    <2>. TAKE k \in 1..Len(t)
    <2>1. k + 1 \in 1..Len(h) /\ t[k] = h[k + 1] /\ b + (k + 1) = (b + 1) + k
      BY <1>1
    <2>. QED
      BY <1>2, <2>1, Zenon
  <1>6. \A k \in 1..Len(s) : s[k] = Q[(b + 1) + Len(t) + k]
    <2>1. \A k \in 1..Len(s) : (b + 1) + Len(t) + k = b + Len(h) + k
      BY <1>1
    <2>. QED
      BY <1>2, <2>1, Zenon
  <1>. QED
    BY <1>2, <1>3, <1>4, <1>5, <1>6, Zenon DEF Lines, t

(* The first in hand is delivered or refused, as none before it was. *)
LEMMA DealtNext ==
    ASSUME NEW b \in Nat, NEW Q \in Seq(Messages), NEW ca, NEW re, NEW rf, b + 1 \in 1..Len(Q),
           \A i, j \in 1..Len(Q) : Q[i] = Q[j] => i = j, Dealt(b, Q, ca, re, rf),
           NEW ca2, NEW rf2, \/ ca2 = ca \cup {Q[b + 1]} /\ rf2 = rf
                             \/ ca2 = ca /\ rf2 = rf \cup {Q[b + 1]}
    PROVE  Dealt(b + 1, Q, ca2, re, rf2)
  <1>1. /\ b + 1 \in 1..(b + 1) /\ \A i \in 1..(b + 1) : i \in 1..b \/ i = b + 1
        /\ \A i \in 1..b : i \in 1..(b + 1) /\ i \in 1..Len(Q) /\ i # b + 1
    OBVIOUS
  <1>2. Q[b + 1] \notin ca \cup re \cup rf
    <2>1. Q[b + 1] \in Messages
      OBVIOUS
    <2>. QED
      BY <1>1, <2>1, Zenon DEF Dealt
  <1>3. \A i \in 1..(b + 1) : Q[i] \in ca2 \cup re \cup rf2
    BY <1>1, Zenon DEF Dealt
  <1>4. \A m \in Messages : m \in ca2 \cup re \cup rf2 => \E i \in 1..(b + 1) : Q[i] = m
    <2>1. \A m \in Messages : m \in ca \cup re \cup rf => \E i \in 1..(b + 1) : Q[i] = m
      BY <1>1, Zenon DEF Dealt
    <2>2. \A m : m \in ca2 \cup re \cup rf2 => m \in ca \cup re \cup rf \/ m = Q[b + 1]
      BY Zenon
    <2>. QED
      BY <1>1, <2>1, <2>2, Zenon
  <1>5. \A m \in Messages : ~(m \in ca2 /\ m \in re) /\ ~(m \in ca2 /\ m \in rf2) /\ ~(m \in re /\ m \in rf2)
    BY <1>2, Zenon DEF Dealt
  <1>. QED
    BY <1>3, <1>4, <1>5, Zenon DEF Dealt

(* What waits is given back. *)
LEMMA LinesBack ==
    ASSUME NEW b \in Nat, NEW Q \in Seq(Messages), NEW s \in Seq(Messages), Lines(b, Q, s, <<>>)
    PROVE  /\ Lines(Len(Q), Q, <<>>, <<>>) /\ Len(Q) \in Nat /\ b <= Len(Q)
           /\ \A k \in DOMAIN s : b + k \in 1..Len(Q) /\ b + k \notin 1..b /\ s[k] = Q[b + k]
           /\ \A i \in 1..Len(Q) : i \in 1..b \/ (i - b \in DOMAIN s /\ s[i - b] = Q[i])
  <1>1. /\ Len(Q) \in Nat /\ Len(s) \in Nat /\ DOMAIN s = 1..Len(s) /\ Len(<<>>) = 0
        /\ b + 0 + Len(s) = Len(Q)
        /\ \A k \in 1..Len(s) : s[k] = Q[b + 0 + k]
    BY DEF Lines
  <1>2. \A i, j \in 1..Len(Q) : Q[i] = Q[j] => i = j
    BY Zenon DEF Lines
  <1>3. \A k \in DOMAIN s : b + k \in 1..Len(Q) /\ b + k \notin 1..b /\ b + 0 + k = b + k
    BY <1>1
  <1>4. \A i \in 1..Len(Q) : i \in 1..b \/ (i - b \in DOMAIN s /\ b + 0 + (i - b) = i)
    BY <1>1
  <1>5. \A k \in DOMAIN s : s[k] = Q[b + k]
    BY <1>1, <1>3, Zenon
  <1>6. \A i \in 1..Len(Q) : i - b \in DOMAIN s => s[i - b] = Q[i]
    BY <1>1
  <1>7. Lines(Len(Q), Q, <<>>, <<>>)
    <2>1. Len(Q) + Len(<<>>) + Len(<<>>) = Len(Q) /\ 1..Len(<<>>) = {}
      BY <1>1
    <2>. QED
      BY <1>2, <2>1, Zenon DEF Lines
  <1>8. b <= Len(Q)
    BY <1>1
  <1>. QED
    BY <1>1, <1>3, <1>4, <1>5, <1>6, <1>7, <1>8, Zenon

(* What is given back had not been dealt with. *)
LEMMA DealtBack ==
    ASSUME NEW b \in Nat, NEW Q \in Seq(Messages), NEW s \in Seq(Messages), NEW ca, NEW re, NEW rf,
           Lines(b, Q, s, <<>>), Dealt(b, Q, ca, re, rf)
    PROVE  Dealt(Len(Q), Q, ca, re \cup Bodies(s), rf)
  <1>1. /\ b <= Len(Q) /\ Len(Q) \in Nat
        /\ \A k \in DOMAIN s : b + k \in 1..Len(Q) /\ b + k \notin 1..b /\ s[k] = Q[b + k]
        /\ \A i \in 1..Len(Q) : i \in 1..b \/ (i - b \in DOMAIN s /\ s[i - b] = Q[i])
    BY LinesBack, Zenon
  <1>2. \A i \in 1..b : i \in 1..Len(Q)
    BY <1>1
  <1>3. \A i, j \in 1..Len(Q) : Q[i] = Q[j] => i = j
    BY Zenon DEF Lines
  <1>4. \A x \in Bodies(s) : \E i \in 1..Len(Q) : i \notin 1..b /\ Q[i] = x
    <2>. TAKE x \in Bodies(s)
    <2>1. PICK k \in DOMAIN s : x = s[k]
      BY Zenon DEF Bodies
    <2>. QED
      BY <1>1, <2>1, Zenon
  <1>5. \A m \in Messages : m \in Bodies(s) => m \notin ca \cup re \cup rf
    BY <1>2, <1>3, <1>4, Zenon DEF Dealt
  <1>6. \A i \in 1..Len(Q) : Q[i] \in ca \cup (re \cup Bodies(s)) \cup rf
    <2>. TAKE i \in 1..Len(Q)
    <2>1. CASE i \in 1..b
      BY <2>1, Zenon DEF Dealt
    <2>2. CASE i - b \in DOMAIN s /\ s[i - b] = Q[i]
      <3>1. PICK k \in DOMAIN s : s[k] = Q[i]
        BY <2>2, Zenon
      <3>. QED
        BY <3>1, Zenon DEF Bodies
    <2>. QED
      BY <1>1, <2>1, <2>2, Zenon
  <1>7. \A m \in Messages : m \in ca \cup (re \cup Bodies(s)) \cup rf => \E i \in 1..Len(Q) : Q[i] = m
    BY <1>2, <1>4, Zenon DEF Dealt
  <1>8. \A m \in Messages : /\ ~(m \in ca /\ m \in re \cup Bodies(s)) /\ ~(m \in ca /\ m \in rf)
                            /\ ~(m \in re \cup Bodies(s) /\ m \in rf)
    BY <1>5, Zenon DEF Dealt
  <1>. QED
    BY <1>6, <1>7, <1>8, Zenon DEF Dealt

(* Other things are written. *)
LEMMA DealtAside ==
    ASSUME NEW b, NEW Q, NEW ca, NEW re, NEW rf, NEW ca2, NEW rf2, Dealt(b, Q, ca, re, rf),
           \A i \in 1..b : Q[i] \in Messages,
           \A m \in Messages : (m \in ca2 <=> m \in ca) /\ (m \in rf2 <=> m \in rf)
    PROVE  Dealt(b, Q, ca2, re, rf2)
  BY Zenon DEF Dealt

(* The order, with something else behind. *)
LEMMA OrderAside ==
    ASSUME NEW h \in Seq(Entry), NEW msg \in Entry, NEW Q \in Seq(Messages), InOrder(h, Q),
           msg.role = "user" => msg.body \notin Messages
    PROVE  InOrder(Append(h, msg), Q)
  <1>. DEFINE w == Append(h, msg)
  <1>1. /\ Len(h) \in Nat /\ DOMAIN h = 1..Len(h) /\ DOMAIN w = 1..(Len(h) + 1)
        /\ w[Len(h) + 1] = msg /\ \A i \in 1..Len(h) : w[i] = h[i]
    BY AppendParts
  <1>. HIDE DEF w
  <1>2. /\ \A i \in DOMAIN w : i \in DOMAIN h \/ i = Len(h) + 1
        /\ \A i, j \in DOMAIN w : i < j => i \in DOMAIN h
        /\ \A i \in DOMAIN h : w[i] = h[i]
    BY <1>1
  <1>3. \A a \in DOMAIN Q : Q[a] \in Messages
    OBVIOUS
  <1>. SUFFICES ASSUME NEW i \in DOMAIN w, NEW j \in DOMAIN w, w[i].role = "user", w[j].role = "user", i < j,
                       NEW a \in DOMAIN Q, NEW c \in DOMAIN Q, Q[a] = w[i].body, Q[c] = w[j].body
                PROVE  a < c
    BY Zenon DEF InOrder, w
  <1>4. j \in DOMAIN h
    BY <1>1, <1>2, <1>3, Zenon
  <1>5. i \in DOMAIN h /\ w[i] = h[i] /\ w[j] = h[j]
    BY <1>2, <1>4, Zenon
  <1>6. h[i].role = "user" /\ h[j].role = "user" /\ Q[a] = h[i].body /\ Q[c] = h[j].body
    BY <1>5, Zenon
  <1>. QED
    BY <1>4, <1>5, <1>6, Zenon DEF InOrder

(* The order, when the next of the accepted messages is delivered. *)
LEMMA OrderNext ==
    ASSUME NEW h \in Seq(Entry), NEW msg \in Entry, NEW Q \in Seq(Messages), InOrder(h, Q),
           NEW b \in Nat, b + 1 \in 1..Len(Q), msg.body = Q[b + 1],
           \A i, j \in 1..Len(Q) : Q[i] = Q[j] => i = j,
           \A m \in Messages : m \in CarriedIn(h) => \E i \in 1..b : Q[i] = m
    PROVE  InOrder(Append(h, msg), Q)
  <1>. DEFINE w == Append(h, msg)
  <1>1. /\ Len(h) \in Nat /\ DOMAIN h = 1..Len(h) /\ DOMAIN w = 1..(Len(h) + 1)
        /\ w[Len(h) + 1] = msg /\ \A i \in 1..Len(h) : w[i] = h[i]
    BY AppendParts
  <1>. HIDE DEF w
  <1>2. /\ \A i \in DOMAIN w : i \in DOMAIN h \/ i = Len(h) + 1
        /\ \A i, j \in DOMAIN w : i < j => i \in DOMAIN h
        /\ \A i \in DOMAIN h : w[i] = h[i]
    BY <1>1
  <1>3. DOMAIN Q = 1..Len(Q) /\ \A a \in DOMAIN Q : Q[a] \in Messages
    OBVIOUS
  <1>4. \A i \in 1..b : i \in 1..Len(Q) /\ i < b + 1
    OBVIOUS
  <1>. SUFFICES ASSUME NEW i \in DOMAIN w, NEW j \in DOMAIN w, w[i].role = "user", w[j].role = "user", i < j,
                       NEW a \in DOMAIN Q, NEW c \in DOMAIN Q, Q[a] = w[i].body, Q[c] = w[j].body
                PROVE  a < c
    BY Zenon DEF InOrder, w
  <1>5. i \in DOMAIN h /\ w[i] = h[i]
    BY <1>2, Zenon
  <1>6. CASE j \in DOMAIN h
    <2>1. w[j] = h[j]
      BY <1>2, <1>6, Zenon
    <2>2. h[i].role = "user" /\ h[j].role = "user" /\ Q[a] = h[i].body /\ Q[c] = h[j].body
      BY <1>5, <2>1, Zenon
    <2>. QED
      BY <1>5, <1>6, <2>2, Zenon DEF InOrder
  <1>7. CASE j = Len(h) + 1
    <2>1. c = b + 1
      BY <1>1, <1>3, <1>7, Zenon
    <2>2. "user" # "assistant"
      OBVIOUS
    <2>3. Q[a] \in CarriedIn(h)
      <3>1. h[i].role # "assistant" /\ Q[a] = h[i].body
        BY <1>5, <2>2, Zenon
      <3>2. i \in {k \in DOMAIN h : h[k].role # "assistant"}
        BY <1>5, <3>1, Zenon
      <3>. QED
        BY <3>1, <3>2, Zenon DEF CarriedIn
    <2>4. PICK k \in 1..b : Q[k] = Q[a]
      BY <1>3, <2>3, Zenon
    <2>5. k = a
      BY <1>3, <1>4, <2>4, Zenon
    <2>. QED
      BY <1>4, <2>1, <2>4, <2>5, Zenon
  <1>. QED
    BY <1>2, <1>6, <1>7, Zenon

(* The order, when another message is accepted. *)
LEMMA OrderAccept ==
    ASSUME NEW h \in Seq(Entry), NEW Q \in Seq(Messages), InOrder(h, Q), NEW m \in Messages,
           m \notin CarriedIn(h)
    PROVE  InOrder(h, Append(Q, m))
  <1>. DEFINE P == Append(Q, m)
  <1>1. /\ Len(Q) \in Nat /\ DOMAIN Q = 1..Len(Q) /\ DOMAIN P = 1..(Len(Q) + 1)
        /\ P[Len(Q) + 1] = m /\ \A i \in 1..Len(Q) : P[i] = Q[i]
    BY AppendParts
  <1>. HIDE DEF P
  <1>2. \A i \in DOMAIN P : i \in DOMAIN Q \/ i = Len(Q) + 1
    BY <1>1
  <1>3. "user" # "assistant"
    OBVIOUS
  <1>4. \A i \in DOMAIN h : h[i].role = "user" => h[i].body # m
    BY <1>3, Zenon DEF CarriedIn
  <1>. SUFFICES ASSUME NEW i \in DOMAIN h, NEW j \in DOMAIN h, h[i].role = "user", h[j].role = "user", i < j,
                       NEW a \in DOMAIN P, NEW c \in DOMAIN P, P[a] = h[i].body, P[c] = h[j].body
                PROVE  a < c
    BY Zenon DEF InOrder, P
  <1>5. a \in DOMAIN Q /\ c \in DOMAIN Q
    BY <1>1, <1>2, <1>4, Zenon
  <1>6. Q[a] = h[i].body /\ Q[c] = h[j].body
    BY <1>1, <1>5, Zenon
  <1>. QED
    BY <1>5, <1>6, Zenon DEF InOrder

(* The units the running jobs hold. *)
LEMMA ReservedNumber == ReservedJobUSD \in Nat
  <1>. DEFINE U == Workers \X (1..Budget)
              R == {u \in U : job[u[1]] = "running" /\ u[2] <= slice[u[1]]}
  <1>1. IsFiniteSet(Workers) /\ Budget \in Nat
    BY WorkersAssumption, Zenon
  <1>2. IsFiniteSet(1..Budget)
    BY <1>1, FS_Interval
  <1>3. IsFiniteSet(U)
    BY <1>1, <1>2, FS_Product, Zenon
  <1>4. R \subseteq U
    BY Zenon
  <1>5. Cardinality(R) \in Nat
    <2>. HIDE DEF R, U
    <2>. QED
      BY <1>3, <1>4, FS_Subset, FS_CardinalityType
  <1>6. 0 \in Nat
    OBVIOUS
  <1>. QED
    BY <1>5, <1>6, Zenon DEF ReservedJobUSD

(* The slice of a worker. *)
LEMMA ShareNumber ==
    ASSUME available \in Nat, NEW d \in Divisors
    PROVE  Share(d) \in 0..Budget
  <1>1. Budget \in Nat /\ d \in Nat \ {0}
    BY WorkersAssumption, Zenon
  <1>2. \A x \in Nat : x <= Budget => x \div d \in 0..Budget
    BY <1>1, Z3
  <1>. QED
    BY <1>1, <1>2 DEF Share

-----------------------------------------------------------------------------
ControlNow == Control(pc, running, calls, held, got, pendingHandoffs)
ResultsNow == Results(Carried, pendingHandoffs, held, got, refused, deliveredJobs, wpc)

(* A step that leaves the history, the queues and what is in hand alone. *)
Quiet ==
    UNCHANGED <<history, pendingHandoffs, deliveredJobs, steers, held, got, steered, returned, refused>>

(* Such a step keeps the accounts of results and messages. *)
LEMMA QuietKeeps ==
    ASSUME ResultsNow, Steering, Quiet, ControlNow, pc # "writeSteer" \/ held = <<>> \/ pc' = pc,
           pc' # "writeSteer" \/ pc' = pc,
           \A w \in Workers \ Shared : wpc'[w] = "done" => wpc[w] = "done"
    PROVE  ResultsNow' /\ Steering'
  <1>1. InHand' = InHand
    BY Zenon DEF InHand, Quiet
  <1>2. Carried' = Carried
    BY Zenon DEF Carried, Quiet
  <1>3. ResultsNow'
    BY <1>2, Zenon DEF ResultsNow, Results, Quiet
  <1>4. Steering'
    BY <1>1, <1>2, Zenon DEF Steering, Quiet
  <1>. QED
    BY <1>3, <1>4, Zenon

(* The invariant, part by part. *)
LEMMA InvParts ==
    WorkersIInv <=> /\ StoreTyped /\ MemoryTyped /\ RunTyped /\ WorkerTyped /\ RecordTyped
                    /\ ControlNow /\ ResultsNow /\ Steering
  BY Zenon DEF WorkersIInv, ControlNow, ResultsNow

(* The run begins, and its context ends. *)
LEMMA BeginRunKeeps ==
    ASSUME WorkersIInv, BeginRun
    PROVE  WorkersIInv'
  <1>1. /\ StoreTyped /\ MemoryTyped /\ RunTyped /\ WorkerTyped /\ RecordTyped
        /\ ControlNow /\ ResultsNow /\ Steering
    BY InvParts, Zenon
  <1>2. MaxRuns \in Nat
    BY WorkersAssumption, Zenon
  <1>3. StoreTyped' /\ WorkerTyped' /\ RecordTyped'
    BY <1>1, Zenon DEF BeginRun, StoreTyped, WorkerTyped, RecordTyped, store, worker, record
  <1>4. pc = "idle" /\ pc' = "top" /\ Quiet /\ calls' = calls
    BY Zenon DEF BeginRun, Quiet, store, worker, record
  <1>5. running = 0 /\ running' = 1
    BY <1>1, <1>4 DEF BeginRun, ControlNow, Control, Without
  <1>6. MemoryTyped'
    BY <1>1, <1>4, <1>5 DEF MemoryTyped, Quiet
  <1>7. RunTyped'
    BY <1>1, <1>2, <1>4 DEF BeginRun, RunTyped, Steps
  <1>8. ControlNow'
    BY <1>1, <1>4, <1>5 DEF ControlNow, Control, Without, OfJob, Writing, Quiet
  <1>9. ResultsNow' /\ Steering'
    <2>1. pc # "writeSteer" /\ pc' # "writeSteer" /\ wpc' = wpc
      BY <1>4 DEF BeginRun, worker
    <2>. QED
      BY <1>1, <1>4, <2>1, QuietKeeps, Zenon
  <1>. QED
    BY <1>3, <1>6, <1>7, <1>8, <1>9, Zenon DEF WorkersIInv, ControlNow, ResultsNow

(* The context ends between any two steps. *)
LEMMA ContextEndsKeeps ==
    ASSUME WorkersIInv, ContextEnds
    PROVE  WorkersIInv'
  <1>1. /\ StoreTyped /\ MemoryTyped /\ RunTyped /\ WorkerTyped /\ RecordTyped
        /\ ControlNow /\ ResultsNow /\ Steering
    BY InvParts, Zenon
  <1>2. StoreTyped' /\ MemoryTyped' /\ WorkerTyped' /\ RecordTyped'
    BY <1>1, Zenon DEF ContextEnds, StoreTyped, MemoryTyped, WorkerTyped, RecordTyped, store, memory, worker, record
  <1>3. pc' = pc /\ Quiet /\ calls' = calls /\ running' = running /\ wpc' = wpc
    BY Zenon DEF ContextEnds, Quiet, store, memory, worker, record
  <1>4. RunTyped'
    BY <1>1, <1>3 DEF ContextEnds, RunTyped
  <1>5. ControlNow'
    BY <1>1, <1>3, Zenon DEF ControlNow, Control, Quiet
  <1>6. ResultsNow' /\ Steering'
    BY <1>1, <1>3, QuietKeeps, Zenon
  <1>. QED
    BY <1>2, <1>4, <1>5, <1>6, Zenon DEF WorkersIInv, ControlNow, ResultsNow

(* A step of the run that only moves on, with a run in flight. *)
MovesOn(from, to) ==
    /\ pc = from /\ pc' = to /\ UNCHANGED <<memory, held, worker, record>> /\ UNCHANGED history

(* Such a step keeps all but the types of what it sets. *)
LEMMA MovesOnKeeps ==
    ASSUME WorkersIInv, NEW from \in Steps, NEW to \in Steps, MovesOn(from, to),
           from # "writeSteer" \/ held = <<>>, held = <<>>,
           to \notin Writing, from \notin Without, to \notin Without,
           got' = got, got = None \/ to = "result",
           to \in OfJob \cup {"result"} => calls' # <<>>,
           to \in OfJob => Head(calls').call.tool \in {"spawn", "wait"}
    PROVE  MemoryTyped' /\ WorkerTyped' /\ RecordTyped' /\ ControlNow' /\ ResultsNow' /\ Steering'
  <1>1. /\ StoreTyped /\ MemoryTyped /\ RunTyped /\ WorkerTyped /\ RecordTyped
        /\ ControlNow /\ ResultsNow /\ Steering
    BY InvParts, Zenon
  <1>2. MemoryTyped' /\ WorkerTyped' /\ RecordTyped'
    BY <1>1, Zenon DEF MovesOn, MemoryTyped, WorkerTyped, RecordTyped, memory, worker, record
  <1>3. pc = from /\ pc' = to /\ Quiet /\ running' = running /\ wpc' = wpc
    BY Zenon DEF MovesOn, Quiet, memory, worker, record
  <1>4. running = 1
    BY <1>1, <1>3, Zenon DEF ControlNow, Control
  <1>5. to # "writeSteer" /\ to \notin {"write", "lastWrite"} /\ to \notin {"idle", "lastWrite"}
    BY DEF Writing, Without
  <1>6. ControlNow'
    BY <1>3, <1>4, <1>5, Zenon DEF ControlNow, Control, Quiet
  <1>7. ResultsNow' /\ Steering'
    BY <1>1, <1>3, <1>5, QuietKeeps, Zenon
  <1>. QED
    BY <1>2, <1>6, <1>7, Zenon

(* In most steps there is nothing in hand. *)
LEMMA NothingHeld ==
    ASSUME WorkersIInv, pc \notin Writing
    PROVE  held = <<>>
  BY InvParts, Zenon DEF ControlNow, Control

(* The session row is read. *)
LEMMA ReadSessionKeeps ==
    ASSUME WorkersIInv, ReadSession
    PROVE  WorkersIInv'
  <1>1. StoreTyped /\ RunTyped /\ ControlNow
    BY InvParts, Zenon
  <1>2. PICK to \in {"budget", "exit"} : MovesOn("read", to)
    BY Zenon DEF ReadSession, MovesOn, store
  <1>3. StoreTyped'
    BY <1>1, Zenon DEF StoreTyped, ReadSession, store
  <1>4. RunTyped'
    BY <1>1 DEF StoreTyped, RunTyped, ReadSession, Steps
  <1>5. pc = "read" /\ got' = got /\ calls' = calls
    BY Zenon DEF ReadSession
  <1>6. /\ "read" \in Steps /\ to \in Steps /\ to \notin Writing /\ to \notin Without /\ "read" \notin Without
        /\ "read" \notin Writing /\ to \notin OfJob \cup {"result"} /\ "read" # "result"
    BY DEF Steps, Writing, Without, OfJob
  <1>7. held = <<>> /\ got = None
    BY <1>1, <1>5, <1>6, NothingHeld, Zenon DEF ControlNow, Control
  <1>8. MemoryTyped' /\ WorkerTyped' /\ RecordTyped' /\ ControlNow' /\ ResultsNow' /\ Steering'
    BY <1>2, <1>5, <1>6, <1>7, MovesOnKeeps, Zenon
  <1>. QED
    BY <1>3, <1>4, <1>8, Zenon DEF WorkersIInv, ControlNow, ResultsNow

(* The budget is checked. *)
LEMMA CheckBudgetKeeps ==
    ASSUME WorkersIInv, CheckBudget
    PROVE  WorkersIInv'
  <1>1. StoreTyped /\ RunTyped /\ ControlNow
    BY InvParts, Zenon
  <1>2. PICK to \in {"exit", "call"} : MovesOn("budget", to)
    BY Zenon DEF CheckBudget, MovesOn, store
  <1>3. StoreTyped'
    BY <1>1, Zenon DEF StoreTyped, CheckBudget, store
  <1>4. RunTyped'
    BY <1>1 DEF StoreTyped, RunTyped, CheckBudget, Steps
  <1>5. pc = "budget" /\ got' = got /\ calls' = calls
    BY Zenon DEF CheckBudget
  <1>6. /\ "budget" \in Steps /\ to \in Steps /\ to \notin Writing /\ to \notin Without /\ "budget" \notin Without
        /\ "budget" \notin Writing /\ to \notin OfJob \cup {"result"} /\ "budget" # "result"
    BY DEF Steps, Writing, Without, OfJob
  <1>7. held = <<>> /\ got = None
    BY <1>1, <1>5, <1>6, NothingHeld, Zenon DEF ControlNow, Control
  <1>8. MemoryTyped' /\ WorkerTyped' /\ RecordTyped' /\ ControlNow' /\ ResultsNow' /\ Steering'
    BY <1>2, <1>5, <1>6, <1>7, MovesOnKeeps, Zenon
  <1>. QED
    BY <1>3, <1>4, <1>8, Zenon DEF WorkersIInv, ControlNow, ResultsNow

(* The provider fails. *)
LEMMA CallFailsKeeps ==
    ASSUME WorkersIInv, CallFails
    PROVE  WorkersIInv'
  <1>1. StoreTyped /\ RunTyped /\ ControlNow
    BY InvParts, Zenon
  <1>2. PICK to \in {"exit"} : MovesOn("call", to)
    BY Zenon DEF CallFails, MovesOn, store
  <1>3. StoreTyped'
    BY <1>1, Zenon DEF StoreTyped, CallFails, store
  <1>4. RunTyped'
    BY <1>1 DEF StoreTyped, RunTyped, CallFails, Steps
  <1>5. pc = "call" /\ got' = got /\ calls' = calls
    BY Zenon DEF CallFails
  <1>6. /\ "call" \in Steps /\ to \in Steps /\ to \notin Writing /\ to \notin Without /\ "call" \notin Without
        /\ "call" \notin Writing /\ to \notin OfJob \cup {"result"} /\ "call" # "result"
    BY DEF Steps, Writing, Without, OfJob
  <1>7. held = <<>> /\ got = None
    BY <1>1, <1>5, <1>6, NothingHeld, Zenon DEF ControlNow, Control
  <1>8. MemoryTyped' /\ WorkerTyped' /\ RecordTyped' /\ ControlNow' /\ ResultsNow' /\ Steering'
    BY <1>2, <1>5, <1>6, <1>7, MovesOnKeeps, Zenon
  <1>. QED
    BY <1>3, <1>4, <1>8, Zenon DEF WorkersIInv, ControlNow, ResultsNow

(* The call is charged. *)
LEMMA ChargeCallKeeps ==
    ASSUME WorkersIInv, ChargeCall
    PROVE  WorkersIInv'
  <1>1. StoreTyped /\ RunTyped /\ ControlNow
    BY InvParts, Zenon
  <1>2. PICK to \in {"reply"} : MovesOn("charge", to)
    BY Zenon DEF ChargeCall, MovesOn, store
  <1>3. StoreTyped'
    BY <1>1 DEF StoreTyped, ChargeCall
  <1>4. RunTyped'
    BY <1>1 DEF StoreTyped, RunTyped, ChargeCall, Steps
  <1>5. pc = "charge" /\ got' = got /\ calls' = calls
    BY Zenon DEF ChargeCall
  <1>6. /\ "charge" \in Steps /\ to \in Steps /\ to \notin Writing /\ to \notin Without /\ "charge" \notin Without
        /\ "charge" \notin Writing /\ to \notin OfJob \cup {"result"} /\ "charge" # "result"
    BY DEF Steps, Writing, Without, OfJob
  <1>7. held = <<>> /\ got = None
    BY <1>1, <1>5, <1>6, NothingHeld, Zenon DEF ControlNow, Control
  <1>8. MemoryTyped' /\ WorkerTyped' /\ RecordTyped' /\ ControlNow' /\ ResultsNow' /\ Steering'
    BY <1>2, <1>5, <1>6, <1>7, MovesOnKeeps, Zenon
  <1>. QED
    BY <1>3, <1>4, <1>8, Zenon DEF WorkersIInv, ControlNow, ResultsNow

(* The model replies with calls. *)
LEMMA CallRepliesKeeps ==
    ASSUME WorkersIInv, NEW reply \in Replies, CallReplies(reply)
    PROVE  WorkersIInv'
  <1>1. StoreTyped /\ RunTyped /\ ControlNow
    BY InvParts, Zenon
  <1>2. PICK to \in {"charge"} : MovesOn("call", to)
    BY Zenon DEF CallReplies, MovesOn, store
  <1>3. StoreTyped'
    BY <1>1, Zenon DEF StoreTyped, CallReplies, store
  <1>4. RunTyped'
    <2>1. MaxTurns \in Nat /\ reply \in Seq(ToolCalls)
      BY WorkersAssumption, Zenon
    <2>2. turns' \in 0..MaxTurns /\ turns' \in Nat
      BY <1>1, <2>1 DEF RunTyped, CallReplies
    <2>3. calls' \in Seq(Served)
      <3>1. calls' = [k \in DOMAIN reply |-> [id |-> <<turns', k>>, call |-> reply[k]]]
        BY Zenon DEF CallReplies
      <3>2. Len(reply) \in Nat /\ DOMAIN reply = 1..Len(reply) /\ \A k \in 1..Len(reply) : reply[k] \in ToolCalls
        BY <2>1
      <3>3. \A k \in 1..Len(reply) : [id |-> <<turns', k>>, call |-> reply[k]] \in Served
        BY <2>2, <3>2 DEF Served, Ids
      <3>. QED
        BY <3>1, <3>2, <3>3
    <2>. QED
      BY <1>1, <2>2, <2>3 DEF RunTyped, CallReplies, Steps
  <1>5. pc = "call" /\ got' = got 
    BY Zenon DEF CallReplies
  <1>6. /\ "call" \in Steps /\ to \in Steps /\ to \notin Writing /\ to \notin Without /\ "call" \notin Without
        /\ "call" \notin Writing /\ to \notin OfJob \cup {"result"} /\ "call" # "result"
    BY DEF Steps, Writing, Without, OfJob
  <1>7. held = <<>> /\ got = None
    BY <1>1, <1>5, <1>6, NothingHeld, Zenon DEF ControlNow, Control
  <1>8. MemoryTyped' /\ WorkerTyped' /\ RecordTyped' /\ ControlNow' /\ ResultsNow' /\ Steering'
    BY <1>2, <1>5, <1>6, <1>7, MovesOnKeeps, Zenon
  <1>. QED
    BY <1>3, <1>4, <1>8, Zenon DEF WorkersIInv, ControlNow, ResultsNow

(* spawnWith reads the session row. *)
LEMMA SpawnReadKeeps ==
    ASSUME WorkersIInv, SpawnRead
    PROVE  WorkersIInv'
  <1>1. StoreTyped /\ RunTyped /\ ControlNow
    BY InvParts, Zenon
  <1>2. PICK to \in {"reserve"} : MovesOn("spawn", to)
    BY Zenon DEF SpawnRead, MovesOn, store
  <1>3. StoreTyped'
    BY <1>1, Zenon DEF StoreTyped, SpawnRead, store
  <1>4. RunTyped'
    <2>1. Budget \in Nat
      BY WorkersAssumption, Zenon
    <2>. QED
      BY <1>1, <2>1 DEF StoreTyped, RunTyped, SpawnRead, Steps
  <1>5. pc = "spawn" /\ got' = got /\ calls' = calls
    BY Zenon DEF SpawnRead
  <1>6. /\ "spawn" \in Steps /\ to \in Steps /\ to \notin Writing /\ to \notin Without /\ "spawn" \notin Without
        /\ "spawn" \notin Writing /\ "spawn" \in OfJob /\ "spawn" # "result"
    BY DEF Steps, Writing, Without, OfJob
  <1>7. held = <<>> /\ got = None
    BY <1>1, <1>5, <1>6, NothingHeld, Zenon DEF ControlNow, Control
  <1>9. calls' # <<>> /\ Head(calls').call.tool \in {"spawn", "wait"}
    BY <1>1, <1>5, <1>6, Zenon DEF ControlNow, Control
  <1>8. MemoryTyped' /\ WorkerTyped' /\ RecordTyped' /\ ControlNow' /\ ResultsNow' /\ Steering'
    BY <1>2, <1>5, <1>6, <1>7, <1>9, MovesOnKeeps, Zenon
  <1>. QED
    BY <1>3, <1>4, <1>8, Zenon DEF WorkersIInv, ControlNow, ResultsNow

(* spawnWith computes what is available. *)
LEMMA SpawnReserveKeeps ==
    ASSUME WorkersIInv, SpawnReserve
    PROVE  WorkersIInv'
  <1>1. StoreTyped /\ RunTyped /\ ControlNow
    BY InvParts, Zenon
  <1>2. PICK to \in {"result", "create"} : MovesOn("reserve", to)
    BY Zenon DEF SpawnReserve, MovesOn, store
  <1>3. StoreTyped'
    BY <1>1, Zenon DEF StoreTyped, SpawnReserve, store
  <1>4. RunTyped'
    <2>1. Budget \in Nat
      BY WorkersAssumption, Zenon
    <2>2. PICK r \in Nat : r = ReservedJobUSD
      BY ReservedNumber, Zenon
    <2>3. available' = (IF row + r <= Budget THEN Budget - row - r ELSE 0) /\ row \in Nat
      BY <1>1, <2>2, Zenon DEF SpawnReserve, RunTyped
    <2>4. available' \in Nat
      BY <2>1, <2>2, <2>3
    <2>. QED
      BY <1>1, <2>4 DEF RunTyped, SpawnReserve, Steps
  <1>5. pc = "reserve" /\ got' = got /\ calls' = calls
    BY Zenon DEF SpawnReserve
  <1>6. /\ "reserve" \in Steps /\ to \in Steps /\ to \notin Writing /\ to \notin Without /\ "reserve" \notin Without
        /\ "reserve" \notin Writing /\ "reserve" \in OfJob /\ "reserve" # "result"
    BY DEF Steps, Writing, Without, OfJob
  <1>7. held = <<>> /\ got = None
    BY <1>1, <1>5, <1>6, NothingHeld, Zenon DEF ControlNow, Control
  <1>9. calls' # <<>> /\ Head(calls').call.tool \in {"spawn", "wait"}
    BY <1>1, <1>5, <1>6, Zenon DEF ControlNow, Control
  <1>8. MemoryTyped' /\ WorkerTyped' /\ RecordTyped' /\ ControlNow' /\ ResultsNow' /\ Steering'
    BY <1>2, <1>5, <1>6, <1>7, <1>9, MovesOnKeeps, Zenon
  <1>. QED
    BY <1>3, <1>4, <1>8, Zenon DEF WorkersIInv, ControlNow, ResultsNow

(* job wait gives up: nothing is marked as delivered. *)
LEMMA WaitGivesUpKeeps ==
    ASSUME WorkersIInv, WaitGivesUp
    PROVE  WorkersIInv'
  <1>1. StoreTyped /\ RunTyped /\ ControlNow
    BY InvParts, Zenon
  <1>2. PICK to \in {"result"} : MovesOn("wait", to)
    BY Zenon DEF WaitGivesUp, MovesOn, store
  <1>3. StoreTyped'
    BY <1>1, Zenon DEF StoreTyped, WaitGivesUp, store
  <1>4. RunTyped'
    BY <1>1 DEF StoreTyped, RunTyped, WaitGivesUp, Steps
  <1>5. pc = "wait" /\ got' = got /\ calls' = calls
    BY Zenon DEF WaitGivesUp
  <1>6. /\ "wait" \in Steps /\ to \in Steps /\ to \notin Writing /\ to \notin Without /\ "wait" \notin Without
        /\ "wait" \notin Writing /\ "wait" \in OfJob /\ "wait" # "result"
    BY DEF Steps, Writing, Without, OfJob
  <1>7. held = <<>> /\ got = None
    BY <1>1, <1>5, <1>6, NothingHeld, Zenon DEF ControlNow, Control
  <1>9. calls' # <<>> /\ Head(calls').call.tool \in {"spawn", "wait"}
    BY <1>1, <1>5, <1>6, Zenon DEF ControlNow, Control
  <1>8. MemoryTyped' /\ WorkerTyped' /\ RecordTyped' /\ ControlNow' /\ ResultsNow' /\ Steering'
    BY <1>2, <1>5, <1>6, <1>7, <1>9, MovesOnKeeps, Zenon
  <1>. QED
    BY <1>3, <1>4, <1>8, Zenon DEF WorkersIInv, ControlNow, ResultsNow

(* Which call is served next; no result was returned yet. *)
LEMMA ServeCallKeeps ==
    ASSUME WorkersIInv, ServeCall
    PROVE  WorkersIInv'
  <1>1. StoreTyped /\ RunTyped /\ ControlNow
    BY InvParts, Zenon
  <1>2. PICK to \in {"top", "spawn", "wait", "result"} : MovesOn("tools", to) /\ to = pc'
    BY Zenon DEF ServeCall, MovesOn, store
  <1>3. StoreTyped'
    BY <1>1, Zenon DEF StoreTyped, ServeCall, store
  <1>5. pc = "tools" /\ got' = None /\ calls' = calls
    BY Zenon DEF ServeCall
  <1>4. RunTyped'
    BY <1>1, <1>2, <1>5 DEF RunTyped, ServeCall, Steps
  <1>6. /\ "tools" \in Steps /\ to \in Steps /\ to \notin Writing /\ to \notin Without /\ "tools" \notin Without
        /\ "tools" \notin Writing /\ "tools" # "result"
    BY DEF Steps, Writing, Without, OfJob
  <1>7. held = <<>> /\ got = None
    BY <1>1, <1>5, <1>6, NothingHeld, Zenon DEF ControlNow, Control
  <1>9. /\ to \in OfJob \cup {"result"} => calls' # <<>>
        /\ to \in OfJob => Head(calls').call.tool \in {"spawn", "wait"}
    <2>1. to = IF calls = <<>> THEN "top" ELSE CASE This.tool = "spawn" -> "spawn"
                  [] This.tool = "wait" -> "wait"
                  [] OTHER -> "result"
      BY <1>2, Zenon DEF ServeCall
    <2>2. "top" \notin OfJob \cup {"result"} /\ "result" \notin OfJob
      BY DEF OfJob
    <2>3. CASE calls = <<>>
      BY <2>1, <2>2, <2>3, Zenon DEF OfJob
    <2>4. CASE calls # <<>> /\ This.tool \in {"spawn", "wait"}
      BY <1>5, <2>4, Zenon DEF This
    <2>5. CASE calls # <<>> /\ This.tool \notin {"spawn", "wait"}
      BY <1>5, <2>1, <2>2, <2>5, Zenon
    <2>. QED
      BY <2>3, <2>4, <2>5, Zenon
  <1>8. MemoryTyped' /\ WorkerTyped' /\ RecordTyped' /\ ControlNow' /\ ResultsNow' /\ Steering'
    BY <1>2, <1>5, <1>6, <1>7, <1>9, MovesOnKeeps, Zenon
  <1>. QED
    BY <1>3, <1>4, <1>8, Zenon DEF WorkersIInv, ControlNow, ResultsNow

(* A job is created with its slice, or not. *)
LEMMA SpawnCreateKeeps ==
    ASSUME WorkersIInv, SpawnCreate
    PROVE  WorkersIInv'
  <1>1. /\ StoreTyped /\ MemoryTyped /\ RunTyped /\ WorkerTyped /\ RecordTyped
        /\ ControlNow /\ ResultsNow /\ Steering
    BY InvParts, Zenon
  <1>2. /\ pc = "create" /\ pc' \in {"join", "result"} /\ Quiet /\ calls' = calls /\ running' = running
        /\ UNCHANGED <<history, spent, cost>> /\ UNCHANGED <<ctx, row, available, runs, turns>>
    BY Zenon DEF SpawnCreate, Quiet, memory, record
  <1>3. /\ "create" \in OfJob /\ "create" \notin Writing /\ "create" # "result" /\ "create" \notin Without
        /\ "create" # "writeSteer"
    BY DEF OfJob, Writing, Without
  <1>4. /\ calls # <<>> /\ This.tool \in {"spawn", "wait"} /\ held = <<>> /\ got = None /\ running = 1
    BY <1>1, <1>2, <1>3, Zenon DEF ControlNow, Control, This
  <1>5. This.job \in Workers
    <2>1. calls \in Seq(Served)
      BY <1>1, Zenon DEF RunTyped
    <2>2. PICK c \in Served : c = Head(calls)
      BY <1>4, <2>1
    <2>3. c.call \in ToolCalls /\ c.call.tool \in {"spawn", "wait"}
      BY <1>4, <2>2 DEF Served, This
    <2>. QED
      BY <2>2, <2>3 DEF ToolCalls, This
  <1>6. StoreTyped' /\ wpc' \in [Workers -> {"none", "run", "finish", "charge", "deliver", "write", "done"}]
        /\ \A w \in Workers : wpc'[w] = "done" => wpc[w] = "done"
    <2>. PICK j \in Workers : j = This.job
      BY <1>5, Zenon
    <2>1. CASE UNCHANGED <<slice, job, wpc>>
      BY <1>1, <1>2, <2>1, Zenon DEF StoreTyped, WorkerTyped
    <2>2. CASE /\ \E d \in Divisors : slice' = [slice EXCEPT ![j] = Share(d)]
               /\ job' = [job EXCEPT ![j] = "running"]
               /\ wpc' = [wpc EXCEPT ![j] = "run"]
      <3>1. PICK s \in 0..Budget : slice' = [slice EXCEPT ![j] = s]
        <4>1. PICK d \in Divisors : slice' = [slice EXCEPT ![j] = Share(d)]
          BY <2>2, Zenon
        <4>2. available \in Nat
          BY <1>1, Zenon DEF RunTyped
        <4>. QED
          BY <4>1, <4>2, ShareNumber, Zenon
      <3>2. StoreTyped'
        BY <1>1, <1>2, <2>2, <3>1 DEF StoreTyped
      <3>3. wpc \in [Workers -> {"none", "run", "finish", "charge", "deliver", "write", "done"}]
        BY <1>1, Zenon DEF WorkerTyped
      <3>4. /\ wpc' \in [Workers -> {"none", "run", "finish", "charge", "deliver", "write", "done"}]
            /\ \A w \in Workers : wpc'[w] = "done" => wpc[w] = "done"
        BY <2>2, <3>3
      <3>. QED
        BY <3>2, <3>4, Zenon
    <2>. QED
      BY <2>1, <2>2, Zenon DEF SpawnCreate
  <1>7. MemoryTyped' /\ RecordTyped' /\ WorkerTyped'
    BY <1>1, <1>2, <1>6, Zenon DEF MemoryTyped, RecordTyped, WorkerTyped, Quiet
  <1>8. RunTyped'
    BY <1>1, <1>2 DEF RunTyped, Steps, Quiet
  <1>9. /\ pc' # "writeSteer" /\ pc' \notin Writing /\ pc' \notin Without /\ pc' \notin {"idle", "lastWrite"}
        /\ pc' \notin {"write", "lastWrite"}
    BY <1>2 DEF Writing, Without
  <1>10. ControlNow'
    BY <1>2, <1>4, <1>9, Zenon DEF ControlNow, Control, Quiet, This
  <1>11. ResultsNow' /\ Steering'
    BY <1>1, <1>2, <1>3, <1>6, <1>9, QuietKeeps, Zenon
  <1>. QED
    BY <1>6, <1>7, <1>8, <1>10, <1>11, Zenon DEF WorkersIInv, ControlNow, ResultsNow

(* The run leaves the count of runs. *)
LEMMA EndRunKeeps ==
    ASSUME WorkersIInv, EndRun
    PROVE  WorkersIInv'
  <1>1. /\ StoreTyped /\ MemoryTyped /\ RunTyped /\ WorkerTyped /\ RecordTyped
        /\ ControlNow /\ ResultsNow /\ Steering
    BY InvParts, Zenon
  <1>2. /\ pc = "exit" /\ pc' = "lastDrain" /\ Quiet /\ calls' = <<>> /\ running' = running - 1 /\ wpc' = wpc
        /\ row' = 0 /\ available' = 0 /\ ctx' = "ended" /\ UNCHANGED <<runs, turns>>
    BY Zenon DEF EndRun, Quiet, RunsLeft, store, worker, record
  <1>3. /\ "exit" \notin Writing /\ "exit" \notin Without /\ "lastDrain" \in Without /\ "lastDrain" \notin OfJob
        /\ "lastDrain" \notin OfJob \cup {"result"} /\ "lastDrain" \notin Writing /\ "lastDrain" # "writeSteer"
        /\ "lastDrain" \notin {"idle", "lastWrite"} /\ "lastDrain" \notin {"write", "lastWrite"} /\ "exit" # "result"
    BY DEF Writing, Without, OfJob
  <1>4. held = <<>> /\ got = None /\ running = 1
    BY <1>1, <1>2, <1>3, Zenon DEF ControlNow, Control
  <1>5. running' = 0
    BY <1>2, <1>4
  <1>6. StoreTyped' /\ WorkerTyped' /\ RecordTyped'
    BY <1>1, Zenon DEF EndRun, StoreTyped, WorkerTyped, RecordTyped, store, worker, record
  <1>7. MemoryTyped'
    BY <1>1, <1>2, <1>5 DEF MemoryTyped, Quiet
  <1>8. RunTyped'
    BY <1>1, <1>2 DEF RunTyped, Steps, Quiet
  <1>9. ControlNow'
    BY <1>2, <1>3, <1>4, <1>5, Zenon DEF ControlNow, Control, Quiet
  <1>10. ResultsNow' /\ Steering'
    BY <1>1, <1>2, <1>3, <1>4, QuietKeeps, Zenon
  <1>. QED
    BY <1>6, <1>7, <1>8, <1>9, <1>10, Zenon DEF WorkersIInv, ControlNow, ResultsNow

(* A worker runs, finishes its job and is charged. *)
LEMMA WorkerMoves ==
    ASSUME WorkersIInv, NEW w \in Workers,
           NEW to \in {"none", "run", "finish", "charge", "deliver", "write", "done"},
           to = "done" => w \in Shared,
           wpc' = [wpc EXCEPT ![w] = to], UNCHANGED <<memory, run, record>>, UNCHANGED history
    PROVE  /\ MemoryTyped' /\ RunTyped' /\ RecordTyped' /\ ControlNow' /\ ResultsNow' /\ Steering'
           /\ wpc' \in [Workers -> {"none", "run", "finish", "charge", "deliver", "write", "done"}]
  <1>1. /\ StoreTyped /\ MemoryTyped /\ RunTyped /\ WorkerTyped /\ RecordTyped
        /\ ControlNow /\ ResultsNow /\ Steering
    BY InvParts, Zenon
  <1>2. wpc \in [Workers -> {"none", "run", "finish", "charge", "deliver", "write", "done"}]
    BY <1>1, Zenon DEF WorkerTyped
  <1>3. /\ wpc' \in [Workers -> {"none", "run", "finish", "charge", "deliver", "write", "done"}]
        /\ \A x \in Workers \ Shared : wpc'[x] = "done" => wpc[x] = "done"
    BY <1>2
  <1>4. Quiet /\ pc' = pc /\ running' = running /\ calls' = calls
    BY Zenon DEF Quiet, memory, run, record
  <1>5. MemoryTyped' /\ RunTyped' /\ RecordTyped'
    BY <1>1, Zenon DEF MemoryTyped, RunTyped, RecordTyped, memory, run, record
  <1>6. ControlNow'
    BY <1>1, <1>4, Zenon DEF ControlNow, Control, Quiet
  <1>7. ResultsNow' /\ Steering'
    BY <1>1, <1>3, <1>4, QuietKeeps, Zenon
  <1>. QED
    BY <1>3, <1>5, <1>6, <1>7, Zenon

(* The three steps of a worker before it delivers. *)
LEMMA JobStepsKeep ==
    ASSUME WorkersIInv, NEW w \in Workers, RunJob(w) \/ FinishJob(w) \/ ChargeJob(w)
    PROVE  WorkersIInv'
  <1>1. StoreTyped /\ WorkerTyped
    BY InvParts, Zenon
  <1>2. PICK to \in {"finish", "charge", "deliver", "done"} :
            wpc' = [wpc EXCEPT ![w] = to] /\ (to = "done" => w \in Shared)
    <2>1. CASE RunJob(w)
      <3>1. "finish" # "done"
        OBVIOUS
      <3>. QED
        BY <2>1, <3>1, Zenon DEF RunJob
    <2>2. CASE FinishJob(w)
      <3>1. "charge" # "done"
        OBVIOUS
      <3>. QED
        BY <2>2, <3>1, Zenon DEF FinishJob
    <2>3. CASE ChargeJob(w)
      <3>1. "deliver" # "done"
        OBVIOUS
      <3>. QED
        BY <2>3, <3>1, Zenon DEF ChargeJob
    <2>. QED
      BY <2>1, <2>2, <2>3, Zenon
  <1>3. UNCHANGED <<memory, run, record>> /\ UNCHANGED history
    BY Zenon DEF RunJob, FinishJob, ChargeJob, store
  <1>4. /\ MemoryTyped' /\ RunTyped' /\ RecordTyped' /\ ControlNow' /\ ResultsNow' /\ Steering'
        /\ wpc' \in [Workers -> {"none", "run", "finish", "charge", "deliver", "write", "done"}]
    <2>1. to \in {"none", "run", "finish", "charge", "deliver", "write", "done"}
      BY Zenon
    <2>. QED
      BY <1>2, <1>3, <2>1, WorkerMoves, Zenon
  <1>5. StoreTyped' /\ cost' \in [Workers -> 0..Budget]
    <2>1. CASE RunJob(w)
      <3>1. slice[w] \in 0..Budget /\ Budget \in Nat
        BY <1>1, WorkersAssumption DEF StoreTyped
      <3>2. PICK c \in 0..slice[w] : cost' = [cost EXCEPT ![w] = c]
        BY <2>1, Zenon DEF RunJob
      <3>3. c \in 0..Budget
        BY <3>1
      <3>4. cost' \in [Workers -> 0..Budget]
        BY <1>1, <3>2, <3>3, Zenon DEF WorkerTyped
      <3>. QED
        BY <1>1, <2>1, <3>4, Zenon DEF RunJob, StoreTyped, store
    <2>2. CASE FinishJob(w)
      BY <1>1, <2>2 DEF FinishJob, StoreTyped, WorkerTyped
    <2>3. CASE ChargeJob(w)
      <3>1. cost[w] \in Nat
        BY <1>1, WorkersAssumption DEF WorkerTyped
      <3>. QED
        BY <1>1, <2>3, <3>1 DEF ChargeJob, StoreTyped, WorkerTyped
    <2>. QED
      BY <2>1, <2>2, <2>3, Zenon
  <1>. QED
    BY <1>4, <1>5, Zenon DEF WorkersIInv, ControlNow, ResultsNow, WorkerTyped

-----------------------------------------------------------------------------
(* Results stay accounted for when everything that holds one goes on to     *)
(* hold it or hands it on.                                                  *)
LEMMA ResultsGrow ==
    ASSUME NEW ca, NEW ph, NEW hd, NEW gt, NEW rf, NEW dj, NEW wp, Results(ca, ph, hd, gt, rf, dj, wp),
           NEW ca2, NEW ph2, NEW hd2, NEW gt2, NEW rf2, NEW dj2, NEW wp2, dj \subseteq Workers,
           \A w \in Workers : w \in ca \cup {gt} \cup rf => w \in ca2 \cup {gt2} \cup rf2,
           \A w \in Workers : w \in Bodies(ph) \cup Bodies(hd) =>
                                 w \in ca2 \cup Bodies(ph2) \cup Bodies(hd2) \cup {gt2} \cup rf2,
           \A w \in Workers \ Shared : wp2[w] = "done" =>
               wp[w] = "done" \/ w \in ca2 \cup Bodies(ph2) \cup Bodies(hd2) \cup {gt2} \cup rf2,
           \A w \in dj2 : w \in dj \/ w = gt2
    PROVE  Results(ca2, ph2, hd2, gt2, rf2, dj2, wp2)
  <1>1. \A w \in Workers \ Shared : wp2[w] = "done" =>
           w \in ca2 \cup Bodies(ph2) \cup Bodies(hd2) \cup {gt2} \cup rf2
    BY Zenon DEF Results
  <1>2. \A w \in dj2 : w \in ca2 \cup {gt2} \cup rf2
    BY Zenon DEF Results
  <1>. QED
    BY <1>1, <1>2, Zenon DEF Results

(* The run's context decides whether a message is stored or refused. *)
LEMMA MessageAdded ==
    ASSUME WorkersIInv, NEW msg \in Entry, NEW carried \in SUBSET Body, NEW next, AddMessage(msg, carried, next)
    PROVE  /\ history' \in Seq(Entry) /\ refused' \subseteq Workers \cup Messages
           /\ Carried \subseteq Carried' /\ refused \subseteq refused'
           /\ \A x \in Body \ {None} : x \in carried /\ msg.role # "assistant" /\ msg.body = x => x \in Carried' \cup refused'
  <1>1. history \in Seq(Entry) /\ refused \subseteq Workers \cup Messages
    BY InvParts, Zenon DEF StoreTyped, RecordTyped
  <1>2. Carried = CarriedIn(history) /\ Carried' = CarriedIn(history')
    BY Zenon DEF Carried, CarriedIn
  <1>3. CASE history' = Append(history, msg) /\ refused' = refused
    <2>1. /\ Append(history, msg) \in Seq(Entry)
          /\ CarriedIn(history) \subseteq CarriedIn(Append(history, msg))
          /\ msg.role # "assistant" => CarriedIn(Append(history, msg)) = CarriedIn(history) \cup {msg.body}
      BY <1>1, CarriedNext, Zenon
    <2>2. /\ history' \in Seq(Entry) /\ Carried \subseteq Carried'
          /\ msg.role # "assistant" => Carried' = Carried \cup {msg.body}
      BY <1>2, <1>3, <2>1, Zenon
    <2>. QED
      BY <1>1, <1>3, <2>2, Zenon
  <1>4. CASE history' = history /\ refused' = refused \cup (carried \ {None})
    BY <1>1, <1>2, <1>4, Zenon DEF Body
  <1>. QED
    BY <1>3, <1>4, Zenon DEF AddMessage

(* What is dealt with was accepted. *)
LEMMA BoundedDealt ==
    ASSUME MemoryTyped, RecordTyped, InHand \in Seq(Messages), NEW b \in Nat, Lines(b, steered, steers, InHand)
    PROVE  b <= Len(steered) /\ \A i \in 1..b : steered[i] \in Messages
  <1>1. steered \in Seq(Messages) /\ steers \in Seq(Messages)
    BY Zenon DEF MemoryTyped, RecordTyped
  <1>2. b + Len(InHand) + Len(steers) = Len(steered)
    BY Zenon DEF Lines
  <1>3. b <= Len(steered)
    BY <1>1, <1>2
  <1>. QED
    BY <1>1, <1>3

(* What is in hand. *)
LEMMA HandTyped ==
    ASSUME WorkersIInv
    PROVE  InHand \in Seq(Messages)
  <1>1. <<>> \in Seq(Messages)
    OBVIOUS
  <1>. QED
    BY <1>1, InvParts, Zenon DEF InHand, ControlNow, Control

(* Words that no person steered in are written. *)
LEMMA AsideWritten ==
    ASSUME WorkersIInv, NEW msg \in Entry,
           msg.role = "assistant" \/ msg.body \in Workers \cup {None},
           NEW more \in SUBSET Workers,
           \/ history' = Append(history, msg) /\ refused' = refused
           \/ history' = history /\ refused' = refused \cup more,
           UNCHANGED <<steers, steered, returned>>, InHand' = InHand
    PROVE  Steering'
  <1>1. history \in Seq(Entry) /\ steered \in Seq(Messages) /\ Steering
    BY InvParts, Zenon DEF StoreTyped, RecordTyped
  <1>2. Carried = CarriedIn(history) /\ Carried' = CarriedIn(history')
    BY Zenon DEF Carried, CarriedIn
  <1>3. \A x \in Workers \cup {None} : x \notin Messages
    BY WorkersAssumption, Zenon
  <1>4. "user" # "assistant"
    OBVIOUS
  <1>5. InOrder(history', steered')
    <2>1. msg.role = "user" => msg.body \notin Messages
      BY <1>3, <1>4, Zenon
    <2>2. InOrder(Append(history, msg), steered)
      BY <1>1, <2>1, OrderAside, Zenon DEF Steering
    <2>. QED
      BY <1>1, <2>2, Zenon DEF Steering
  <1>6. \A m \in Messages : (m \in Carried' <=> m \in Carried) /\ (m \in refused' <=> m \in refused)
    <2>1. CASE history' = Append(history, msg) /\ refused' = refused
      <3>1. /\ msg.role # "assistant" => CarriedIn(Append(history, msg)) = CarriedIn(history) \cup {msg.body}
            /\ msg.role = "assistant" => CarriedIn(Append(history, msg)) = CarriedIn(history)
        BY <1>1, CarriedNext, Zenon
      <3>2. /\ msg.role # "assistant" => Carried' = Carried \cup {msg.body}
            /\ msg.role = "assistant" => Carried' = Carried
        BY <1>2, <2>1, <3>1, Zenon
      <3>3. CASE msg.role = "assistant"
        BY <2>1, <3>2, <3>3, Zenon
      <3>4. CASE msg.role # "assistant"
        <4>1. \A m \in Messages : m # msg.body
          BY <1>3, <3>4, Zenon
        <4>. QED
          BY <2>1, <3>2, <3>4, <4>1, Zenon
      <3>. QED
        BY <3>3, <3>4, Zenon
    <2>2. CASE history' = history /\ refused' = refused \cup more
      BY <1>2, <1>3, <2>2, Zenon
    <2>. QED
      BY <2>1, <2>2, Zenon
  <1>7. PICK b \in Nat : Lines(b, steered, steers, InHand) /\ Dealt(b, steered, Carried, returned, refused)
    BY <1>1, Zenon DEF Steering
  <1>8. \A i \in 1..b : steered[i] \in Messages
    BY <1>7, InvParts, HandTyped, BoundedDealt, Zenon
  <1>9. Dealt(b, steered, Carried', returned, refused')
    BY <1>6, <1>7, <1>8, DealtAside, Zenon
  <1>. QED
    BY <1>5, <1>7, <1>9, Zenon DEF Steering

(* The run writes a message about a worker or of its own, and goes on. *)
LEMMA RunWrites ==
    ASSUME WorkersIInv, NEW msg \in Entry, NEW carried \in SUBSET (Workers \cup {None}), NEW to \in Steps,
           msg.role = "assistant" \/ msg.body \in Workers \cup {None},
           AddMessage(msg, carried, to), UNCHANGED <<spent, job, slice, memory, worker, steered, returned>>,
           pc # "writeSteer", to # "writeSteer"
    PROVE  /\ StoreTyped' /\ MemoryTyped' /\ WorkerTyped' /\ RecordTyped' /\ Steering'
           /\ Carried \subseteq Carried' /\ refused \subseteq refused' /\ pc' = to
           /\ \A x \in Workers : x \in carried /\ msg.role # "assistant" /\ msg.body = x => x \in Carried' \cup refused'
  <1>1. StoreTyped /\ MemoryTyped /\ WorkerTyped /\ RecordTyped
    BY InvParts, Zenon
  <1>2. carried \in SUBSET Body /\ \A x \in Workers : x \in Body \ {None}
    BY WorkersAssumption, Zenon DEF Body
  <1>3. /\ history' \in Seq(Entry) /\ refused' \subseteq Workers \cup Messages
        /\ Carried \subseteq Carried' /\ refused \subseteq refused'
        /\ \A x \in Body \ {None} : x \in carried /\ msg.role # "assistant" /\ msg.body = x => x \in Carried' \cup refused'
    BY <1>2, MessageAdded, Zenon
  <1>4. StoreTyped' /\ MemoryTyped' /\ WorkerTyped' /\ RecordTyped'
    BY <1>1, <1>3, Zenon DEF StoreTyped, MemoryTyped, WorkerTyped, RecordTyped, memory, worker
  <1>5. pc' = to
    BY Zenon DEF AddMessage
  <1>6. Steering'
    <2>1. InHand' = InHand
      BY <1>5, Zenon DEF InHand
    <2>2. carried \ {None} \in SUBSET Workers
      BY Zenon
    <2>3. UNCHANGED <<steers, steered, returned>>
      BY Zenon DEF memory
    <2>4. \/ history' = Append(history, msg) /\ refused' = refused
          \/ history' = history /\ refused' = refused \cup (carried \ {None})
      BY Zenon DEF AddMessage
    <2>. QED
      BY <2>1, <2>2, <2>3, <2>4, AsideWritten, Zenon
  <1>. QED
    BY <1>2, <1>3, <1>4, <1>5, <1>6, Zenon

(* The id and the call. *)
LEMMA ServedParts == \A c \in Served : c.id \in Ids /\ c.call \in ToolCalls
  BY DEF Served

(* The reply of the model. *)
LEMMA WriteReplyKeeps ==
    ASSUME WorkersIInv, WriteReply
    PROVE  WorkersIInv'
  <1>1. MemoryTyped /\ RunTyped /\ ControlNow /\ ResultsNow
    BY InvParts, Zenon
  <1>. DEFINE ids == [k \in DOMAIN calls |-> calls[k].id]
              to == IF calls = <<>> THEN "complete" ELSE "tools"
  <1>2. ids \in Seq(Ids)
    <2>1. calls \in Seq(Served)
      BY <1>1, Zenon DEF RunTyped
    <2>2. Len(calls) \in Nat /\ DOMAIN calls = 1..Len(calls) /\ \A k \in 1..Len(calls) : calls[k] \in Served
      BY <2>1
    <2>3. \A k \in 1..Len(calls) : calls[k].id \in Ids
      BY <2>2, ServedParts, Zenon
    <2>. QED
      BY <2>2, <2>3
  <1>3. /\ pc = "reply" /\ AddMessage(Assistant(ids), {}, to)
        /\ UNCHANGED <<spent, job, slice, memory, worker, steered, returned>>
        /\ UNCHANGED <<ctx, calls, held, row, available, got, runs, turns>>
    BY Zenon DEF WriteReply
  <1>4. PICK msg \in Entry : msg = Assistant(ids) /\ msg.role = "assistant"
    BY <1>2, EntryKinds, Zenon
  <1>. HIDE DEF ids
  <1>5. PICK next \in {"complete", "tools"} : next = to
    BY Zenon
  <1>. HIDE DEF to
  <1>6. /\ next \in Steps /\ next # "writeSteer" /\ next \notin OfJob \cup {"result"} /\ next \notin Writing
        /\ next \notin Without /\ next \notin {"write", "lastWrite"} /\ next \notin {"idle", "lastWrite"}
        /\ next \notin OfJob /\ next # "result"
        /\ "reply" # "writeSteer" /\ "reply" \notin Writing /\ "reply" \notin Without /\ "reply" # "result"
    BY DEF Steps, OfJob, Writing, Without
  <1>7. {} \in SUBSET (Workers \cup {None})
    BY Zenon
  <1>8. AddMessage(msg, {}, next)
    BY <1>3, <1>4, <1>5, Zenon
  <1>9. /\ StoreTyped' /\ MemoryTyped' /\ WorkerTyped' /\ RecordTyped' /\ Steering'
        /\ Carried \subseteq Carried' /\ refused \subseteq refused' /\ pc' = next
    BY <1>3, <1>4, <1>6, <1>7, <1>8, RunWrites, Zenon
  <1>10. held = <<>> /\ got = None /\ running = 1
    BY <1>1, <1>3, <1>6, Zenon DEF ControlNow, Control
  <1>11. RunTyped'
    BY <1>1, <1>3, <1>6, <1>9, Zenon DEF RunTyped
  <1>12. ControlNow'
    BY <1>3, <1>6, <1>9, <1>10, Zenon DEF ControlNow, Control, memory
  <1>13. ResultsNow'
    <2>1. /\ deliveredJobs \subseteq Workers /\ wpc' = wpc /\ deliveredJobs' = deliveredJobs
          /\ pendingHandoffs' = pendingHandoffs
      BY <1>1, <1>3, Zenon DEF MemoryTyped, memory, worker
    <2>. QED
      BY <1>1, <1>3, <1>9, <2>1, Zenon DEF ResultsNow, Results
  <1>. QED
    BY <1>9, <1>11, <1>12, <1>13, Zenon DEF WorkersIInv, ControlNow, ResultsNow

(* The note of a gate, or the end of the run. *)
LEMMA CompleteKeeps ==
    ASSUME WorkersIInv, Complete
    PROVE  WorkersIInv'
  <1>1. /\ StoreTyped /\ MemoryTyped /\ RunTyped /\ WorkerTyped /\ RecordTyped
        /\ ControlNow /\ ResultsNow /\ Steering
    BY InvParts, Zenon
  <1>2. /\ pc = "complete" /\ UNCHANGED <<spent, job, slice, memory, worker, steered, returned>>
        /\ UNCHANGED <<ctx, calls, held, row, available, got, runs, turns>>
    BY Zenon DEF Complete
  <1>3. /\ "exit" \in Steps /\ "exit" \notin Writing /\ "exit" \notin Without /\ "exit" \notin OfJob \cup {"result"}
        /\ "complete" \in Steps /\ "complete" \notin Without /\ "complete" \notin Writing /\ "complete" # "result"
        /\ "exit" \notin OfJob /\ "top" \notin OfJob
        /\ "top" \in Steps /\ "top" # "writeSteer" /\ "top" \notin OfJob \cup {"result"} /\ "top" \notin Writing
        /\ "top" \notin Without /\ "top" \notin {"write", "lastWrite"} /\ "top" \notin {"idle", "lastWrite"}
        /\ "complete" # "writeSteer" /\ "top" # "result"
    BY DEF Steps, OfJob, Writing, Without
  <1>4. held = <<>> /\ got = None /\ running = 1
    BY <1>1, <1>2, <1>3, Zenon DEF ControlNow, Control
  <1>5. CASE pc' = "exit" /\ UNCHANGED <<history, refused>>
    <2>1. MovesOn("complete", "exit")
      BY <1>2, <1>5, Zenon DEF MovesOn, record
    <2>2. StoreTyped' /\ RunTyped'
      BY <1>1, <1>2, <1>3, <1>5, Zenon DEF StoreTyped, RunTyped
    <2>3. MemoryTyped' /\ WorkerTyped' /\ RecordTyped' /\ ControlNow' /\ ResultsNow' /\ Steering'
      BY <1>2, <1>3, <1>4, <2>1, MovesOnKeeps, Zenon
    <2>. QED
      BY <2>2, <2>3, Zenon DEF WorkersIInv, ControlNow, ResultsNow
  <1>6. CASE AddMessage(User(None), {}, "top")
    <2>1. PICK msg \in Entry : msg = User(None) /\ msg.body \in Workers \cup {None}
      BY EntryKinds, Zenon DEF Body
    <2>2. {} \in SUBSET (Workers \cup {None})
      BY Zenon
    <2>3. AddMessage(msg, {}, "top")
      BY <1>6, <2>1, Zenon
    <2>4. /\ StoreTyped' /\ MemoryTyped' /\ WorkerTyped' /\ RecordTyped' /\ Steering'
          /\ Carried \subseteq Carried' /\ refused \subseteq refused' /\ pc' = "top"
      BY <1>2, <1>3, <2>1, <2>2, <2>3, RunWrites, Zenon
    <2>5. RunTyped'
      BY <1>1, <1>2, <1>3, <2>4, Zenon DEF RunTyped
    <2>6. ControlNow'
      BY <1>2, <1>3, <1>4, <2>4, Zenon DEF ControlNow, Control, memory
    <2>7. ResultsNow'
      <3>1. /\ deliveredJobs \subseteq Workers /\ wpc' = wpc /\ deliveredJobs' = deliveredJobs
            /\ pendingHandoffs' = pendingHandoffs
        BY <1>1, <1>2, Zenon DEF MemoryTyped, memory, worker
      <3>. QED
        BY <1>1, <1>2, <2>4, <3>1, Zenon DEF ResultsNow, Results
    <2>. QED
      BY <2>4, <2>5, <2>6, <2>7, Zenon DEF WorkersIInv, ControlNow, ResultsNow
  <1>. QED
    BY <1>5, <1>6, Zenon DEF Complete

(* The result of a call. *)
LEMMA WriteResultKeeps ==
    ASSUME WorkersIInv, WriteResult
    PROVE  WorkersIInv'
  <1>1. MemoryTyped /\ RunTyped /\ ControlNow /\ ResultsNow
    BY InvParts, Zenon
  <1>2. /\ pc = "result" /\ UNCHANGED <<spent, job, slice, memory, worker, steered, returned>>
        /\ UNCHANGED <<ctx, held, row, available, runs, turns>> /\ calls' = Tail(calls) /\ got' = None
    BY Zenon DEF WriteResult
  <1>3. PICK next \in {"exit", "tools"} : AddMessage(Tool(Head(calls).id, got), {got}, next)
    BY Zenon DEF WriteResult
  <1>4. /\ next \in Steps /\ next # "writeSteer" /\ next \notin OfJob \cup {"result"} /\ next \notin Writing
        /\ next \notin Without /\ next \notin {"write", "lastWrite"} /\ next \notin {"idle", "lastWrite"}
        /\ next \notin OfJob /\ next # "result"
        /\ "result" # "writeSteer" /\ "result" \notin Writing /\ "result" \notin Without
        /\ "result" \in OfJob \cup {"result"}
    BY DEF Steps, OfJob, Writing, Without
  <1>5. held = <<>> /\ running = 1 /\ calls # <<>>
    BY <1>1, <1>2, <1>4, Zenon DEF ControlNow, Control
  <1>6. Head(calls).id \in Ids /\ Tail(calls) \in Seq(Served)
    <2>1. calls \in Seq(Served)
      BY <1>1, Zenon DEF RunTyped
    <2>2. Head(calls) \in Served /\ Tail(calls) \in Seq(Served)
      BY <1>5, <2>1
    <2>. QED
      BY <2>2, ServedParts, Zenon
  <1>7. got \in Workers \cup {None} /\ got \in Body
    BY <1>1, Zenon DEF RunTyped, Body
  <1>8. PICK msg \in Entry : msg = Tool(Head(calls).id, got) /\ msg.role # "assistant" /\ msg.body = got
    BY <1>6, <1>7, EntryKinds, Zenon
  <1>9. {got} \in SUBSET (Workers \cup {None}) /\ AddMessage(msg, {got}, next)
    BY <1>3, <1>7, <1>8, Zenon
  <1>10. /\ StoreTyped' /\ MemoryTyped' /\ WorkerTyped' /\ RecordTyped' /\ Steering'
         /\ Carried \subseteq Carried' /\ refused \subseteq refused' /\ pc' = next
         /\ \A x \in Workers : x \in {got} /\ msg.role # "assistant" /\ msg.body = x => x \in Carried' \cup refused'
    BY <1>2, <1>4, <1>7, <1>8, <1>9, RunWrites, Zenon
  <1>11. RunTyped'
    BY <1>1, <1>2, <1>4, <1>6, <1>10, Zenon DEF RunTyped
  <1>12. ControlNow'
    BY <1>2, <1>4, <1>5, <1>10, Zenon DEF ControlNow, Control, memory
  <1>13. ResultsNow'
    <2>1. /\ deliveredJobs \subseteq Workers /\ wpc' = wpc /\ deliveredJobs' = deliveredJobs
          /\ pendingHandoffs' = pendingHandoffs
      BY <1>1, <1>2, Zenon DEF MemoryTyped, memory, worker
    <2>2. \A w \in Workers : w = got => w \in Carried' \cup refused'
      BY <1>8, <1>10, Zenon
    <2>. QED
      BY <1>1, <1>2, <1>10, <2>1, <2>2, Zenon DEF ResultsNow, Results
  <1>. QED
    BY <1>10, <1>11, <1>12, <1>13, Zenon DEF WorkersIInv, ControlNow, ResultsNow

(* The worker the call is about. *)
LEMMA ThisWorker ==
    ASSUME WorkersIInv, pc \in OfJob
    PROVE  This.job \in Workers
  <1>1. calls # <<>> /\ This.tool \in {"spawn", "wait"} /\ calls \in Seq(Served)
    BY InvParts, Zenon DEF ControlNow, Control, This, RunTyped
  <1>2. PICK c \in Served : c = Head(calls)
    BY <1>1
  <1>3. c.call \in ToolCalls /\ c.call.tool \in {"spawn", "wait"}
    BY <1>1, <1>2, ServedParts, Zenon DEF This
  <1>. QED
    BY <1>2, <1>3 DEF ToolCalls, This

(* A call returns a worker's result, and a drain will drop its handoff. *)
LEMMA ReturnsResult ==
    ASSUME WorkersIInv, NEW from \in OfJob, pc = from, pc' = "result", got' = This.job,
           UNCHANGED <<store, running, pendingHandoffs, steers, ctx, calls, held, row, available, runs,
                       turns, worker, record>>,
           \/ deliveredJobs' = deliveredJobs
           \/ deliveredJobs' = deliveredJobs \cup {This.job}
    PROVE  WorkersIInv'
  <1>1. /\ StoreTyped /\ MemoryTyped /\ RunTyped /\ WorkerTyped /\ RecordTyped
        /\ ControlNow /\ ResultsNow /\ Steering
    BY InvParts, Zenon
  <1>2. This.job \in Workers
    BY ThisWorker, Zenon
  <1>3. /\ from # "writeSteer" /\ from \notin Writing /\ from \notin Without /\ from # "result"
        /\ from \in OfJob \cup {"result"}
        /\ "result" # "writeSteer" /\ "result" \notin Writing /\ "result" \notin Without
        /\ "result" \notin {"write", "lastWrite"} /\ "result" \notin {"idle", "lastWrite"}
        /\ "result" \notin OfJob /\ "result" \in Steps
    BY DEF OfJob, Writing, Without, Steps
  <1>4. held = <<>> /\ running = 1 /\ calls # <<>> /\ got = None
    BY <1>1, <1>3, Zenon DEF ControlNow, Control
  <1>5. StoreTyped' /\ MemoryTyped' /\ WorkerTyped' /\ RecordTyped'
    <2>1. deliveredJobs' \subseteq Workers
      BY <1>1, <1>2, Zenon DEF MemoryTyped
    <2>. QED
      BY <1>1, <2>1, Zenon DEF StoreTyped, MemoryTyped, WorkerTyped, RecordTyped, store, worker, record
  <1>6. RunTyped'
    BY <1>1, <1>2, <1>3, Zenon DEF RunTyped
  <1>7. ControlNow'
    BY <1>3, <1>4, Zenon DEF ControlNow, Control
  <1>8. Carried' = Carried /\ InHand' = InHand
    BY <1>3, Zenon DEF Carried, InHand, store
  <1>9. Steering'
    BY <1>1, <1>8, Zenon DEF Steering, store, record
  <1>10. ResultsNow'
    <2>1. /\ wpc' = wpc /\ refused' = refused /\ None \notin Workers /\ deliveredJobs \subseteq Workers
          /\ pendingHandoffs' = pendingHandoffs /\ held' = held
      BY <1>1, WorkersAssumption, Zenon DEF MemoryTyped, worker, record
    <2>2. \A w \in deliveredJobs' : w \in deliveredJobs \/ w = got'
      BY Zenon
    <2>3. Results(Carried, pendingHandoffs, held, None, refused, deliveredJobs, wpc)
      BY <1>1, <1>4, Zenon DEF ResultsNow
    <2>4. Results(Carried, pendingHandoffs, held, got', refused, deliveredJobs', wpc)
      BY <2>1, <2>2, <2>3, Zenon DEF Results
    <2>. QED
      BY <1>8, <2>1, <2>4, Zenon DEF ResultsNow
  <1>. QED
    BY <1>5, <1>6, <1>7, <1>9, <1>10, Zenon DEF WorkersIInv, ControlNow, ResultsNow

(* The worker in the call returns its result. *)
LEMMA SpawnJoinKeeps ==
    ASSUME WorkersIInv, SpawnJoin
    PROVE  WorkersIInv'
  <1>1. "join" \in OfJob
    BY DEF OfJob
  <1>. QED
    BY <1>1, ReturnsResult, Zenon DEF SpawnJoin, memory

(* job wait returns the result of a finished job. *)
LEMMA WaitDeliveredKeeps ==
    ASSUME WorkersIInv, WaitDelivered
    PROVE  WorkersIInv'
  <1>1. "wait" \in OfJob
    BY DEF OfJob
  <1>. QED
    BY <1>1, ReturnsResult, Zenon DEF WaitDelivered

(* The queue of handoffs is drained: what it loses was delivered. *)
LEMMA DrainKeepsAll ==
    ASSUME WorkersIInv, NEW from \in {"top", "lastDrain"}, NEW to \in {"write", "lastWrite"},
           pc = from, pc' = to, from = "top" <=> to = "write",
           held' = Undelivered(pendingHandoffs), pendingHandoffs' = <<>>,
           UNCHANGED <<store, running, deliveredJobs, steers, ctx, calls, row, available, got, runs,
                       turns, worker, record>>
    PROVE  WorkersIInv'
  <1>1. /\ StoreTyped /\ MemoryTyped /\ RunTyped /\ WorkerTyped /\ RecordTyped
        /\ ControlNow /\ ResultsNow /\ Steering
    BY InvParts, Zenon
  <1>2. /\ from \notin Writing /\ from # "writeSteer" /\ from # "result" /\ to # "result" /\ to # "writeSteer"
        /\ to \in Steps /\ to \in Writing /\ to \notin OfJob \cup {"result"} /\ to \notin OfJob
        /\ (from \in Without <=> to \in Without)
    BY DEF Writing, OfJob, Without, Steps
  <1>3. held = <<>> /\ got = None
    BY <1>1, <1>2, Zenon DEF ControlNow, Control
  <1>4. /\ held' \in Seq(Workers) /\ Bodies(pendingHandoffs) \subseteq Bodies(held') \cup deliveredJobs
    BY <1>1, DrainKeeps, Zenon DEF MemoryTyped
  <1>5. /\ <<>> \in Seq(Workers) /\ Bodies(<<>>) = {}
    <2>1. DOMAIN << >> = {} /\ << >> \in Seq(Workers)
      OBVIOUS
    <2>. QED
      BY <2>1, Zenon DEF Bodies
  <1>6. StoreTyped' /\ MemoryTyped' /\ WorkerTyped' /\ RecordTyped'
    BY <1>1, <1>5, Zenon DEF StoreTyped, MemoryTyped, WorkerTyped, RecordTyped, store, worker, record
  <1>7. RunTyped'
    BY <1>1, <1>2, Zenon DEF RunTyped
  <1>8. ControlNow'
    BY <1>1, <1>2, <1>3, <1>4, Zenon DEF ControlNow, Control
  <1>9. Carried' = Carried /\ InHand' = InHand
    BY <1>2, Zenon DEF Carried, InHand, store
  <1>10. Steering'
    BY <1>1, <1>9, Zenon DEF Steering, store, record
  <1>11. ResultsNow'
    <2>1. /\ wpc' = wpc /\ refused' = refused /\ deliveredJobs' = deliveredJobs /\ got' = got
          /\ pendingHandoffs' = <<>>
      BY Zenon DEF worker, record
    <2>2. Results(Carried, pendingHandoffs, <<>>, got, refused, deliveredJobs, wpc)
      BY <1>1, <1>3, Zenon DEF ResultsNow
    <2>3. Results(Carried, <<>>, held', got, refused, deliveredJobs, wpc)
      BY <1>4, <1>5, <2>2, Zenon DEF Results
    <2>. QED
      BY <1>9, <2>1, <2>3, Zenon DEF ResultsNow
  <1>. QED
    BY <1>6, <1>7, <1>8, <1>10, <1>11, Zenon DEF WorkersIInv, ControlNow, ResultsNow

(* The drain after endRun. *)
LEMMA LastDrainKeeps ==
    ASSUME WorkersIInv, LastDrain
    PROVE  WorkersIInv'
  <1>1. "lastDrain" # "top" /\ "lastWrite" # "write"
    OBVIOUS
  <1>. QED
    BY <1>1, DrainKeepsAll, Zenon DEF LastDrain

(* The drain of a turn boundary, or the end of the run. *)
LEMMA LoopTopKeeps ==
    ASSUME WorkersIInv, LoopTop
    PROVE  WorkersIInv'
  <1>1. CASE ctx = "live"
    BY <1>1, DrainKeepsAll, Zenon DEF LoopTop
  <1>2. CASE ctx # "live"
    <2>1. StoreTyped /\ RunTyped /\ ControlNow
      BY InvParts, Zenon
    <2>2. /\ MovesOn("top", "exit") /\ pc = "top" /\ pc' = "exit" /\ got' = got /\ calls' = calls
          /\ UNCHANGED <<ctx, row, available, runs, turns>> /\ UNCHANGED <<history, spent, job, slice>>
      BY <1>2, Zenon DEF LoopTop, MovesOn, store, memory
    <2>3. /\ "top" \in Steps /\ "exit" \in Steps /\ "exit" \notin Writing /\ "exit" \notin Without
          /\ "top" \notin Without /\ "top" \notin Writing /\ "exit" \notin OfJob \cup {"result"} /\ "top" # "result"
          /\ "exit" \notin OfJob
      BY DEF Steps, Writing, Without, OfJob
    <2>4. held = <<>> /\ got = None
      BY <2>1, <2>2, <2>3, NothingHeld, Zenon DEF ControlNow, Control
    <2>5. StoreTyped' /\ RunTyped'
      BY <2>1, <2>2, <2>3, Zenon DEF StoreTyped, RunTyped
    <2>6. MemoryTyped' /\ WorkerTyped' /\ RecordTyped' /\ ControlNow' /\ ResultsNow' /\ Steering'
      BY <2>2, <2>3, <2>4, MovesOnKeeps, Zenon
    <2>. QED
      BY <2>5, <2>6, Zenon DEF WorkersIInv, ControlNow, ResultsNow
  <1>. QED
    BY <1>1, <1>2, Zenon

(* The handoffs taken off the queue are written. *)
LEMMA WriteHandoffKeeps ==
    ASSUME WorkersIInv, WriteHandoff
    PROVE  WorkersIInv'
  <1>1. StoreTyped /\ MemoryTyped /\ RunTyped /\ ControlNow /\ ResultsNow
    BY InvParts, Zenon
  <1>2. /\ pc = "write" /\ UNCHANGED <<spent, job, slice, memory, worker, steered, returned>>
        /\ UNCHANGED <<ctx, calls, row, available, got, runs, turns>>
    BY Zenon DEF WriteHandoff
  <1>3. /\ "write" \in Steps /\ "write" # "writeSteer" /\ "write" \notin Without /\ "write" \in {"write", "lastWrite"}
        /\ "write" \notin OfJob \cup {"result"} /\ "write" \notin OfJob /\ "write" # "result" /\ "write" \in Writing
        /\ "write" \notin {"idle", "lastWrite"}
        /\ "steer" \in Steps /\ "steer" \notin Without /\ "steer" \notin Writing /\ "steer" \notin OfJob \cup {"result"}
        /\ "steer" \notin OfJob
    BY DEF Steps, OfJob, Writing, Without
  <1>4. held \in Seq(Workers) /\ got = None /\ running = 1
    BY <1>1, <1>2, <1>3, Zenon DEF ControlNow, Control
  <1>5. CASE held = <<>>
    <2>1. MovesOn("write", "steer") /\ pc' = "steer" /\ held' = held /\ history' = history
      BY <1>2, <1>5, Zenon DEF WriteHandoff, MovesOn, record
    <2>2. StoreTyped' /\ RunTyped'
      BY <1>1, <1>2, <1>3, <2>1, Zenon DEF StoreTyped, RunTyped
    <2>3. MemoryTyped' /\ WorkerTyped' /\ RecordTyped' /\ ControlNow' /\ ResultsNow' /\ Steering'
      BY <1>2, <1>3, <1>4, <1>5, <2>1, MovesOnKeeps, Zenon
    <2>. QED
      BY <2>2, <2>3, Zenon DEF WorkersIInv, ControlNow, ResultsNow
  <1>6. CASE held # <<>>
    <2>1. PICK x \in Workers : x = Head(held) /\ Tail(held) \in Seq(Workers) /\
             \A y \in Bodies(held) : y = x \/ y \in Bodies(Tail(held))
      BY <1>4, <1>6, TailBodies, Zenon
    <2>2. AddMessage(User(x), {x}, "write") /\ held' = Tail(held)
      BY <1>6, <2>1, Zenon DEF WriteHandoff
    <2>3. PICK msg \in Entry : msg = User(x) /\ msg.body = x /\ msg.role # "assistant"
      BY EntryKinds, Zenon DEF Body
    <2>4. {x} \in SUBSET (Workers \cup {None}) /\ msg.body \in Workers \cup {None} /\ AddMessage(msg, {x}, "write")
      BY <2>2, <2>3, Zenon
    <2>5. /\ StoreTyped' /\ MemoryTyped' /\ WorkerTyped' /\ RecordTyped' /\ Steering'
          /\ Carried \subseteq Carried' /\ refused \subseteq refused' /\ pc' = "write"
          /\ \A y \in Workers : y \in {x} /\ msg.role # "assistant" /\ msg.body = y => y \in Carried' \cup refused'
      BY <1>2, <1>3, <2>4, RunWrites, Zenon
    <2>6. RunTyped'
      BY <1>1, <1>2, <1>3, <2>5, Zenon DEF RunTyped
    <2>7. ControlNow'
      BY <1>2, <1>3, <1>4, <2>1, <2>2, <2>5, Zenon DEF ControlNow, Control, memory
    <2>8. ResultsNow'
      <3>1. /\ wpc' = wpc /\ deliveredJobs' = deliveredJobs /\ pendingHandoffs' = pendingHandoffs
        BY <1>2, Zenon DEF memory, worker
      <3>2. x \in Carried' \cup refused'
        BY <2>3, <2>5, Zenon
      <3>. QED
        BY <1>1, <1>2, <2>1, <2>2, <2>5, <3>1, <3>2, Zenon DEF ResultsNow, Results
    <2>. QED
      BY <2>5, <2>6, <2>7, <2>8, Zenon DEF WorkersIInv, ControlNow, ResultsNow
  <1>. QED
    BY <1>5, <1>6, Zenon

(* Something about a worker is stored for good. *)
LEMMA WorkerStored ==
    ASSUME WorkersIInv, NEW w \in Workers, history' = Append(history, User(w)), refused' = refused,
           UNCHANGED <<steers, steered, returned>>, InHand' = InHand
    PROVE  /\ history' \in Seq(Entry) /\ Steering' /\ Carried \subseteq Carried' /\ w \in Carried'
  <1>1. PICK msg \in Entry : msg = User(w) /\ msg.body = w /\ msg.role # "assistant"
    BY EntryKinds, Zenon DEF Body
  <1>2. history' = Append(history, msg) /\ history \in Seq(Entry)
    BY <1>1, InvParts, Zenon DEF StoreTyped
  <1>3. Steering'
    <2>1. {} \in SUBSET Workers
      BY Zenon
    <2>. QED
      BY <1>1, <1>2, <2>1, AsideWritten, Zenon
  <1>4. /\ Append(history, msg) \in Seq(Entry)
        /\ CarriedIn(Append(history, msg)) = CarriedIn(history) \cup {msg.body}
    BY <1>1, <1>2, CarriedNext, Zenon
  <1>5. Carried' = Carried \cup {w}
    <2>1. Carried = CarriedIn(history) /\ Carried' = CarriedIn(history')
      BY Zenon DEF Carried, CarriedIn
    <2>. QED
      BY <1>1, <1>2, <1>4, <2>1, Zenon
  <1>. QED
    BY <1>2, <1>3, <1>4, <1>5, Zenon

(* The handoffs found after endRun are written. *)
LEMMA WriteLastHandoffKeeps ==
    ASSUME WorkersIInv, WriteLastHandoff
    PROVE  WorkersIInv'
  <1>1. /\ StoreTyped /\ MemoryTyped /\ RunTyped /\ WorkerTyped /\ RecordTyped
        /\ ControlNow /\ ResultsNow /\ Steering
    BY InvParts, Zenon
  <1>2. /\ pc = "lastWrite" /\ UNCHANGED <<spent, job, slice, memory, worker, record>>
        /\ UNCHANGED <<ctx, calls, row, available, got, runs, turns>>
    BY Zenon DEF WriteLastHandoff
  <1>3. /\ "lastWrite" # "writeSteer" /\ "lastWrite" \in Without /\ "lastWrite" \in {"write", "lastWrite"}
        /\ "lastWrite" \notin OfJob \cup {"result"} /\ "lastWrite" \notin OfJob /\ "lastWrite" # "result"
        /\ "lastWrite" \in Writing /\ "lastWrite" \in {"idle", "lastWrite"}
        /\ "idle" \in Steps /\ "idle" \in Without /\ "idle" \notin Writing /\ "idle" \notin OfJob \cup {"result"}
        /\ "idle" \notin OfJob /\ "idle" # "writeSteer" /\ "idle" \notin {"write", "lastWrite"}
    BY DEF Steps, OfJob, Writing, Without
  <1>4. held \in Seq(Workers) /\ got = None /\ running = 0 /\ pendingHandoffs = <<>>
    BY <1>1, <1>2, <1>3, Zenon DEF ControlNow, Control
  <1>5. MemoryTyped' /\ WorkerTyped' /\ RecordTyped'
    BY <1>1, <1>2, Zenon DEF MemoryTyped, WorkerTyped, RecordTyped, memory, worker, record
  <1>6. CASE held = <<>>
    <2>1. pc' = "idle" /\ held' = held /\ history' = history
      BY <1>6, Zenon DEF WriteLastHandoff
    <2>2. StoreTyped' /\ RunTyped'
      BY <1>1, <1>2, <1>3, <2>1, Zenon DEF StoreTyped, RunTyped
    <2>3. ControlNow'
      BY <1>2, <1>3, <1>4, <1>6, <2>1, Zenon DEF ControlNow, Control, memory
    <2>4. Quiet /\ wpc' = wpc
      BY <1>2, <2>1, Zenon DEF Quiet, memory, record, worker
    <2>5. ResultsNow' /\ Steering'
      BY <1>1, <1>2, <1>3, <2>1, <2>4, QuietKeeps, Zenon
    <2>. QED
      BY <1>5, <2>2, <2>3, <2>5, Zenon DEF WorkersIInv, ControlNow, ResultsNow
  <1>7. CASE held # <<>>
    <2>1. PICK x \in Workers : x = Head(held) /\ Tail(held) \in Seq(Workers) /\
             \A y \in Bodies(held) : y = x \/ y \in Bodies(Tail(held))
      BY <1>4, <1>7, TailBodies, Zenon
    <2>2. history' = Append(history, User(x)) /\ held' = Tail(held) /\ pc' = pc
      BY <1>7, <2>1, Zenon DEF WriteLastHandoff
    <2>3. refused' = refused /\ UNCHANGED <<steers, steered, returned>> /\ InHand' = InHand
      BY <1>2, <1>3, <2>2, Zenon DEF memory, record, InHand
    <2>4. /\ history' \in Seq(Entry) /\ Steering' /\ Carried \subseteq Carried' /\ x \in Carried'
      BY <2>2, <2>3, WorkerStored, Zenon
    <2>5. StoreTyped' /\ RunTyped'
      BY <1>1, <1>2, <2>2, <2>4, Zenon DEF StoreTyped, RunTyped
    <2>6. ControlNow'
      BY <1>2, <1>3, <1>4, <2>1, <2>2, Zenon DEF ControlNow, Control, memory
    <2>7. ResultsNow'
      <3>1. /\ wpc' = wpc /\ deliveredJobs' = deliveredJobs /\ pendingHandoffs' = pendingHandoffs
        BY <1>2, Zenon DEF memory, worker
      <3>. QED
        BY <1>1, <1>2, <2>1, <2>2, <2>3, <2>4, <3>1, Zenon DEF ResultsNow, Results
    <2>. QED
      BY <1>5, <2>4, <2>5, <2>6, <2>7, Zenon DEF WorkersIInv, ControlNow, ResultsNow
  <1>. QED
    BY <1>6, <1>7, Zenon

(* A worker hands its result over: to the run in flight, which will drain   *)
(* its queue, or to the history of a session at rest.                       *)
LEMMA DeliverHandoffKeeps ==
    ASSUME WorkersIInv, NEW w \in Workers, DeliverHandoff(w)
    PROVE  WorkersIInv'
  <1>1. /\ StoreTyped /\ MemoryTyped /\ RunTyped /\ WorkerTyped /\ RecordTyped
        /\ ControlNow /\ ResultsNow /\ Steering
    BY InvParts, Zenon
  <1>2. UNCHANGED <<store, running, deliveredJobs, steers, run, cost, record>>
    BY Zenon DEF DeliverHandoff
  <1>3. StoreTyped' /\ RunTyped' /\ RecordTyped'
    BY <1>1, <1>2, Zenon DEF StoreTyped, RunTyped, RecordTyped, store, run, record
  <1>4. wpc \in [Workers -> {"none", "run", "finish", "charge", "deliver", "write", "done"}]
    BY <1>1, Zenon DEF WorkerTyped
  <1>5. Carried' = Carried /\ InHand' = InHand
    BY <1>2, Zenon DEF Carried, InHand, store, run
  <1>6. Steering'
    BY <1>1, <1>2, <1>5, Zenon DEF Steering, store, record
  <1>7. pendingHandoffs \in Seq(Workers)
    BY <1>1, Zenon DEF MemoryTyped
  <1>8. CASE running > 0
    <2>1. pendingHandoffs' = Append(pendingHandoffs, w) /\ wpc' = [wpc EXCEPT ![w] = "done"]
      BY <1>8, Zenon DEF DeliverHandoff, InFlight
    <2>2. running # 0
      BY <1>1, <1>8 DEF MemoryTyped
    <2>3. pc \notin Without
      BY <1>1, <2>2, Zenon DEF ControlNow, Control
    <2>4. pc \notin {"idle", "lastWrite"}
      BY <2>3 DEF Without
    <2>5. /\ pendingHandoffs' \in Seq(Workers) /\ Bodies(pendingHandoffs') = Bodies(pendingHandoffs) \cup {w}
      BY <1>7, <2>1, AppendBodies
    <2>6. /\ wpc' \in [Workers -> {"none", "run", "finish", "charge", "deliver", "write", "done"}]
          /\ \A x \in Workers : x = w \/ wpc'[x] = wpc[x]
      BY <1>4, <2>1
    <2>7. MemoryTyped' /\ WorkerTyped'
      BY <1>1, <1>2, <2>5, <2>6, Zenon DEF MemoryTyped, WorkerTyped
    <2>8. ControlNow'
      BY <1>1, <1>2, <2>4, Zenon DEF ControlNow, Control, run
    <2>9. ResultsNow'
      <3>1. held' = held /\ got' = got /\ refused' = refused /\ deliveredJobs' = deliveredJobs
        BY <1>2, Zenon DEF run, record
      <3>. QED
        BY <1>1, <1>5, <2>5, <2>6, <3>1, Zenon DEF ResultsNow, Results
    <2>. QED
      BY <1>3, <1>6, <2>7, <2>8, <2>9, Zenon DEF WorkersIInv, ControlNow, ResultsNow
  <1>9. CASE ~(running > 0)
    <2>1. PICK to \in {"done", "write"} :
             /\ wpc' = [wpc EXCEPT ![w] = to] /\ pendingHandoffs' = pendingHandoffs
             /\ to = "done" => w \in deliveredJobs
      <3>1. "write" # "done"
        OBVIOUS
      <3>. QED
        BY <1>9, <3>1, Zenon DEF DeliverHandoff, InFlight
    <2>2. /\ wpc' \in [Workers -> {"none", "run", "finish", "charge", "deliver", "write", "done"}]
          /\ \A x \in Workers : x # w => wpc'[x] = wpc[x]
          /\ wpc'[w] = to
      BY <1>4, <2>1
    <2>3. MemoryTyped' /\ WorkerTyped'
      BY <1>1, <1>2, <2>1, <2>2, Zenon DEF MemoryTyped, WorkerTyped
    <2>4. ControlNow'
      BY <1>1, <1>2, <2>1, Zenon DEF ControlNow, Control, run
    <2>5. ResultsNow'
      <3>1. held' = held /\ got' = got /\ refused' = refused /\ deliveredJobs' = deliveredJobs
        BY <1>2, Zenon DEF run, record
      <3>. QED
        BY <1>1, <1>5, <2>1, <2>2, <3>1, Zenon DEF ResultsNow, Results
    <2>. QED
      BY <1>3, <1>6, <2>3, <2>4, <2>5, Zenon DEF WorkersIInv, ControlNow, ResultsNow
  <1>. QED
    BY <1>8, <1>9, Zenon

(* A worker that found no run writes its result itself. *)
LEMMA WriteToIdleKeeps ==
    ASSUME WorkersIInv, NEW w \in Workers, WriteToIdle(w)
    PROVE  WorkersIInv'
  <1>1. /\ StoreTyped /\ MemoryTyped /\ RunTyped /\ WorkerTyped /\ RecordTyped
        /\ ControlNow /\ ResultsNow
    BY InvParts, Zenon
  <1>2. /\ UNCHANGED <<spent, job, slice, memory, run, cost, record>>
        /\ history' = Append(history, User(w)) /\ wpc' = [wpc EXCEPT ![w] = "done"]
    BY Zenon DEF WriteToIdle
  <1>3. refused' = refused /\ UNCHANGED <<steers, steered, returned>> /\ InHand' = InHand
    BY <1>2, Zenon DEF memory, run, record, InHand
  <1>4. /\ history' \in Seq(Entry) /\ Steering' /\ Carried \subseteq Carried' /\ w \in Carried'
    BY <1>2, <1>3, WorkerStored, Zenon
  <1>5. wpc \in [Workers -> {"none", "run", "finish", "charge", "deliver", "write", "done"}]
    BY <1>1, Zenon DEF WorkerTyped
  <1>6. /\ wpc' \in [Workers -> {"none", "run", "finish", "charge", "deliver", "write", "done"}]
        /\ \A x \in Workers : x = w \/ wpc'[x] = wpc[x]
    BY <1>2, <1>5
  <1>7. StoreTyped' /\ MemoryTyped' /\ RunTyped' /\ WorkerTyped' /\ RecordTyped'
    BY <1>1, <1>2, <1>4, <1>6, Zenon
       DEF StoreTyped, MemoryTyped, RunTyped, WorkerTyped, RecordTyped, memory, run, record
  <1>8. ControlNow'
    BY <1>1, <1>2, Zenon DEF ControlNow, Control, memory, run
  <1>9. ResultsNow'
    <2>1. held' = held /\ got' = got /\ deliveredJobs' = deliveredJobs /\ pendingHandoffs' = pendingHandoffs
      BY <1>2, Zenon DEF memory, run
    <2>. QED
      BY <1>1, <1>3, <1>4, <1>6, <2>1, Zenon DEF ResultsNow, Results
  <1>. QED
    BY <1>4, <1>7, <1>8, <1>9, Zenon DEF WorkersIInv, ControlNow, ResultsNow

-----------------------------------------------------------------------------
(* The waiting messages are taken in hand. *)
LEMMA DrainSteersKeeps ==
    ASSUME WorkersIInv, DrainSteers
    PROVE  WorkersIInv'
  <1>1. /\ StoreTyped /\ MemoryTyped /\ RunTyped /\ WorkerTyped /\ RecordTyped
        /\ ControlNow /\ ResultsNow /\ Steering
    BY InvParts, Zenon
  <1>2. /\ pc = "steer" /\ pc' = "writeSteer" /\ held' = steers /\ steers' = <<>>
        /\ UNCHANGED <<store, running, pendingHandoffs, deliveredJobs, ctx, calls, row, available, got,
                       runs, turns, worker, record>>
    BY Zenon DEF DrainSteers
  <1>3. /\ "steer" # "writeSteer" /\ "steer" \notin Writing /\ "steer" \notin Without /\ "steer" # "result"
        /\ "writeSteer" \in Steps /\ "writeSteer" \notin Without /\ "writeSteer" \notin OfJob \cup {"result"}
        /\ "writeSteer" \notin OfJob /\ "writeSteer" \notin {"write", "lastWrite"} /\ "writeSteer" \in Writing
        /\ "writeSteer" \notin {"idle", "lastWrite"}
    BY DEF Steps, OfJob, Writing, Without
  <1>4. held = <<>> /\ got = None /\ running = 1
    BY <1>1, <1>2, <1>3, Zenon DEF ControlNow, Control
  <1>5. <<>> \in Seq(Messages) /\ <<>> \in Seq(Workers) /\ DOMAIN << >> = {}
    OBVIOUS
  <1>6. steers \in Seq(Messages) /\ steered \in Seq(Messages)
    BY <1>1, Zenon DEF MemoryTyped, RecordTyped
  <1>7. StoreTyped' /\ MemoryTyped' /\ RunTyped' /\ WorkerTyped' /\ RecordTyped'
    BY <1>1, <1>2, <1>3, <1>5, Zenon
       DEF StoreTyped, MemoryTyped, RunTyped, WorkerTyped, RecordTyped, store, worker, record
  <1>8. ControlNow'
    BY <1>2, <1>3, <1>4, <1>6, Zenon DEF ControlNow, Control
  <1>9. Carried' = Carried
    BY <1>2, Zenon DEF Carried, store
  <1>10. Steering'
    <2>1. InHand = <<>> /\ InHand' = steers
      BY <1>2, <1>3, Zenon DEF InHand
    <2>2. PICK b \in Nat : Lines(b, steered, steers, <<>>) /\ Dealt(b, steered, Carried, returned, refused)
      BY <1>1, <2>1, Zenon DEF Steering
    <2>3. Lines(b, steered, <<>>, steers)
      BY <1>6, <2>2, LinesTake, Zenon
    <2>4. Lines(b, steered', steers', InHand') /\ Dealt(b, steered', Carried', returned', refused')
      BY <1>2, <1>9, <2>1, <2>2, <2>3, Zenon DEF record
    <2>5. InOrder(history', steered')
      BY <1>1, <1>2, Zenon DEF Steering, store, record
    <2>. QED
      BY <2>4, <2>5, Zenon DEF Steering
  <1>11. ResultsNow'
    <2>1. wpc' = wpc /\ refused' = refused
      BY <1>2, Zenon DEF worker, record
    <2>2. Bodies(held) = {}
      BY <1>4, <1>5, Zenon DEF Bodies
    <2>. QED
      BY <1>1, <1>2, <1>9, <2>1, <2>2, Zenon DEF ResultsNow, Results
  <1>. QED
    BY <1>7, <1>8, <1>10, <1>11, Zenon DEF WorkersIInv, ControlNow, ResultsNow

(* The next message in hand is written. *)
LEMMA SteerWritten ==
    ASSUME WorkersIInv, pc = "writeSteer", pc' = "writeSteer", held # <<>>, held' = Tail(held),
           AddMessage(User(Head(held)), {Head(held)}, "writeSteer"), UNCHANGED <<steers, steered, returned>>
    PROVE  Steering' /\ held \in Seq(Messages) /\ Head(held) \in Messages
  <1>1. /\ history \in Seq(Entry) /\ steered \in Seq(Messages) /\ steers \in Seq(Messages)
        /\ held \in Seq(Messages) /\ Steering
    BY InvParts, Zenon DEF StoreTyped, MemoryTyped, RecordTyped, ControlNow, Control
  <1>2. PICK x \in Messages : x = Head(held)
    BY <1>1, TailBodies, Zenon
  <1>3. x # None /\ x \in Body
    BY WorkersAssumption, Zenon DEF Body
  <1>4. InHand = held /\ InHand' = held'
    BY Zenon DEF InHand
  <1>5. PICK b \in Nat : Lines(b, steered, steers, held) /\ Dealt(b, steered, Carried, returned, refused)
    BY <1>1, <1>4, Zenon DEF Steering
  <1>6. /\ Lines(b + 1, steered, steers, Tail(held)) /\ b + 1 \in Nat /\ b + 1 \in 1..Len(steered)
        /\ steered[b + 1] = x
    BY <1>1, <1>2, <1>5, LinesNext, Zenon
  <1>7. \A i, j \in 1..Len(steered) : steered[i] = steered[j] => i = j
    BY <1>5, Zenon DEF Lines
  <1>8. PICK msg \in Entry : msg = User(x) /\ msg.body = x /\ msg.role # "assistant"
    BY <1>3, EntryKinds, Zenon
  <1>9. Carried = CarriedIn(history) /\ Carried' = CarriedIn(history')
    BY Zenon DEF Carried, CarriedIn
  <1>10. CASE history' = Append(history, msg) /\ refused' = refused
    <2>1. CarriedIn(Append(history, msg)) = CarriedIn(history) \cup {x}
      <3>1. CarriedIn(Append(history, msg)) = CarriedIn(history) \cup {msg.body}
        BY <1>1, <1>8, CarriedNext, Zenon
      <3>. QED
        BY <1>8, <3>1, Zenon
    <2>2. Carried' = Carried \cup {steered[b + 1]}
      BY <1>6, <1>9, <1>10, <2>1, Zenon
    <2>3. Dealt(b + 1, steered, Carried', returned, refused')
      BY <1>1, <1>5, <1>6, <1>7, <1>10, <2>2, DealtNext, Zenon
    <2>4. \A m \in Messages : m \in CarriedIn(history) => \E i \in 1..b : steered[i] = m
      BY <1>5, <1>9, Zenon DEF Dealt
    <2>5. InOrder(Append(history, msg), steered)
      <3>1. InOrder(history, steered) /\ msg.body = steered[b + 1]
        BY <1>1, <1>6, <1>8, Zenon DEF Steering
      <3>2. history \in Seq(Entry) /\ steered \in Seq(Messages) /\ b + 1 \in 1..Len(steered)
        BY <1>1, <1>6, Zenon
      <3>. QED
        BY <1>7, <2>4, <3>1, <3>2, OrderNext, ZenonT(40)
    <2>. QED
      BY <1>1, <1>2, <1>4, <1>6, <1>10, <2>3, <2>5, Zenon DEF Steering
  <1>11. CASE history' = history /\ refused' = refused \cup {x}
    <2>1. Carried' = Carried /\ refused' = refused \cup {steered[b + 1]}
      BY <1>6, <1>9, <1>11, Zenon
    <2>2. Dealt(b + 1, steered, Carried', returned, refused')
      BY <1>1, <1>5, <1>6, <1>7, <2>1, DealtNext, Zenon
    <2>. QED
      BY <1>1, <1>2, <1>4, <1>6, <1>11, <2>2, Zenon DEF Steering
  <1>. QED
    BY <1>2, <1>3, <1>8, <1>10, <1>11, Zenon DEF AddMessage

(* The messages in hand are written, or the run goes on. *)
LEMMA WriteSteerKeeps ==
    ASSUME WorkersIInv, WriteSteer
    PROVE  WorkersIInv'
  <1>1. StoreTyped /\ MemoryTyped /\ RunTyped /\ WorkerTyped /\ RecordTyped /\ ControlNow /\ ResultsNow
    BY InvParts, Zenon
  <1>2. /\ pc = "writeSteer" /\ UNCHANGED <<spent, job, slice, memory, worker, steered, returned>>
        /\ UNCHANGED <<ctx, calls, row, available, got, runs, turns>>
    BY Zenon DEF WriteSteer
  <1>3. /\ "writeSteer" \in Steps /\ "writeSteer" \notin Without /\ "writeSteer" \notin {"write", "lastWrite"}
        /\ "writeSteer" \notin OfJob \cup {"result"} /\ "writeSteer" \notin OfJob /\ "writeSteer" # "result"
        /\ "writeSteer" \in Writing /\ "writeSteer" \notin {"idle", "lastWrite"}
        /\ "read" \in Steps /\ "read" \notin Without /\ "read" \notin Writing /\ "read" \notin OfJob \cup {"result"}
        /\ "read" \notin OfJob
    BY DEF Steps, OfJob, Writing, Without
  <1>4. held \in Seq(Messages) /\ got = None /\ running = 1
    BY <1>1, <1>2, <1>3, Zenon DEF ControlNow, Control
  <1>5. CASE held = <<>>
    <2>1. MovesOn("writeSteer", "read") /\ pc' = "read" /\ held' = held /\ history' = history
      BY <1>2, <1>5, Zenon DEF WriteSteer, MovesOn, record
    <2>2. StoreTyped' /\ RunTyped'
      BY <1>1, <1>2, <1>3, <2>1, Zenon DEF StoreTyped, RunTyped
    <2>3. MemoryTyped' /\ WorkerTyped' /\ RecordTyped' /\ ControlNow' /\ ResultsNow' /\ Steering'
      BY <1>2, <1>3, <1>4, <1>5, <2>1, MovesOnKeeps, Zenon
    <2>. QED
      BY <2>2, <2>3, Zenon DEF WorkersIInv, ControlNow, ResultsNow
  <1>6. CASE held # <<>>
    <2>1. AddMessage(User(Head(held)), {Head(held)}, "writeSteer") /\ held' = Tail(held) /\ pc' = "writeSteer"
      BY <1>6, Zenon DEF WriteSteer, AddMessage
    <2>2. Steering'
      BY <1>2, <1>6, <2>1, SteerWritten, Zenon DEF memory
    <2>3. PICK x \in Messages : x = Head(held) /\ Tail(held) \in Seq(Messages) /\
             \A y \in Bodies(held) : y = x \/ y \in Bodies(Tail(held))
      BY <1>4, <1>6, TailBodies, Zenon
    <2>4. PICK msg \in Entry : msg = User(x)
      BY EntryKinds, Zenon DEF Body
    <2>5. AddMessage(msg, {x}, "writeSteer") /\ {x} \in SUBSET Body
      BY <2>1, <2>3, <2>4, Zenon DEF Body
    <2>6. /\ history' \in Seq(Entry) /\ refused' \subseteq Workers \cup Messages
          /\ Carried \subseteq Carried' /\ refused \subseteq refused'
      BY <2>5, MessageAdded, Zenon
    <2>7. StoreTyped' /\ MemoryTyped' /\ RunTyped' /\ WorkerTyped' /\ RecordTyped'
      BY <1>1, <1>2, <2>1, <2>6, Zenon
         DEF StoreTyped, MemoryTyped, RunTyped, WorkerTyped, RecordTyped, memory, worker
    <2>8. ControlNow'
      BY <1>2, <1>3, <1>4, <2>1, <2>3, Zenon DEF ControlNow, Control, memory
    <2>9. ResultsNow'
      <3>1. /\ wpc' = wpc /\ deliveredJobs' = deliveredJobs /\ pendingHandoffs' = pendingHandoffs
        BY <1>2, Zenon DEF memory, worker
      <3>2. x \notin Workers
        BY WorkersAssumption, Zenon
      <3>. QED
        BY <1>1, <1>2, <2>1, <2>3, <2>6, <3>1, <3>2, Zenon DEF ResultsNow, Results
    <2>. QED
      BY <2>2, <2>7, <2>8, <2>9, Zenon DEF WorkersIInv, ControlNow, ResultsNow
  <1>. QED
    BY <1>5, <1>6, Zenon

(* A person's message is accepted, or comes back. *)
LEMMA SteerKeeps ==
    ASSUME WorkersIInv, NEW m \in Messages, Steer(m)
    PROVE  WorkersIInv'
  <1>1. /\ StoreTyped /\ MemoryTyped /\ RunTyped /\ WorkerTyped /\ RecordTyped
        /\ ControlNow /\ ResultsNow /\ Steering
    BY InvParts, Zenon
  <1>2. /\ m \notin Bodies(steered) /\ steers' = Append(steers, m) /\ steered' = Append(steered, m)
        /\ UNCHANGED <<store, running, pendingHandoffs, deliveredJobs, run, worker, returned, refused>>
    BY Zenon DEF Steer, Bodies
  <1>3. history \in Seq(Entry) /\ steers \in Seq(Messages) /\ steered \in Seq(Messages) /\ InHand \in Seq(Messages)
    BY <1>1, HandTyped, Zenon DEF StoreTyped, MemoryTyped, RecordTyped
  <1>4. steers' \in Seq(Messages) /\ steered' \in Seq(Messages)
    BY <1>2, <1>3
  <1>5. StoreTyped' /\ MemoryTyped' /\ RunTyped' /\ WorkerTyped' /\ RecordTyped'
    BY <1>1, <1>2, <1>4, Zenon
       DEF StoreTyped, MemoryTyped, RunTyped, WorkerTyped, RecordTyped, store, run, worker
  <1>6. ControlNow'
    BY <1>1, <1>2, Zenon DEF ControlNow, Control, run
  <1>7. Carried' = Carried /\ InHand' = InHand
    BY <1>2, Zenon DEF Carried, InHand, store, run
  <1>8. ResultsNow'
    BY <1>1, <1>2, <1>7, Zenon DEF ResultsNow, run, worker
  <1>9. PICK b \in Nat : Lines(b, steered, steers, InHand) /\ Dealt(b, steered, Carried, returned, refused)
    BY <1>1, Zenon DEF Steering
  <1>10. b <= Len(steered) /\ Len(steered) \in Nat /\ DOMAIN steered = 1..Len(steered)
    <2>1. b <= Len(steered)
      BY <1>1, <1>3, <1>9, BoundedDealt, Zenon
    <2>. QED
      BY <1>3, <2>1
  <1>11. Lines(b, steered', steers', InHand')
    BY <1>2, <1>3, <1>7, <1>9, LinesAccept, Zenon
  <1>12. Dealt(b, steered', Carried', returned', refused')
    BY <1>2, <1>3, <1>7, <1>9, <1>10, DealtAccept, Zenon
  <1>13. InOrder(history', steered')
    <2>1. \A i \in 1..b : i \in DOMAIN steered
      BY <1>10
    <2>2. m \notin CarriedIn(history)
      BY <1>2, <1>9, <2>1, Zenon DEF Dealt, Bodies, Carried, CarriedIn
    <2>3. InOrder(history, Append(steered, m))
      BY <1>1, <1>3, <2>2, OrderAccept, Zenon DEF Steering
    <2>. QED
      BY <1>2, <2>3, Zenon DEF store
  <1>14. Steering'
    BY <1>11, <1>12, <1>13, Zenon DEF Steering
  <1>. QED
    BY <1>5, <1>6, <1>8, <1>14, Zenon DEF WorkersIInv, ControlNow, ResultsNow

(* The host takes back what waits. *)
LEMMA UnsteeredKeeps ==
    ASSUME WorkersIInv, Unsteered
    PROVE  WorkersIInv'
  <1>1. /\ StoreTyped /\ MemoryTyped /\ RunTyped /\ WorkerTyped /\ RecordTyped
        /\ ControlNow /\ ResultsNow /\ Steering
    BY InvParts, Zenon
  <1>2. /\ pc = "idle" /\ returned' = returned \cup Bodies(steers) /\ steers' = <<>>
        /\ UNCHANGED <<store, running, pendingHandoffs, deliveredJobs, run, worker, steered, refused>>
    BY Zenon DEF Unsteered, Bodies
  <1>3. steers \in Seq(Messages) /\ steered \in Seq(Messages) /\ <<>> \in Seq(Messages)
    <2>1. <<>> \in Seq(Messages)
      OBVIOUS
    <2>. QED
      BY <1>1, <2>1, Zenon DEF MemoryTyped, RecordTyped
  <1>4. Bodies(steers) \subseteq Messages
    <2>1. \A k \in DOMAIN steers : steers[k] \in Messages
      BY <1>3
    <2>. QED
      BY <2>1, Zenon DEF Bodies
  <1>5. StoreTyped' /\ MemoryTyped' /\ RunTyped' /\ WorkerTyped' /\ RecordTyped'
    BY <1>1, <1>2, <1>3, <1>4, Zenon
       DEF StoreTyped, MemoryTyped, RunTyped, WorkerTyped, RecordTyped, store, run, worker
  <1>6. ControlNow'
    BY <1>1, <1>2, Zenon DEF ControlNow, Control, run
  <1>7. Carried' = Carried /\ InHand' = InHand
    BY <1>2, Zenon DEF Carried, InHand, store, run
  <1>8. ResultsNow'
    BY <1>1, <1>2, <1>7, Zenon DEF ResultsNow, run, worker
  <1>9. InHand = <<>>
    <2>1. "idle" # "writeSteer"
      OBVIOUS
    <2>. QED
      BY <1>2, <2>1, Zenon DEF InHand
  <1>10. PICK b \in Nat : Lines(b, steered, steers, <<>>) /\ Dealt(b, steered, Carried, returned, refused)
    BY <1>1, <1>9, Zenon DEF Steering
  <1>11. Lines(Len(steered), steered, <<>>, <<>>) /\ Len(steered) \in Nat
    BY <1>3, <1>10, LinesBack, Zenon
  <1>12. Dealt(Len(steered), steered, Carried, returned \cup Bodies(steers), refused)
    BY <1>3, <1>10, DealtBack, Zenon
  <1>13. Lines(Len(steered), steered', steers', InHand') /\ Dealt(Len(steered), steered', Carried', returned', refused')
    BY <1>2, <1>7, <1>9, <1>11, <1>12, Zenon
  <1>14. InOrder(history', steered')
    BY <1>1, <1>2, Zenon DEF Steering, store
  <1>15. Steering'
    BY <1>11, <1>13, <1>14, Zenon DEF Steering
  <1>. QED
    BY <1>5, <1>6, <1>8, <1>15, Zenon DEF WorkersIInv, ControlNow, ResultsNow

-----------------------------------------------------------------------------
(* At the start there is nothing. *)
LEMMA WorkersStart ==
    ASSUME Init
    PROVE  WorkersIInv
  <1>1. Budget \in Nat /\ MaxRuns \in Nat /\ MaxTurns \in Nat
    BY WorkersAssumption, Zenon
  <1>2. /\ \A T : <<>> \in Seq(T)
        /\ Len(<<>>) = 0 /\ DOMAIN << >> = {}
    OBVIOUS
  <1>3. StoreTyped /\ MemoryTyped /\ WorkerTyped /\ RecordTyped
    BY <1>1 DEF Init, StoreTyped, MemoryTyped, WorkerTyped, RecordTyped
  <1>4. RunTyped
    BY <1>1 DEF Init, RunTyped, Steps
  <1>5. ControlNow
    BY DEF Init, ControlNow, Control, Without, OfJob, Writing
  <1>6. ResultsNow
    BY DEF Init, ResultsNow, Results
  <1>7. Carried = {} /\ InHand = <<>>
    BY <1>2, Zenon DEF Init, Carried, InHand
  <1>8. Steering
    <2>1. Lines(0, <<>>, <<>>, <<>>)
      BY DEF Lines
    <2>2. Dealt(0, <<>>, {}, {}, {})
      BY DEF Dealt
    <2>3. InOrder(<<>>, <<>>)
      BY <1>2, Zenon DEF InOrder
    <2>4. 0 \in Nat
      OBVIOUS
    <2>. QED
      BY <1>7, <2>1, <2>2, <2>3, <2>4, Zenon DEF Init, Steering
  <1>. QED
    BY <1>3, <1>4, <1>5, <1>6, <1>8, Zenon DEF WorkersIInv, ControlNow, ResultsNow

(* Every step keeps the accounts. *)
LEMMA WorkersStep ==
    ASSUME WorkersIInv, [Next]_vars
    PROVE  WorkersIInv'
  <1>1. ASSUME Loop PROVE WorkersIInv'
    <2>1. CASE LoopTop
      BY <2>1, LoopTopKeeps, Zenon
    <2>2. CASE LastDrain
      BY <2>2, LastDrainKeeps, Zenon
    <2>3. CASE WriteHandoff
      BY <2>3, WriteHandoffKeeps, Zenon
    <2>4. CASE WriteLastHandoff
      BY <2>4, WriteLastHandoffKeeps, Zenon
    <2>5. CASE DrainSteers
      BY <2>5, DrainSteersKeeps, Zenon
    <2>6. CASE WriteSteer
      BY <2>6, WriteSteerKeeps, Zenon
    <2>7. CASE ReadSession
      BY <2>7, ReadSessionKeeps, Zenon
    <2>8. CASE CheckBudget
      BY <2>8, CheckBudgetKeeps, Zenon
    <2>9. CASE CallFails
      BY <2>9, CallFailsKeeps, Zenon
    <2>10. CASE \E reply \in Replies : CallReplies(reply)
      BY <2>10, CallRepliesKeeps, Zenon
    <2>11. CASE ChargeCall
      BY <2>11, ChargeCallKeeps, Zenon
    <2>12. CASE WriteReply
      BY <2>12, WriteReplyKeeps, Zenon
    <2>13. CASE Complete
      BY <2>13, CompleteKeeps, Zenon
    <2>14. CASE ServeCall
      BY <2>14, ServeCallKeeps, Zenon
    <2>15. CASE WriteResult
      BY <2>15, WriteResultKeeps, Zenon
    <2>16. CASE SpawnRead
      BY <2>16, SpawnReadKeeps, Zenon
    <2>17. CASE SpawnReserve
      BY <2>17, SpawnReserveKeeps, Zenon
    <2>18. CASE SpawnCreate
      BY <2>18, SpawnCreateKeeps, Zenon
    <2>19. CASE SpawnJoin
      BY <2>19, SpawnJoinKeeps, Zenon
    <2>20. CASE WaitDelivered
      BY <2>20, WaitDeliveredKeeps, Zenon
    <2>21. CASE WaitGivesUp
      BY <2>21, WaitGivesUpKeeps, Zenon
    <2>22. CASE EndRun
      BY <2>22, EndRunKeeps, Zenon
    <2>. QED
      BY <1>1, <2>1, <2>2, <2>3, <2>4, <2>5, <2>6, <2>7, <2>8, <2>9, <2>10, <2>11, <2>12, <2>13, <2>14, <2>15,
         <2>16, <2>17, <2>18, <2>19, <2>20, <2>21, <2>22, Zenon DEF Loop
  <1>2. ASSUME NEW w \in Workers, Worker(w) PROVE WorkersIInv'
    <2>1. CASE RunJob(w) \/ FinishJob(w) \/ ChargeJob(w)
      BY <2>1, JobStepsKeep, Zenon
    <2>2. CASE DeliverHandoff(w)
      BY <2>2, DeliverHandoffKeeps, Zenon
    <2>3. CASE WriteToIdle(w)
      BY <2>3, WriteToIdleKeeps, Zenon
    <2>. QED
      BY <1>2, <2>1, <2>2, <2>3, Zenon DEF Worker
  <1>3. ASSUME NEW m \in Messages, Steer(m) PROVE WorkersIInv'
    BY <1>3, SteerKeeps, Zenon
  <1>4. CASE BeginRun
    BY <1>4, BeginRunKeeps, Zenon
  <1>5. CASE ContextEnds
    BY <1>5, ContextEndsKeeps, Zenon
  <1>6. CASE Unsteered
    BY <1>6, UnsteeredKeeps, Zenon
  <1>7. CASE UNCHANGED vars
    <2>1. UNCHANGED <<store, memory, run, worker, record>>
      BY <1>7, Zenon DEF vars
    <2>2. UNCHANGED <<history, pendingHandoffs, deliveredJobs, steers, held, got, steered, returned, refused>>
          /\ UNCHANGED <<pc, running, calls, wpc>>
      BY <2>1, Zenon DEF store, memory, run, worker, record
    <2>3. StoreTyped' /\ MemoryTyped' /\ RunTyped' /\ WorkerTyped' /\ RecordTyped'
      BY <2>1, InvParts, Zenon
         DEF StoreTyped, MemoryTyped, RunTyped, WorkerTyped, RecordTyped, store, memory, run, worker, record
    <2>4. ControlNow' /\ Quiet
      BY <2>2, InvParts, Zenon DEF ControlNow, Quiet
    <2>5. ResultsNow' /\ Steering'
      BY <2>2, <2>4, InvParts, QuietKeeps, Zenon
    <2>. QED
      BY <2>3, <2>4, <2>5, Zenon DEF WorkersIInv, ControlNow, ResultsNow
  <1>. QED
    BY <1>1, <1>2, <1>3, <1>4, <1>5, <1>6, <1>7, Zenon DEF Next

(* One of five. *)
LEMMA OneOfFive ==
    ASSUME NEW p, NEW n \in 1..5, p[n], \A k \in 1..5 : k # n => ~p[k]
    PROVE  Cardinality({k \in 1..5 : p[k]}) = 1
  <1>1. {k \in 1..5 : p[k]} = {n}
    BY Zenon
  <1>2. Cardinality({n}) = 1
    BY FS_Singleton, Zenon
  <1>. QED
    BY <1>1, <1>2, Zenon

(* Where an accepted message is: waiting, in hand, written, back, refused. *)
Place(n, m, s, h, ca, re, rf) ==
    /\ n = 1 <=> m \in Bodies(s)
    /\ n = 2 <=> m \in Bodies(h)
    /\ n = 3 <=> m \in ca
    /\ n = 4 <=> m \in re
    /\ n = 5 <=> m \in rf

(* An accepted message is in exactly one place. *)
LEMMA OnePlace ==
    ASSUME NEW b \in Nat, NEW Q \in Seq(Messages), NEW s \in Seq(Messages), NEW h \in Seq(Messages),
           NEW ca, NEW re, NEW rf, Lines(b, Q, s, h), Dealt(b, Q, ca, re, rf), NEW m \in Bodies(Q)
    PROVE  \E n \in 1..5 : Place(n, m, s, h, ca, re, rf)
  <1>1. PICK i \in DOMAIN Q : m = Q[i]
    BY Zenon DEF Bodies
  <1>2. /\ Len(Q) \in Nat /\ DOMAIN Q = 1..Len(Q) /\ Len(s) \in Nat /\ DOMAIN s = 1..Len(s)
        /\ Len(h) \in Nat /\ DOMAIN h = 1..Len(h) /\ Q[i] \in Messages
    OBVIOUS
  <1>3. b + Len(h) + Len(s) = Len(Q) /\ \A j, k \in 1..Len(Q) : Q[j] = Q[k] => j = k
    BY Zenon DEF Lines
  <1>4. m \in Bodies(s) <=> i > b + Len(h)
    <2>1. ASSUME m \in Bodies(s) PROVE i > b + Len(h)
      <3>1. PICK k \in DOMAIN s : m = s[k]
        BY <2>1, Zenon DEF Bodies
      <3>2. s[k] = Q[b + Len(h) + k]
        BY <1>2, Zenon DEF Lines
      <3>3. b + Len(h) + k \in 1..Len(Q) /\ b + Len(h) + k > b + Len(h)
        BY <1>2, <1>3
      <3>4. i = b + Len(h) + k
        BY <1>1, <1>2, <1>3, <3>1, <3>2, <3>3, Zenon
      <3>. QED
        BY <3>3, <3>4, Zenon
    <2>2. ASSUME i > b + Len(h) PROVE m \in Bodies(s)
      <3>1. i - (b + Len(h)) \in DOMAIN s /\ b + Len(h) + (i - (b + Len(h))) = i
        BY <1>2, <1>3, <2>2
      <3>2. PICK k \in DOMAIN s : b + Len(h) + k = i
        BY <3>1, Zenon
      <3>3. s[k] = Q[i]
        BY <1>2, <3>2, Zenon DEF Lines
      <3>. QED
        BY <1>1, <3>3, Zenon DEF Bodies
    <2>. QED
      BY <2>1, <2>2, Zenon
  <1>5. m \in Bodies(h) <=> i > b /\ ~(i > b + Len(h))
    <2>1. ASSUME m \in Bodies(h) PROVE i > b /\ ~(i > b + Len(h))
      <3>1. PICK k \in DOMAIN h : m = h[k]
        BY <2>1, Zenon DEF Bodies
      <3>2. h[k] = Q[b + k]
        BY <1>2, Zenon DEF Lines
      <3>3. b + k \in 1..Len(Q) /\ b + k > b /\ ~(b + k > b + Len(h))
        BY <1>2, <1>3
      <3>4. i = b + k
        BY <1>1, <1>2, <1>3, <3>1, <3>2, <3>3, Zenon
      <3>. QED
        BY <3>3, <3>4, Zenon
    <2>2. ASSUME i > b, ~(i > b + Len(h)) PROVE m \in Bodies(h)
      <3>1. i - b \in DOMAIN h /\ b + (i - b) = i
        BY <1>2, <2>2
      <3>2. PICK k \in DOMAIN h : b + k = i
        BY <3>1, Zenon
      <3>3. h[k] = Q[i]
        BY <1>2, <3>2, Zenon DEF Lines
      <3>. QED
        BY <1>1, <3>3, Zenon DEF Bodies
    <2>. QED
      BY <2>1, <2>2, Zenon
  <1>6. m \in ca \cup re \cup rf <=> ~(i > b)
    <2>1. ASSUME m \in ca \cup re \cup rf PROVE ~(i > b)
      <3>1. PICK k \in 1..b : Q[k] = m
        BY <1>1, <1>2, <2>1, Zenon DEF Dealt
      <3>2. k \in 1..Len(Q) /\ ~(k > b)
        BY <1>2, <1>3
      <3>3. k = i
        BY <1>1, <1>2, <1>3, <3>1, <3>2, Zenon
      <3>. QED
        BY <3>2, <3>3, Zenon
    <2>2. ASSUME ~(i > b) PROVE m \in ca \cup re \cup rf
      <3>1. i \in 1..b
        BY <1>2, <2>2
      <3>. QED
        BY <1>1, <3>1, Zenon DEF Dealt
    <2>. QED
      BY <2>1, <2>2, Zenon
  <1>7. ~(m \in ca /\ m \in re) /\ ~(m \in ca /\ m \in rf) /\ ~(m \in re /\ m \in rf)
    BY <1>1, <1>2, Zenon DEF Dealt
  <1>8. i > b + Len(h) => i > b
    BY <1>2
  <1>9. /\ m \in Bodies(s) => m \notin Bodies(h) /\ m \notin ca /\ m \notin re /\ m \notin rf
        /\ m \in Bodies(h) => m \notin ca /\ m \notin re /\ m \notin rf
        /\ m \in Bodies(s) \/ m \in Bodies(h) \/ m \in ca \/ m \in re \/ m \in rf
    BY <1>4, <1>5, <1>6, <1>8, Zenon
  <1>. QED
    BY <1>7, <1>9 DEF Place

(* What the inductive invariant is for. *)
LEMMA WorkersEnough ==
    ASSUME WorkersIInv
    PROVE  WorkersInv
  <1>1. /\ StoreTyped /\ MemoryTyped /\ RunTyped /\ WorkerTyped /\ RecordTyped
        /\ ControlNow /\ ResultsNow /\ Steering
    BY InvParts, Zenon
  <1>2. TypeOK
    BY <1>1, Zenon DEF StoreTyped, MemoryTyped, RunTyped, WorkerTyped, RecordTyped, TypeOK
  <1>3. ResultsAccounted
    BY <1>1, Zenon DEF ResultsNow, Results, ResultsAccounted
  <1>4. NoStrandedHandoff
    BY <1>1, Zenon DEF ControlNow, Control, NoStrandedHandoff
  <1>5. steers \in Seq(Messages) /\ steered \in Seq(Messages) /\ InHand \in Seq(Messages)
    BY <1>1, HandTyped, Zenon DEF MemoryTyped, RecordTyped
  <1>6. PICK b \in Nat : Lines(b, steered, steers, InHand) /\ Dealt(b, steered, Carried, returned, refused)
    BY <1>1, Zenon DEF Steering
  <1>7. ASSUME NEW m \in Bodies(steered) PROVE m \in Bodies(held) <=> m \in Bodies(InHand)
    <2>1. CASE pc = "writeSteer"
      BY <2>1, Zenon DEF InHand
    <2>2. CASE pc # "writeSteer"
      <3>1. m \notin Bodies(held)
        <4>1. m \notin Workers
          <5>1. m \in Messages
            BY <1>5 DEF Bodies
          <5>. QED
            BY <5>1, WorkersAssumption, Zenon
        <4>2. held \in Seq(Workers)
          <5>1. <<>> \in Seq(Workers) /\ (pc \in Writing => pc \in {"write", "lastWrite"})
            BY <2>2 DEF Writing
          <5>. QED
            BY <1>1, <5>1, Zenon DEF ControlNow, Control
        <4>3. \A k \in DOMAIN held : held[k] \in Workers
          BY <4>2
        <4>. QED
          BY <4>1, <4>3, Zenon DEF Bodies
      <3>2. InHand = <<>> /\ DOMAIN << >> = {}
        BY <2>2 DEF InHand
      <3>. QED
        BY <3>1, <3>2, Zenon DEF Bodies
    <2>. QED
      BY <2>1, <2>2, Zenon
  <1>8. SteersAccounted
    <2>1. ASSUME NEW m \in Bodies(steered)
          PROVE  LET places == <<m \in Bodies(steers), m \in Bodies(held), m \in Carried, m \in returned, m \in refused>>
                 IN Cardinality({k \in 1..5 : places[k]}) = 1
      <3>. DEFINE p == <<m \in Bodies(steers), m \in Bodies(held), m \in Carried, m \in returned, m \in refused>>
      <3>1. PICK n \in 1..5 : Place(n, m, steers, InHand, Carried, returned, refused)
        BY <1>5, <1>6, OnePlace, Zenon
      <3>2. \A k \in 1..5 : p[k] <=> k = n
        <4>1. /\ p[1] = (m \in Bodies(steers)) /\ p[2] = (m \in Bodies(held)) /\ p[3] = (m \in Carried)
              /\ p[4] = (m \in returned) /\ p[5] = (m \in refused)
          OBVIOUS
        <4>2. \A k \in 1..5 : k = 1 \/ k = 2 \/ k = 3 \/ k = 4 \/ k = 5
          OBVIOUS
        <4>. HIDE DEF p
        <4>. QED
          BY <1>7, <3>1, <4>1, <4>2, Zenon DEF Place
      <3>. HIDE DEF p
      <3>3. Cardinality({k \in 1..5 : p[k]}) = 1
        BY <3>2, OneOfFive, Zenon
      <3>. QED
        BY <3>3, Zenon DEF p
    <2>. QED
      BY <1>1, <2>1, Zenon DEF SteersAccounted, Steering, InOrder
  <1>. QED
    BY <1>2, <1>3, <1>4, <1>8, Zenon DEF WorkersInv

(* Nothing a worker or a person sent gets lost: the result of a finished    *)
(* worker is in the history, in the queue of handoffs, in the hands of a    *)
(* step or in a write that an ended context refused; a session without a    *)
(* run has no queue; an accepted message is in exactly one place, and those *)
(* delivered stand in order (handoff.go, steer.go, worker_job.go).          *)
THEOREM WorkersAccounted == Spec => []WorkersInv
  <1>1. Init => WorkersIInv
    BY WorkersStart
  <1>2. WorkersIInv /\ [Next]_vars => WorkersIInv'
    BY WorkersStep
  <1>3. WorkersIInv => WorkersInv
    BY WorkersEnough
  <1>. QED
    BY <1>1, <1>2, <1>3, PTL DEF Spec
=============================================================================
