-------------------------- MODULE CacheStoreProofs --------------------------
(***************************************************************************)
(* Proofs about CacheStore, for any paths, contents, limits and goroutines. *)
(* Of any calls that interleave: as long as nothing is removed, a file is   *)
(* there before its entry and the size is counted before it.  Of one call   *)
(* at a time: the size covers the entries, entries and files match, and the *)
(* cache is a least-recently-used map.                                      *)
(***************************************************************************)
EXTENDS CacheStore, FiniteSetTheorems, TLAPS

\* The steps of a call in the order the operators put them in. A file is opened,
\* filled, and filed as an entry later; what is written back was just read; a
\* deletion is under way at the front only; nothing is filed after a look-up.
Opens(s, i) ==
  s[i].do = "open" =>
    i + 1 \in 1..Len(s) /\ s[i + 1].do = "fill" /\ s[i + 1].path = s[i].path
Fills(s, i) ==
  s[i].do = "fill" =>
    /\ i > 1 => s[i - 1].do = "open" /\ s[i - 1].path = s[i].path
    /\ \E j \in 1..Len(s) : j > i /\ s[j].do = "credit" /\ s[j].path = s[i].path
Credits(s, i) ==
  s[i].do = "credit" /\ i > 1 =>
    /\ s[i - 1].do = "fill" /\ s[i - 1].path = s[i].path
    /\ s[i].entry.size = SizeOf[s[i - 1].data]
AtFront(s, i) ==
  /\ s[i].do \in {"set", "find", "debit"} => i = 1
  /\ s[i].do = "debit" => 2 \in 1..Len(s) /\ s[2].do = "drop"
  /\ s[i].do = "drop" => i = 1 \/ (i = 2 /\ s[1].do = "debit")
LooksUp(s, i) ==
  s[i].do \in {"check", "hit", "expire"} => \A j \in 1..Len(s) : j > i => s[j].do # "credit"
Removes(s, i) ==
  s[i].do \in {"pick", "evict"} => "removed" \in s[i].after

WellFormed(s) ==
  \A i \in 1..Len(s) :
    Opens(s, i) /\ Fills(s, i) /\ Credits(s, i) /\ AtFront(s, i) /\ LooksUp(s, i) /\ Removes(s, i)
InOrder == \A c \in Procs : WellFormed(prog[c])

First(c) == prog[c][1]

\* A file that is filled or filed has been opened.
OpenedFirst ==
  NothingRemoved => \A c \in Procs :
    prog[c] # <<>> /\ First(c).do \in {"fill", "credit", "set"} => ~Absent(First(c).path)

\* What is deleted, although nothing has been removed yet, has a file.
Deletes(x) ==
  \/ x.do \in {"find", "debit", "drop"}
  \/ x.do \in {"pick", "evict"} /\ "failed" \in x.after /\ disk = "failing"
  \/ x.do = "evict" /\ \E i \in 1..Len(x.items) : Absent(x.items[i].path)
NothingDeleted ==
  NothingRemoved => \A c \in Procs : \A i \in 1..Len(prog[c]) : ~Deletes(prog[c][i])

\* What is still to be written of the sizes that were added.
Owes(c) == IF prog[c] # <<>> /\ First(c).do = "set" THEN First(c).entry.size ELSE 0
Owed == SumOf([c \in Procs |-> Owes(c)])
SizeCoversOwed == NothingRemoved /\ crashes = 0 => Total + Owed <= currentSize

\* One call at a time.
Alone ==
  /\ \A c \in Procs : prog[c] # <<>> => call[c] # NoCall
  /\ Serial => \A c, d \in Procs : call[c] # NoCall /\ call[d] # NoCall => c = d

\* The size that is about to be subtracted is that of the entry; between the
\* subtraction and the deletion the entry does not count.
SerialSize ==
  /\ \A c \in Procs : prog[c] # <<>> =>
       /\ First(c).do = "debit" =>
            entry[prog[c][2].path] # None /\ First(c).size = entry[prog[c][2].path].size
       /\ First(c).do = "set" => Total + First(c).entry.size <= currentSize
       /\ First(c).do = "drop" => Total - SizeAt(First(c).path) <= currentSize
  /\ (\A c \in Procs : prog[c] # <<>> => First(c).do # "drop") => Total <= currentSize

\* An entry and its file agree, or a call will make them.  s is what a call has
\* still to do, e the entries and f the files: what is filled was just cut, what
\* is filed has the size of the file, and what is deleted has lost its file.
HeadFits(s, f) ==
  s # <<>> =>
    /\ s[1].do = "fill" => f[s[1].path].content = "empty" /\ f[s[1].path].gen = s[1].gen
    /\ s[1].do \in {"credit", "set"} =>
         f[s[1].path].content \in Data /\ SizeOf[f[s[1].path].content] = s[1].entry.size
Gone(s, f) ==
  \A i \in 1..Len(s) : s[i].do \in {"find", "drop"} => f[s[i].path].content = "absent"
Agree(e, f, p) ==
  /\ e[p] # None <=> f[p].content # "absent"
  /\ e[p] # None => f[p].content \in Data /\ SizeOf[f[p].content] = e[p].size
Awaits(s, p) == \E i \in 1..Len(s) : s[i].do \in {"credit", "set", "find", "drop"} /\ s[i].path = p
Consistent(s, e, f) == HeadFits(s, f) /\ Gone(s, f) /\ \A p \in Paths : Agree(e, f, p) \/ Awaits(s, p)
SerialMatch ==
  disk = "sound" =>
    /\ \A c \in Procs : HeadFits(prog[c], file) /\ Gone(prog[c], file)
    /\ \A p \in Paths : Agree(entry, file, p) \/ \E c \in Procs : Awaits(prog[c], p)

-----------------------------------------------------------------------------
(* Sums.                                                                    *)

\* A unit of the sum belongs to one x.
LEMMA SumSplit ==
  ASSUME NEW S, IsFiniteSet(S), NEW f \in [S -> Nat], NEW x \in S
  PROVE  /\ SumOf(f) \in Nat
         /\ SumOf(f) = Cardinality(UNION {{y} \X (1..f[y]) : y \in S \ {x}}) + f[x]
         /\ Cardinality(UNION {{y} \X (1..f[y]) : y \in S \ {x}}) \in Nat
<1> DEFINE Units(y) == {y} \X (1..f[y])
           Others == UNION {Units(y) : y \in S \ {x}}
<1>1. \A y \in S : IsFiniteSet(Units(y)) /\ Cardinality(Units(y)) = f[y]
  <2> SUFFICES ASSUME NEW y \in S PROVE IsFiniteSet(Units(y)) /\ Cardinality(Units(y)) = f[y]
    OBVIOUS
  <2>1. IsFiniteSet(1..f[y]) /\ Cardinality(1..f[y]) = f[y]
    BY FS_Interval
  <2>2. IsFiniteSet({y}) /\ Cardinality({y}) = 1
    BY FS_Singleton
  <2>3. /\ IsFiniteSet(Units(y))
        /\ Cardinality(Units(y)) = Cardinality({y}) * Cardinality(1..f[y])
    BY <2>1, <2>2, FS_Product
  <2>4. f[y] \in Nat  OBVIOUS
  <2> QED  BY <2>1, <2>2, <2>3, <2>4
<1>2. IsFiniteSet(Others)
  <2>1. \A T \in {Units(y) : y \in S \ {x}} : IsFiniteSet(T)
    BY <1>1
  <2>2. IsFiniteSet({Units(y) : y \in S \ {x}})
    <3> DEFINE g == [y \in S \ {x} |-> Units(y)]
               T == {Units(y) : y \in S \ {x}}
    <3>1. g \in Surjection(S \ {x}, T)
      BY DEF Surjection
    <3>2. IsFiniteSet(S \ {x})
      BY FS_RemoveElement
    <3> HIDE DEF g, T
    <3>3. IsFiniteSet(T)
      BY <3>1, <3>2, FS_Surjection
    <3> QED  BY <3>3 DEF T
  <2> QED  BY <2>1, <2>2, FS_UNION
<1>3. UNION {Units(y) : y \in S} = Others \cup Units(x)
  OBVIOUS
<1>4. Others \cap Units(x) = {}
  OBVIOUS
<1>5. Cardinality(Others \cup Units(x)) = Cardinality(Others) + f[x]
  <2> HIDE DEF Units, Others
  <2>1. Cardinality(Others \cup Units(x))
          = Cardinality(Others) + Cardinality(Units(x)) - Cardinality({})
    BY <1>1, <1>2, <1>4, FS_Union
  <2> QED  BY <1>1, <1>2, <2>1, FS_EmptySet, FS_CardinalityType
<1>6. SumOf(f) = Cardinality(Others \cup Units(x))
  <2>1. DOMAIN f = S  OBVIOUS
  <2> QED  BY <1>3, <2>1 DEF SumOf
<1>7. Cardinality(Others) \in Nat
  BY <1>2, FS_CardinalityType
<1> QED  BY <1>5, <1>6, <1>7

\* One value of f is changed.
LEMMA SumChange ==
  ASSUME NEW S, IsFiniteSet(S), NEW f \in [S -> Nat], NEW g \in [S -> Nat], NEW x \in S,
         \A y \in S \ {x} : g[y] = f[y]
  PROVE  /\ SumOf(f) \in Nat /\ SumOf(g) \in Nat
         /\ f[x] <= SumOf(f)
         /\ SumOf(g) = SumOf(f) - f[x] + g[x]
<1> DEFINE F == Cardinality(UNION {{y} \X (1..f[y]) : y \in S \ {x}})
           G == Cardinality(UNION {{y} \X (1..g[y]) : y \in S \ {x}})
<1>1. F = G
  <2>1. {{y} \X (1..f[y]) : y \in S \ {x}} = {{y} \X (1..g[y]) : y \in S \ {x}}
    OBVIOUS
  <2> QED  BY <2>1
<1>2. SumOf(f) \in Nat /\ F \in Nat /\ SumOf(f) = F + f[x]
  BY SumSplit
<1>3. SumOf(g) \in Nat /\ G \in Nat /\ SumOf(g) = G + g[x]
  BY SumSplit
<1>4. f[x] \in Nat /\ g[x] \in Nat
  OBVIOUS
<1> HIDE DEF F, G
<1> QED  BY <1>1, <1>2, <1>3, <1>4

\* A sum of nothing.
LEMMA SumZero ==
  ASSUME NEW S, NEW f \in [S -> {0}]
  PROVE  SumOf(f) = 0
<1>1. \A y \in S : 1..f[y] = {}
  OBVIOUS
<1>2. UNION {{y} \X (1..f[y]) : y \in DOMAIN f} = {}
  BY <1>1
<1> QED  BY <1>2, FS_EmptySet DEF SumOf

-----------------------------------------------------------------------------
(* Sequences of steps.                                                      *)

\* What goes on after the first step.
LEMMA Rest ==
  ASSUME NEW T, NEW s \in Seq(T), s # <<>>, NEW t \in Seq(T)
  PROVE  LET u == t \o Tail(s) IN
         /\ u \in Seq(T)
         /\ Len(u) = Len(t) + Len(s) - 1
         /\ \A i \in 1..Len(t) : u[i] = t[i]
         /\ \A i \in Len(t) + 1..Len(u) : u[i] = s[i - Len(t) + 1] /\ i - Len(t) + 1 \in 2..Len(s)
OBVIOUS

\* The two parts of a joined sequence.
Parts(u, s, t) ==
  /\ Len(u) = Len(s) + Len(t)
  /\ \A i \in 1..Len(s) : u[i] = s[i]
  /\ \A i \in 1..Len(t) : u[Len(s) + i] = t[i]

\* Joining two sequences of steps gives a sequence of steps made of the two.
LEMMA Joined ==
  ASSUME NEW s \in Seq(Steps), NEW t \in Seq(Steps)
  PROVE  s \o t \in Seq(Steps) /\ Parts(s \o t, s, t)
<1>1. s \o t \in Seq(Steps) /\ Len(s \o t) = Len(s) + Len(t)
  OBVIOUS
<1>2. \A i \in 1..Len(s) : (s \o t)[i] = s[i]
  OBVIOUS
<1>3. \A i \in 1..Len(t) : (s \o t)[Len(s) + i] = t[i]
  OBVIOUS
<1> QED  BY <1>1, <1>2, <1>3 DEF Parts

\* What each kind of step carries.
LEMMA StepTypes ==
  ASSUME NEW x \in Steps
  PROVE  /\ x.do \in {"open", "check", "hit", "read", "find", "drop", "locate", "expire",
                      "fill", "credit", "set"} => x.path \in Paths
         /\ x.do = "fill" => x.data \in Data /\ x.gen \in Nat
         /\ x.do \in {"credit", "set"} => x.entry \in Entry
         /\ x.do = "credit" => x.touch \in BOOLEAN
         /\ x.do \in {"room", "debit"} => x.size \in Nat
         /\ x.do = "pick" => x.cutoff \in Nat /\ x.count \in Nat
         /\ x.do = "evict" => x.items \in Seq(Item)
         /\ x.do \in {"pick", "evict"} => x.need \in Int /\ x.floor \in Int /\ x.after \subseteq Outcomes
BY DEF Steps

\* A call keeps its order when its first step is replaced by others.
LEMMA RestInOrder ==
  ASSUME NEW s \in Seq(Steps), s # <<>>, WellFormed(s), s[1].do # "open",
         NEW t \in Seq(Steps), WellFormed(t),
         t = <<>> \/ s[1].do \notin {"fill", "debit"},
         \A i \in 1..Len(t) : t[i].do \notin {"check", "hit", "expire"}
  PROVE  WellFormed(t \o Tail(s))
<1> DEFINE u == t \o Tail(s)
           k == Len(t)
<1>1. /\ u \in Seq(Steps) /\ k \in Nat /\ Len(u) = k + Len(s) - 1 /\ Len(s) \in Nat /\ Len(s) >= 1
      /\ \A i \in 1..k : u[i] = t[i]
      /\ \A i \in k + 1..Len(u) : u[i] = s[i - k + 1] /\ i - k + 1 \in 2..Len(s)
  BY Rest
<1>2. \A j \in 2..Len(s) : j + k - 1 \in k + 1..Len(u) /\ u[j + k - 1] = s[j]
  BY <1>1
<1> HIDE DEF u, k
<1> SUFFICES ASSUME NEW i \in 1..Len(u)
             PROVE  Opens(u, i) /\ Fills(u, i) /\ Credits(u, i) /\ AtFront(u, i) /\ LooksUp(u, i) /\ Removes(u, i)
  BY DEF WellFormed, u
<1>t. \A j \in 1..k : Opens(t, j) /\ Fills(t, j) /\ Credits(t, j) /\ AtFront(t, j) /\ LooksUp(t, j) /\ Removes(t, j)
  BY DEF WellFormed, k
<1>s. \A j \in 1..Len(s) :
        Opens(s, j) /\ Fills(s, j) /\ Credits(s, j) /\ AtFront(s, j) /\ LooksUp(s, j) /\ Removes(s, j)
  BY DEF WellFormed
<1>k. k = Len(t)  BY DEF k
<1>3. CASE i \in 1..k
  <2> USE <1>k
  <2>a. \A j \in 1..k : j \in 1..Len(u) /\ u[j] = t[j]
    BY <1>1
  <2>b. i > 1 => i - 1 \in 1..k /\ u[i - 1] = t[i - 1]
    BY <1>1, <1>3
  <2>1. Opens(u, i)
    BY <1>1, <1>3, <1>t DEF Opens, k
  <2>2. Fills(u, i)
    <3>1. Fills(t, i)
      BY <1>3, <1>t
    <3> QED  BY <1>3, <3>1, <2>a, <2>b DEF Fills
  <2>3. Credits(u, i)
    BY <1>3, <1>t, <2>a, <2>b DEF Credits
  <2>4. AtFront(u, i)
    <3>1. 1 \in 1..k /\ u[1] = t[1]
      BY <1>3, <2>a
    <3>2. 2 \in 1..Len(t) => 2 \in 1..Len(u) /\ u[2] = t[2]
      BY <2>a
    <3> QED  BY <1>3, <1>t, <2>a, <3>1, <3>2 DEF AtFront
  <2>5. LooksUp(u, i)
    BY <1>1, <1>3, <1>t DEF LooksUp, k
  <2>6. Removes(u, i)
    BY <1>1, <1>3, <1>t DEF Removes, k
  <2> QED  BY <2>1, <2>2, <2>3, <2>4, <2>5, <2>6
<1>4. CASE i \in k + 1..Len(u)
  <2> DEFINE j == i - k + 1
  <2>1. j \in 2..Len(s) /\ u[i] = s[j]
    BY <1>1, <1>4
  <2>2. j > 2 => i > k + 1 /\ i - 1 \in k + 1..Len(u) /\ u[i - 1] = s[j - 1]
    <3>1. i \in Int /\ k \in Int /\ (i - 1) - k + 1 = j - 1
      BY <1>1, <1>4
    <3>2. j > 2 => i > k + 1 /\ i - 1 \in k + 1..Len(u)
      BY <1>1, <1>4
    <3> QED  BY <1>1, <3>1, <3>2
  <2>3. j + 1 \in 1..Len(s) => i + 1 \in 1..Len(u) /\ u[i + 1] = s[j + 1]
    BY <1>1, <1>4
  <2>4. j = 2 /\ t = <<>> => i = 1
    BY <1>1, <1>4 DEF k
  <2>5. Opens(u, i)
    BY <1>s, <2>1, <2>3 DEF Opens
  <2>6. Fills(u, i)
    <3> SUFFICES ASSUME s[j].do = "fill" PROVE Fills(u, i)
      BY <2>1 DEF Fills
    <3>1. /\ s[j - 1].do = "open" /\ s[j - 1].path = s[j].path
          /\ \E m \in 1..Len(s) : m > j /\ s[m].do = "credit" /\ s[m].path = s[j].path
      BY <1>s, <2>1 DEF Fills
    <3>2. j > 2
      BY <2>1, <3>1
    <3>3. PICK m \in 1..Len(s) : m > j /\ s[m].do = "credit" /\ s[m].path = s[j].path
      BY <3>1
    <3>4. m + k - 1 \in 1..Len(u) /\ m + k - 1 > i /\ u[m + k - 1] = s[m]
      BY <1>1, <1>2, <2>1, <3>3
    <3> QED  BY <2>1, <2>2, <3>1, <3>2, <3>3, <3>4 DEF Fills
  <2>7. Credits(u, i)
    <3> SUFFICES ASSUME s[j].do = "credit", i > 1 PROVE Credits(u, i)
      BY <2>1 DEF Credits
    <3>1. /\ s[j - 1].do = "fill" /\ s[j - 1].path = s[j].path
          /\ s[j].entry.size = SizeOf[s[j - 1].data]
      BY <1>s, <2>1 DEF Credits
    <3>2. j > 2
      BY <2>1, <2>4, <3>1
    <3> QED  BY <2>1, <2>2, <3>1, <3>2 DEF Credits
  <2>8. AtFront(u, i)
    BY <1>1, <1>s, <2>1, <2>4 DEF AtFront
  <2>9. LooksUp(u, i)
    <3> SUFFICES ASSUME s[j].do \in {"check", "hit", "expire"}, NEW m \in 1..Len(u), m > i
                 PROVE  u[m].do # "credit"
      BY <2>1 DEF LooksUp
    <3>1. m - k + 1 \in 1..Len(s) /\ m - k + 1 > j /\ u[m] = s[m - k + 1]
      BY <1>1, <1>4
    <3> QED  BY <1>s, <2>1, <3>1 DEF LooksUp
  <2>10. Removes(u, i)
    BY <1>s, <2>1 DEF Removes
  <2> QED  BY <2>5, <2>6, <2>7, <2>8, <2>9, <2>10
<1> QED  BY <1>1, <1>3, <1>4

\* One step, unless it has to be followed by another, is in order.
LEMMA One ==
  ASSUME NEW x \in Steps, x.do \notin {"open", "fill", "debit"},
         x.do \in {"pick", "evict"} => "removed" \in x.after
  PROVE  <<x>> \in Seq(Steps) /\ WellFormed(<<x>>)
BY DEF WellFormed, Opens, Fills, Credits, AtFront, LooksUp, Removes

\* A deletion is looked up in front of the loop that asks for it; a debit is
\* followed by its deletion.
LEMMA Two ==
  ASSUME NEW x \in Steps, NEW y \in Steps,
         (x.do = "find" /\ y.do = "evict" /\ "removed" \in y.after) \/ (x.do = "debit" /\ y.do = "drop")
  PROVE  LET u == <<x>> \o <<y>> IN
         u \in Seq(Steps) /\ Len(u) = 2 /\ u[1] = x /\ u[2] = y /\ WellFormed(u)
<1> DEFINE u == <<x>> \o <<y>>
<1>1. <<x>> \in Seq(Steps) /\ <<y>> \in Seq(Steps) /\ Len(<<x>>) = 1 /\ Len(<<y>>) = 1
      /\ <<x>>[1] = x /\ <<y>>[1] = y
  OBVIOUS
<1>2. u \in Seq(Steps) /\ Len(u) = 2 /\ u[1] = x /\ u[2] = y
  BY <1>1
<1> HIDE DEF u
<1>3. 1..Len(u) = {1, 2}
  BY <1>2
<1>4. WellFormed(u)
  BY <1>2, <1>3 DEF WellFormed, Opens, Fills, Credits, AtFront, LooksUp, Removes
<1> QED  BY <1>2, <1>4 DEF u

\* A call that is over is in order.
LEMMA NothingInOrder == <<>> \in Seq(Steps) /\ WellFormed(<<>>)
BY DEF WellFormed

\* What a process does next, when its step puts t in front of the rest.
LEMMA Goes ==
  ASSUME TypeOK, NEW c \in Procs, prog[c] # <<>>, NEW t \in Seq(Steps), Continue(c, t)
  PROVE  /\ prog' \in [Procs -> Seq(Steps)]
         /\ prog'[c] = t \o Tail(prog[c])
         /\ \A d \in Procs \ {c} : prog'[d] = prog[d]
         /\ t # <<>> => prog'[c] # <<>> /\ prog'[c][1] = t[1]
         /\ t = <<>> /\ prog'[c] # <<>> => 2 \in 1..Len(prog[c]) /\ prog'[c][1] = prog[c][2]
         /\ \A i \in 1..Len(prog'[c]) :
              \/ \E j \in 1..Len(t) : prog'[c][i] = t[j]
              \/ \E j \in 2..Len(prog[c]) : prog'[c][i] = prog[c][j]
<1>1. prog \in [Procs -> Seq(Steps)] /\ prog[c] \in Seq(Steps)
  BY DEF TypeOK
<1>2. prog' = [prog EXCEPT ![c] = t \o Tail(prog[c])]
  BY DEF Continue
<1>3. prog'[c] = t \o Tail(prog[c]) /\ \A d \in Procs \ {c} : prog'[d] = prog[d]
  BY <1>1, <1>2
<1> DEFINE u == t \o Tail(prog[c])
           k == Len(t)
<1>4. /\ u \in Seq(Steps) /\ Len(u) = k + Len(prog[c]) - 1
      /\ k \in Nat /\ Len(prog[c]) \in Nat /\ (t = <<>> <=> k = 0)
      /\ \A i \in 1..k : u[i] = t[i]
      /\ \A i \in k + 1..Len(u) : u[i] = prog[c][i - k + 1] /\ i - k + 1 \in 2..Len(prog[c])
  BY <1>1, Rest
<1>5. prog' \in [Procs -> Seq(Steps)]
  BY <1>1, <1>2, <1>4
<1> HIDE DEF u, k
<1>6. t # <<>> => u # <<>> /\ u[1] = t[1]
  BY <1>4
<1>7. t = <<>> /\ u # <<>> => 2 \in 1..Len(prog[c]) /\ u[1] = prog[c][2]
  <2> SUFFICES ASSUME t = <<>>, u # <<>> PROVE 2 \in 1..Len(prog[c]) /\ u[1] = prog[c][2]
    OBVIOUS
  <2>1. k = 0 /\ 1 \in k + 1..Len(u)
    BY <1>4
  <2> QED  BY <1>4, <2>1
<1>8. \A i \in 1..Len(u) : \/ \E j \in 1..k : u[i] = t[j]
                          \/ \E j \in 2..Len(prog[c]) : u[i] = prog[c][j]
  BY <1>4
<1>9. prog'[c] = u /\ k = Len(t)
  BY <1>3 DEF u, k
<1> QED  BY <1>3, <1>5, <1>6, <1>7, <1>8, <1>9

\* What it still had to do after that step stays to be done.
LEMMA GoesKeeps ==
  ASSUME TypeOK, NEW c \in Procs, prog[c] # <<>>, NEW t \in Seq(Steps), Continue(c, t)
  PROVE  \A j \in 2..Len(prog[c]) : \E i \in 1..Len(prog'[c]) : prog'[c][i] = prog[c][j]
<1> SUFFICES ASSUME NEW j \in 2..Len(prog[c])
             PROVE  \E i \in 1..Len(prog'[c]) : prog'[c][i] = prog[c][j]
  OBVIOUS
<1> DEFINE u == t \o Tail(prog[c])
           k == Len(t)
<1>1. prog[c] \in Seq(Steps) /\ prog'[c] = u
  BY Goes DEF TypeOK
<1>2. /\ Len(u) = k + Len(prog[c]) - 1 /\ k \in Nat /\ Len(prog[c]) \in Nat
      /\ \A i \in k + 1..Len(u) : u[i] = prog[c][i - k + 1]
  BY <1>1, Rest
<1> HIDE DEF u, k
<1>3. k + j - 1 \in k + 1..Len(u) /\ (k + j - 1) - k + 1 = j /\ k + j - 1 \in 1..Len(u)
  BY <1>2
<1>4. u[k + j - 1] = prog[c][j]
  BY <1>2, <1>3
<1> QED  BY <1>1, <1>3, <1>4

\* A call that goes on with steps in order stays in order.
LEMMA GoesInOrder ==
  ASSUME TypeOK, InOrder, NEW c \in Procs, prog[c] # <<>>, NEW t \in Seq(Steps), Continue(c, t),
         WellFormed(t), First(c).do # "open",
         t = <<>> \/ First(c).do \notin {"fill", "debit"},
         \A i \in 1..Len(t) : t[i].do \notin {"check", "hit", "expire"}
  PROVE  InOrder'
<1>1. prog[c] \in Seq(Steps) /\ WellFormed(prog[c])
  BY DEF TypeOK, InOrder
<1>2. WellFormed(t \o Tail(prog[c]))
  BY <1>1, RestInOrder DEF First
<1>3. prog'[c] = t \o Tail(prog[c]) /\ \A d \in Procs \ {c} : prog'[d] = prog[d]
  BY Goes
<1>4. \A d \in Procs : WellFormed(prog'[d])
  BY <1>2, <1>3 DEF InOrder
<1> QED  BY <1>4 DEF InOrder, WellFormed, Opens, Fills, Credits, AtFront, LooksUp, Removes

\* The calls.
LEMMA AddSteps ==
  ASSUME NEW p \in Paths, NEW d \in Data
  PROVE  /\ Add(p, d) \in Seq(Steps) /\ Len(Add(p, d)) = 6
         /\ Add(p, d)[1].do = "open" /\ Add(p, d)[1].path = p
         /\ Add(p, d)[2].do = "fill" /\ Add(p, d)[2].path = p /\ Add(p, d)[2].data = d
         /\ Add(p, d)[3].do = "room"
         /\ Add(p, d)[4].do = "open" /\ Add(p, d)[4].path = p
         /\ Add(p, d)[5].do = "fill" /\ Add(p, d)[5].path = p /\ Add(p, d)[5].data = d
         /\ Add(p, d)[6].do = "credit" /\ Add(p, d)[6].path = p
         /\ Add(p, d)[6].entry.size = SizeOf[d] /\ Add(p, d)[6].entry.used = 0 /\ Add(p, d)[6].touch
<1> DEFINE open == [do |-> "open", path |-> p]
           fill == [do |-> "fill", path |-> p, data |-> d, gen |-> 0]
           room == [do |-> "room", size |-> SizeOf[d]]
           credit == [do |-> "credit", path |-> p, entry |-> NewEntry(d), touch |-> TRUE]
           w == WriteFile(p, d)
           c == SaveCacheEntry(p, NewEntry(d), TRUE)
           a == w \o <<room>>
           b == w \o c
<1>1. open \in Steps /\ fill \in Steps /\ room \in Steps /\ credit \in Steps
  BY ConstantsAssumption DEF Steps, NewEntry, Entry
<1>2. /\ open.do = "open" /\ open.path = p /\ room.do = "room"
      /\ fill.do = "fill" /\ fill.path = p /\ fill.data = d
      /\ credit.do = "credit" /\ credit.path = p /\ credit.entry.size = SizeOf[d]
      /\ credit.entry.used = 0 /\ credit.touch
  BY DEF NewEntry
<1>3. w = <<open, fill>> /\ c = <<credit>>
  BY DEF WriteFile, SaveCacheEntry
<1> HIDE DEF open, fill, room, credit, w, c
<1>4. w \in Seq(Steps) /\ Len(w) = 2 /\ w[1] = open /\ w[2] = fill
      /\ c \in Seq(Steps) /\ Len(c) = 1 /\ c[1] = credit
      /\ <<room>> \in Seq(Steps) /\ Len(<<room>>) = 1 /\ <<room>>[1] = room
  BY <1>1, <1>3
<1>5. a \in Seq(Steps) /\ Len(a) = 3 /\ a[1] = open /\ a[2] = fill /\ a[3] = room
  <2>1. a \in Seq(Steps) /\ Parts(a, w, <<room>>)
    BY <1>4, Joined
  <2> HIDE DEF a
  <2> QED  BY <1>4, <2>1 DEF Parts
<1>6. b \in Seq(Steps) /\ Len(b) = 3 /\ b[1] = open /\ b[2] = fill /\ b[3] = credit
  <2>1. b \in Seq(Steps) /\ Parts(b, w, c)
    BY <1>4, Joined
  <2> HIDE DEF b
  <2> QED  BY <1>4, <2>1 DEF Parts
<1>7. Add(p, d) = a \o b
  BY DEF Add, StorePut, w, c, room
<1> HIDE DEF a, b
<1> DEFINE u == a \o b
<1>8. /\ u \in Seq(Steps) /\ Len(u) = 6 /\ u[1] = open /\ u[2] = fill /\ u[3] = room
      /\ u[4] = open /\ u[5] = fill /\ u[6] = credit
  <2>1. u \in Seq(Steps) /\ Parts(u, a, b)
    BY <1>5, <1>6, Joined
  <2> HIDE DEF u
  <2> QED  BY <1>5, <1>6, <2>1 DEF Parts
<1> QED  BY <1>2, <1>7, <1>8

\* The steps of each operation are in the order of the code.
LEMMA AddInOrder ==
  ASSUME NEW p \in Paths, NEW d \in Data
  PROVE  Add(p, d) \in Seq(Steps) /\ WellFormed(Add(p, d))
<1> DEFINE u == Add(p, d)
<1>1. 1..Len(u) = {1, 2, 3, 4, 5, 6}
  <2>1. Len(u) = 6
    BY AddSteps
  <2> QED  BY <2>1
<1>2. WellFormed(u)
  <2> HIDE DEF u
  <2>a. /\ u[1].do = "open" /\ u[2].do = "fill" /\ u[3].do = "room" /\ u[4].do = "open"
        /\ u[5].do = "fill" /\ u[6].do = "credit" /\ u[1].path = p /\ u[2].path = p
        /\ u[4].path = p /\ u[5].path = p /\ u[6].path = p /\ u[6].entry.size = SizeOf[u[5].data]
    BY AddSteps DEF u
  <2>1. \A i \in 1..Len(u) : Opens(u, i)
    BY <1>1, <2>a DEF Opens
  <2>2. \A i \in 1..Len(u) : Fills(u, i)
    <3>1. 6 \in 1..Len(u) /\ u[6].do = "credit" /\ u[6].path = p
      BY <1>1, <2>a
    <3>2. \A i \in 1..Len(u) : u[i].do = "fill" => i \in {2, 5} /\ u[i].path = p /\ u[i - 1].do = "open" /\ u[i - 1].path = p
      BY <1>1, <2>a
    <3> QED  BY <3>1, <3>2 DEF Fills
  <2>3. \A i \in 1..Len(u) : Credits(u, i)
    BY <1>1, <2>a DEF Credits
  <2>4. \A i \in 1..Len(u) : AtFront(u, i) /\ LooksUp(u, i) /\ Removes(u, i)
    BY <1>1, <2>a DEF AtFront, LooksUp, Removes
  <2> QED  BY <2>1, <2>2, <2>3, <2>4 DEF WellFormed
<1> QED  BY <1>2, AddSteps

\* PutWithExpiration is Add, then the expiry.
LEMMA PutWithExpirationInOrder ==
  ASSUME NEW p \in Paths, NEW d \in Data
  PROVE  /\ PutWithExpiration(p, d) \in Seq(Steps) /\ WellFormed(PutWithExpiration(p, d))
         /\ Len(PutWithExpiration(p, d)) = 7 /\ PutWithExpiration(p, d)[7].do = "expire"
         /\ PutWithExpiration(p, d)[7].path = p
         /\ \A i \in 1..6 : PutWithExpiration(p, d)[i] = Add(p, d)[i]
<1> DEFINE x == [do |-> "expire", path |-> p]
           s == Add(p, d)
           u == s \o <<x>>
<1>1. x \in Steps /\ x.do = "expire" /\ x.path = p
  BY DEF Steps
<1>2. s \in Seq(Steps) /\ Len(s) = 6 /\ WellFormed(s)
  BY AddSteps, AddInOrder
<1>3. PutWithExpiration(p, d) = u
  BY DEF PutWithExpiration
<1> HIDE DEF x, s
<1>4. u \in Seq(Steps) /\ Len(u) = 7 /\ u[7] = x /\ \A i \in 1..6 : u[i] = s[i]
  <2>1. <<x>> \in Seq(Steps) /\ Len(<<x>>) = 1 /\ <<x>>[1] = x
    BY <1>1
  <2>2. u \in Seq(Steps) /\ Parts(u, s, <<x>>)
    BY <1>2, <2>1, Joined
  <2> HIDE DEF u
  <2> QED  BY <1>2, <2>1, <2>2 DEF Parts
<1>5. s[1].do = "open" /\ s[2].do = "fill" /\ s[3].do = "room" /\ s[4].do = "open"
      /\ s[5].do = "fill" /\ s[6].do = "credit"
  BY AddSteps DEF s
<1> HIDE DEF u
<1>s. s = Add(p, d)
  BY DEF s
<1>6. ASSUME NEW i \in 1..Len(u)
      PROVE  Opens(u, i) /\ Fills(u, i) /\ Credits(u, i) /\ AtFront(u, i) /\ LooksUp(u, i) /\ Removes(u, i)
  <2>1. CASE i = 7
    BY <1>1, <1>4, <2>1 DEF Opens, Fills, Credits, AtFront, LooksUp, Removes
  <2>2. CASE i \in 1..6
    <3>1. Opens(s, i) /\ Fills(s, i) /\ Credits(s, i) /\ AtFront(s, i) /\ LooksUp(s, i) /\ Removes(s, i)
      BY <1>2, <2>2 DEF WellFormed
    <3>2. Opens(u, i)
      BY <1>2, <1>4, <1>5, <2>2, <3>1 DEF Opens
    <3>3. Fills(u, i)
      BY <1>2, <1>4, <1>5, <2>2, <3>1 DEF Fills
    <3>4. Credits(u, i)
      BY <1>2, <1>4, <1>5, <2>2, <3>1 DEF Credits
    <3>5. AtFront(u, i) /\ LooksUp(u, i) /\ Removes(u, i)
      BY <1>2, <1>4, <1>5, <2>2, <3>1 DEF AtFront, LooksUp, Removes
    <3> QED  BY <3>2, <3>3, <3>4, <3>5
  <2> QED  BY <1>4, <2>1, <2>2
<1>7. WellFormed(u)
  BY <1>6 DEF WellFormed
<1> QED  BY <1>1, <1>3, <1>4, <1>s, <1>7

\* Get looks the entry up, records the hit, and reads.
LEMMA GetInOrder ==
  ASSUME NEW p \in Paths
  PROVE  /\ Get(p) \in Seq(Steps) /\ WellFormed(Get(p)) /\ Len(Get(p)) = 3
         /\ Get(p)[1].do = "check" /\ Get(p)[2].do = "hit" /\ Get(p)[3].do = "read"
         /\ Get(p)[1].path = p /\ Get(p)[2].path = p /\ Get(p)[3].path = p
<1>1. /\ [do |-> "check", path |-> p] \in Steps /\ [do |-> "hit", path |-> p] \in Steps
      /\ [do |-> "read", path |-> p] \in Steps
  BY DEF Steps
<1>2. Get(p) \in Seq(Steps) /\ Len(Get(p)) = 3 /\ Get(p)[1].do = "check" /\ Get(p)[2].do = "hit"
      /\ Get(p)[3].do = "read"
      /\ Get(p)[1].path = p /\ Get(p)[2].path = p /\ Get(p)[3].path = p
  BY <1>1 DEF Get
<1>3. 1..Len(Get(p)) = {1, 2, 3}
  BY <1>2
<1> QED  BY <1>2, <1>3 DEF WellFormed, Opens, Fills, Credits, AtFront, LooksUp, Removes

\* A listing is one step, which deletes what it removed.
LEMMA PickInOrder ==
  ASSUME NEW cutoff \in Nat, NEW count \in Nat, NEW need \in Int, NEW floor \in Int,
         NEW after \in SUBSET Outcomes, "removed" \in after
  PROVE  /\ Pick(cutoff, count, need, floor, after) \in Seq(Steps)
         /\ WellFormed(Pick(cutoff, count, need, floor, after))
         /\ Len(Pick(cutoff, count, need, floor, after)) = 1
         /\ Pick(cutoff, count, need, floor, after)[1].do = "pick"
         /\ Pick(cutoff, count, need, floor, after)[1].after = after
<1>1. [do |-> "pick", cutoff |-> cutoff, count |-> count, need |-> need, floor |-> floor,
       after |-> after] \in Steps
  BY DEF Steps
<1> QED  BY <1>1, One DEF Pick

\* A tick of the maintenance is two steps.
LEMMA MaintainInOrder ==
  /\ Maintain \in Seq(Steps) /\ WellFormed(Maintain) /\ Len(Maintain) = 2
  /\ Maintain[1].do = "overfull" /\ Maintain[2].do = "persist" /\ Maintain # <<>>
<1>1. [do |-> "overfull"] \in Steps /\ [do |-> "persist"] \in Steps
  BY DEF Steps
<1>2. Maintain \in Seq(Steps) /\ Len(Maintain) = 2 /\ Maintain[1].do = "overfull"
      /\ Maintain[2].do = "persist"
  BY <1>1 DEF Maintain
<1>3. 1..Len(Maintain) = {1, 2}
  BY <1>2
<1>4. Maintain # <<>>
  <2>1. Len(<<>>) = 0
    OBVIOUS
  <2>2. Len(Maintain) # 0
    BY <1>2
  <2> QED  BY <2>1, <2>2
<1>5. WellFormed(Maintain)
  BY <1>2, <1>3 DEF WellFormed, Opens, Fills, Credits, AtFront, LooksUp, Removes
<1> QED  BY <1>2, <1>4, <1>5

-----------------------------------------------------------------------------
(* Types and the order of the steps.                                        *)

\* The step that is taken is the first, and a step of the model.
LEMMA FirstStep ==
  ASSUME TypeOK, NEW c \in Procs, NEW do, Step(c, do)
  PROVE  /\ prog[c] \in Seq(Steps) /\ prog[c] # <<>> /\ 1 \in 1..Len(prog[c])
         /\ First(c) \in Steps /\ First(c) = Arg(c) /\ First(c).do = do
<1>1. prog[c] \in Seq(Steps) /\ prog[c] # <<>> /\ Head(prog[c]).do = do
  BY DEF TypeOK, Step
<1> QED  BY <1>1 DEF First, Arg

\* The order, of the next state.
LEMMA OrderNext == (\A c \in Procs : WellFormed(prog'[c])) => InOrder'
BY DEF InOrder, WellFormed, Opens, Fills, Credits, AtFront, LooksUp, Removes

\* The order is a matter of the steps still to take only.
LEMMA OrderSame == InOrder /\ UNCHANGED prog => InOrder'
BY DEF InOrder, WellFormed, Opens, Fills, Credits, AtFront, LooksUp, Removes

\* A step that goes on with others keeps types and order.
LEMMA StepGoes ==
  ASSUME TypeOK, InOrder, NEW c \in Procs, NEW do, Step(c, do), do # "open",
         NEW t \in Seq(Steps), WellFormed(t), Continue(c, t),
         t = <<>> \/ do \notin {"fill", "debit"},
         \A i \in 1..Len(t) : t[i].do \notin {"check", "hit", "expire"}
  PROVE  prog' \in [Procs -> Seq(Steps)] /\ InOrder'
<1>1. prog[c] # <<>> /\ First(c).do = do
  BY FirstStep
<1>2. prog' \in [Procs -> Seq(Steps)]
  BY <1>1, Goes
<1>3. InOrder'
  BY <1>1, GoesInOrder
<1> QED  BY <1>2, <1>3

\* A step that only goes on to one more step, or to none.
LEMMA StepGoesOne ==
  ASSUME TypeOK, InOrder, NEW c \in Procs, NEW do, Step(c, do), do # "open",
         \/ Continue(c, <<>>)
         \/ \E x \in Steps :
              /\ Continue(c, <<x>>)
              /\ x.do \notin {"open", "fill", "debit", "check", "hit", "expire"}
              /\ do \notin {"fill", "debit"}
              /\ x.do \in {"pick", "evict"} => "removed" \in x.after
  PROVE  prog' \in [Procs -> Seq(Steps)] /\ InOrder'
<1>1. CASE Continue(c, <<>>)
  <2>1. \A i \in 1..Len(<<>>) : <<>>[i].do \notin {"check", "hit", "expire"}
    OBVIOUS
  <2> QED  BY <1>1, <2>1, NothingInOrder, StepGoes
<1>2. ASSUME NEW x \in Steps, Continue(c, <<x>>),
             x.do \notin {"open", "fill", "debit", "check", "hit", "expire"},
             do \notin {"fill", "debit"},
             x.do \in {"pick", "evict"} => "removed" \in x.after
      PROVE  prog' \in [Procs -> Seq(Steps)] /\ InOrder'
  <2>1. <<x>> \in Seq(Steps) /\ WellFormed(<<x>>) /\ Len(<<x>>) = 1 /\ <<x>>[1] = x
    BY <1>2, One
  <2>2. \A i \in 1..Len(<<x>>) : <<x>>[i].do \notin {"check", "hit", "expire"}
    BY <1>2, <2>1
  <2> QED  BY <1>2, <2>1, <2>2, StepGoes
<1> QED  BY <1>1, <1>2

\* An early return leaves nothing to do.
LEMMA StepAborts ==
  ASSUME TypeOK, InOrder, NEW c \in Procs, Abort(c)
  PROVE  prog' \in [Procs -> Seq(Steps)] /\ InOrder' /\ prog'[c] = <<>>
         /\ \A d \in Procs \ {c} : prog'[d] = prog[d]
<1>1. prog' \in [Procs -> Seq(Steps)] /\ prog'[c] = <<>> /\ \A d \in Procs \ {c} : prog'[d] = prog[d]
  BY NothingInOrder DEF Abort, TypeOK
<1>2. \A d \in Procs : WellFormed(prog'[d])
  BY <1>1, NothingInOrder DEF InOrder
<1> QED  BY <1>1, <1>2, OrderNext

\* After an open, the fill knows the inode that was opened.
LEMMA OpenGoes ==
  ASSUME TypeOK, InOrder, NEW c \in Procs, Open(c)
  PROVE  /\ prog' \in [Procs -> Seq(Steps)] /\ InOrder'
         /\ \A d \in Procs \ {c} : prog'[d] = prog[d]
         /\ Len(prog'[c]) = Len(prog[c]) - 1 /\ Len(prog[c]) >= 2
         /\ prog[c][2].do = "fill" /\ prog[c][2].path = First(c).path
         /\ prog'[c][1] = [prog[c][2] EXCEPT !.gen = file[First(c).path].gen]
         /\ \A i \in 2..Len(prog'[c]) : prog'[c][i] = prog[c][i + 1]
<1> DEFINE s == prog[c]
           x == [s[2] EXCEPT !.gen = file[First(c).path].gen]
           u == << x >> \o SubSeq(s, 3, Len(s))
<1>1. /\ s \in Seq(Steps) /\ s # <<>> /\ First(c) \in Steps /\ First(c) = Arg(c)
      /\ First(c).do = "open" /\ WellFormed(s) /\ 1 \in 1..Len(s)
  BY FirstStep DEF Open, InOrder
<1>2. 2 \in 1..Len(s) /\ s[2].do = "fill" /\ s[2].path = First(c).path
  BY <1>1 DEF WellFormed, Opens, First
<1>3. First(c).path \in Paths /\ file[First(c).path].gen \in Nat
  BY <1>1, StepTypes DEF TypeOK
<1>4. x \in Steps /\ x.do = "fill" /\ x.path = s[2].path /\ x.data = s[2].data
  <2>1. s[2] \in Steps
    BY <1>1, <1>2
  <2>2. s[2] \in [do : {"fill"}, path : Paths, data : Data, gen : Nat]
    BY <1>2, <2>1 DEF Steps
  <2>3. x \in [do : {"fill"}, path : Paths, data : Data, gen : Nat] /\ x.do = "fill"
        /\ x.path = s[2].path /\ x.data = s[2].data
    BY <1>3, <2>2
  <2> QED  BY <2>3 DEF Steps
<1> HIDE DEF x
<1>5. u \in Seq(Steps) /\ Len(u) = Len(s) - 1 /\ u[1] = x /\ \A i \in 2..Len(u) : u[i] = s[i + 1]
  <2> DEFINE t == SubSeq(s, 3, Len(s))
  <2>1. t \in Seq(Steps) /\ Len(t) = Len(s) - 2 /\ \A i \in 1..Len(t) : t[i] = s[i + 2]
    BY <1>1, <1>2
  <2> HIDE DEF t
  <2>2. <<x>> \in Seq(Steps) /\ Len(<<x>>) = 1 /\ <<x>>[1] = x
    BY <1>4
  <2>3. u = <<x>> \o t
    BY DEF t
  <2>t. t \in Seq(Steps) /\ <<x>> \in Seq(Steps)
    BY <2>1, <2>2
  <2>p. <<x>> \o t \in Seq(Steps) /\ Parts(<<x>> \o t, <<x>>, t)
    BY <2>t, Joined
  <2>4. u \in Seq(Steps) /\ Parts(u, <<x>>, t)
    BY <2>3, <2>p
  <2> HIDE DEF u
  <2>5. Len(u) = Len(t) + 1 /\ u[1] = x
    BY <2>2, <2>4 DEF Parts
  <2>6. \A i \in 1..Len(t) : u[1 + i] = t[i]
    BY <2>2, <2>4 DEF Parts
  <2>7. \A i \in 2..Len(u) : u[i] = s[i + 1]
    <3> SUFFICES ASSUME NEW i \in 2..Len(u) PROVE u[i] = s[i + 1]
      OBVIOUS
    <3>1. i - 1 \in 1..Len(t) /\ i = 1 + (i - 1)
      BY <2>1, <2>5
    <3>2. u[i] = t[i - 1]
      BY <2>6, <3>1
    <3>3. t[i - 1] = s[(i - 1) + 2]
      BY <2>1, <3>1
    <3> QED  BY <3>1, <3>2, <3>3
  <2> QED  BY <1>1, <1>2, <2>1, <2>4, <2>5, <2>7
<1>6. prog' = [prog EXCEPT ![c] = u]
  BY <1>1 DEF Open, x
<1> HIDE DEF u
<1>7. prog' \in [Procs -> Seq(Steps)] /\ prog'[c] = u /\ \A d \in Procs \ {c} : prog'[d] = prog[d]
  BY <1>5, <1>6 DEF TypeOK
<1>8. WellFormed(u)
  <2> SUFFICES ASSUME NEW i \in 1..Len(u)
               PROVE  Opens(u, i) /\ Fills(u, i) /\ Credits(u, i) /\ AtFront(u, i) /\ LooksUp(u, i) /\ Removes(u, i)
    BY DEF WellFormed
  <2>1. \A j \in 1..Len(s) : Opens(s, j) /\ Fills(s, j) /\ Credits(s, j) /\ AtFront(s, j) /\ LooksUp(s, j) /\ Removes(s, j)
    BY <1>1 DEF WellFormed
  <2>2. /\ \A j \in 1..Len(u) : u[j].do = s[j + 1].do /\ u[j].path = s[j + 1].path
        /\ \A j \in 1..Len(u) : u[j].data = s[j + 1].data
        /\ \A j \in 2..Len(u) : u[j] = s[j + 1]
        /\ Len(u) \in Nat /\ Len(s) = Len(u) + 1
    BY <1>1, <1>2, <1>4, <1>5
  <2>3. i + 1 \in 1..Len(s)
    BY <2>2
  <2>a. i + 1 \in 1..Len(u) =>
          u[i + 1].do = s[(i + 1) + 1].do /\ u[i + 1].path = s[(i + 1) + 1].path
    BY <2>2
  <2>b. i > 1 => i - 1 \in 1..Len(u) /\ (i - 1) + 1 = (i + 1) - 1
    BY <2>2
  <2>c. i > 1 => /\ u[i - 1].do = s[(i + 1) - 1].do /\ u[i - 1].path = s[(i + 1) - 1].path
                 /\ u[i - 1].data = s[(i + 1) - 1].data
    BY <2>2, <2>b
  <2>d. u[i].do = s[i + 1].do /\ u[i].path = s[i + 1].path /\ (i > 1 => u[i] = s[i + 1])
    BY <2>2
  <2>4. Opens(u, i)
    <3>1. Opens(s, i + 1)
      BY <2>1, <2>3
    <3>2. (i + 1) + 1 \in 1..Len(s) => i + 1 \in 1..Len(u)
      BY <2>2
    <3> QED  BY <2>a, <2>d, <3>1, <3>2 DEF Opens
  <2>5. Fills(u, i)
    <3> SUFFICES ASSUME u[i].do = "fill" PROVE Fills(u, i)
      BY DEF Fills
    <3>1. PICK m \in 1..Len(s) : m > i + 1 /\ s[m].do = "credit" /\ s[m].path = s[i + 1].path
      BY <2>1, <2>2, <2>3 DEF Fills
    <3>a. m - 1 \in 1..Len(u) /\ m - 1 > i /\ (m - 1) + 1 = m
      BY <2>2, <3>1
    <3>b. u[m - 1].do = s[(m - 1) + 1].do /\ u[m - 1].path = s[(m - 1) + 1].path
      BY <2>2, <3>a
    <3>2. m - 1 \in 1..Len(u) /\ m - 1 > i /\ u[m - 1].do = "credit" /\ u[m - 1].path = u[i].path
      BY <2>d, <3>1, <3>a, <3>b
    <3>3. i > 1 => u[i - 1].do = "open" /\ u[i - 1].path = u[i].path
      <4>1. i + 1 > 1 => s[(i + 1) - 1].do = "open" /\ s[(i + 1) - 1].path = s[i + 1].path
        BY <2>1, <2>3, <2>d DEF Fills
      <4> QED  BY <2>c, <2>d, <4>1
    <3> QED  BY <3>2, <3>3 DEF Fills
  <2>6. Credits(u, i)
    <3> SUFFICES ASSUME u[i].do = "credit", i > 1 PROVE Credits(u, i)
      BY DEF Credits
    <3>1. /\ s[(i + 1) - 1].do = "fill" /\ s[(i + 1) - 1].path = s[i + 1].path
          /\ s[i + 1].entry.size = SizeOf[s[(i + 1) - 1].data]
      BY <2>1, <2>3, <2>d DEF Credits
    <3> QED  BY <2>c, <2>d, <3>1 DEF Credits
  <2>7. AtFront(u, i)
    BY <1>1, <2>1, <2>2, <2>3 DEF AtFront, First
  <2>8. LooksUp(u, i)
    <3> SUFFICES ASSUME u[i].do \in {"check", "hit", "expire"}, NEW j \in 1..Len(u), j > i
                 PROVE  u[j].do # "credit"
      BY DEF LooksUp
    <3>1. j + 1 \in 1..Len(s) /\ j + 1 > i + 1
      BY <2>2
    <3> QED  BY <2>1, <2>2, <2>3, <3>1 DEF LooksUp
  <2>9. Removes(u, i)
    <3>1. i = 1 => u[i].do = "fill"
      BY <1>4, <1>5
    <3>2. i > 1 => u[i] = s[i + 1] /\ i + 1 \in 1..Len(s)
      BY <2>d, <2>3
    <3>3. i = 1 \/ i > 1
      OBVIOUS
    <3> QED  BY <2>1, <3>1, <3>2, <3>3 DEF Removes
  <2> QED  BY <2>4, <2>5, <2>6, <2>7, <2>8, <2>9
<1>9. InOrder'
  BY <1>7, <1>8, OrderNext DEF InOrder
<1> QED  BY <1>1, <1>2, <1>5, <1>7, <1>9 DEF x

\* What one step of a process keeps: types, and the order of the steps.
LEMMA StructureInit == Init => TypeOK /\ InOrder
<1> SUFFICES ASSUME Init PROVE TypeOK /\ InOrder
  OBVIOUS
<1>1. TypeOK
  BY ConstantsAssumption, NothingInOrder DEF Init, TypeOK, Contents
<1>2. InOrder
  BY NothingInOrder DEF Init, InOrder
<1> QED  BY <1>1, <1>2

\* Clients are processes.
LEMMA ClientIsProc == \A c \in Clients : c \in Procs
BY DEF Procs

\* A call that begins with steps in order keeps types and order.
LEMMA BeginTyped ==
  ASSUME TypeOK, InOrder, NEW c \in Procs, NEW op, NEW p, NEW d, NEW steps,
         Begin(c, op, p, d, steps), steps \in Seq(Steps), WellFormed(steps),
         p \in Paths \cup {None}, d \in Data \cup {None}
  PROVE  TypeOK' /\ InOrder'
<1>1. /\ op \in AllOps /\ call[c] = NoCall /\ calls < MaxCalls /\ calls' = calls + 1
      /\ prog' = [prog EXCEPT ![c] = steps]
      /\ call' = [call EXCEPT ![c] = [op |-> op, path |-> p, data |-> d, answer |-> None,
                                      before |-> Visible, older |-> Older]]
      /\ UNCHANGED <<disk, file, entry, saved, mem, clock, reply, restarts, crashes>>
  BY ConstantsAssumption DEF Begin
<1>2. prog' \in [Procs -> Seq(Steps)] /\ prog'[c] = steps /\ \A e \in Procs \ {c} : prog'[e] = prog[e]
  BY <1>1 DEF TypeOK
<1>3. InOrder'
  BY <1>2, OrderNext DEF InOrder
<1>4. calls' \in 0..MaxCalls
  BY <1>1, ConstantsAssumption DEF TypeOK
<1>5. call' \in [Procs -> Calls \cup {NoCall}]
  <2>1. Visible \in [Paths -> Contents \cup {None}] /\ Older \in SUBSET (Paths \X Paths)
    BY DEF TypeOK, Visible, Older, Readable, Present
  <2>2. [op |-> op, path |-> p, data |-> d, answer |-> None, before |-> Visible, older |-> Older] \in Calls
    BY <1>1, <2>1 DEF Calls
  <2> QED  BY <1>1, <2>2 DEF TypeOK
<1> QED  BY <1>1, <1>2, <1>3, <1>4, <1>5 DEF TypeOK, mem

\* Every call begins with steps in order.
LEMMA CallsTyped ==
  ASSUME TypeOK, InOrder,
         \/ \E c \in Clients, p \in Paths :
              \/ CallGet(c, p) \/ CallRemove(c, p)
              \/ \E d \in Data : CallPut(c, p, d) \/ CallPutTTL(c, p, d)
         \/ \E c \in Clients : CallSweep(c) \/ CallClear(c)
         \/ CallMaintain
  PROVE  TypeOK' /\ InOrder'
<1> USE ClientIsProc
<1>1. ASSUME NEW c \in Clients, NEW p \in Paths, CallGet(c, p) PROVE TypeOK' /\ InOrder'
  BY <1>1, BeginTyped, GetInOrder DEF CallGet
<1>2. ASSUME NEW c \in Clients, NEW p \in Paths, CallRemove(c, p) PROVE TypeOK' /\ InOrder'
  <2>1. [do |-> "locate", path |-> p] \in Steps
    BY DEF Steps
  <2> QED  BY <1>2, <2>1, One, BeginTyped DEF CallRemove, RemovePath
<1>3. ASSUME NEW c \in Clients, NEW p \in Paths, NEW d \in Data, CallPut(c, p, d)
      PROVE  TypeOK' /\ InOrder'
  BY <1>3, BeginTyped, AddInOrder DEF CallPut
<1>4. ASSUME NEW c \in Clients, NEW p \in Paths, NEW d \in Data, CallPutTTL(c, p, d)
      PROVE  TypeOK' /\ InOrder'
  BY <1>4, BeginTyped, PutWithExpirationInOrder DEF CallPutTTL
<1>5. Cardinality(Paths) \in Nat
  BY ConstantsAssumption, FS_CardinalityType
<1>6. ASSUME NEW c \in Clients, CallSweep(c) PROVE TypeOK' /\ InOrder'
  <2>1. PICK cutoff \in 1..clock : Begin(c, "sweep", None, None, Sweep(cutoff))
    BY <1>6 DEF CallSweep
  <2>2. cutoff \in Nat
    BY <2>1 DEF TypeOK
  <2>3. Sweep(cutoff) \in Seq(Steps) /\ WellFormed(Sweep(cutoff))
    <3>1. {"removed", "missing"} \in SUBSET Outcomes /\ "removed" \in {"removed", "missing"}
          /\ Everything \in Int /\ -Everything \in Int
      BY DEF Everything, Outcomes
    <3> QED  BY <1>5, <2>2, <3>1, PickInOrder DEF Sweep
  <2> QED  BY <2>1, <2>3, BeginTyped
<1>7. ASSUME NEW c \in Clients, CallClear(c) PROVE TypeOK' /\ InOrder'
  <2>1. clock + 1 \in Nat
    BY DEF TypeOK
  <2>2. Clear \in Seq(Steps) /\ WellFormed(Clear)
    BY <1>5, <2>1, PickInOrder DEF Clear, Everything, Outcomes
  <2> QED  BY <1>7, <2>2, BeginTyped DEF CallClear
<1>8. ASSUME CallMaintain PROVE TypeOK' /\ InOrder'
  BY <1>8, BeginTyped, MaintainInOrder DEF CallMaintain, Procs
<1> QED  BY <1>1, <1>2, <1>3, <1>4, <1>6, <1>7, <1>8

\* Sorting yields paths of the set.
LEMMA Ordered ==
  ASSUME TypeOK, NEW S \in SUBSET Paths, NEW old \in AgeOrders(S)
  PROVE  /\ Len(old) = Cardinality(S) /\ Cardinality(S) \in Nat
         /\ \A i \in 1..Len(old) : old[i] \in S
<1>1. IsFiniteSet(S)
  BY ConstantsAssumption, FS_Subset
<1>2. Cardinality(S) \in Nat
  BY <1>1, FS_CardinalityType
<1>3. old \in [1..Cardinality(S) -> S]
  BY DEF AgeOrders, Sorted
<1> QED  BY <1>2, <1>3

\* The smaller of two numbers is one of them.
LEMMA MinOfTwo == \A m, n \in Nat : Min({m, n}) \in {m, n} /\ Min({m, n}) <= m
<1> SUFFICES ASSUME NEW m \in Nat, NEW n \in Nat
             PROVE  Min({m, n}) \in {m, n} /\ Min({m, n}) <= m
  OBVIOUS
<1>1. \E x \in {m, n} : \A y \in {m, n} : x <= y
  <2>1. m <= n \/ n <= m
    OBVIOUS
  <2> QED  BY <2>1
<1> QED  BY <1>1 DEF Min

\* A size that is floored at zero is a size.
LEMMA MaxOfZero == \A n \in Int : Max({0, n}) \in Nat /\ Max({0, n}) >= n
<1> SUFFICES ASSUME NEW n \in Int PROVE Max({0, n}) \in Nat /\ Max({0, n}) >= n
  OBVIOUS
<1>1. \E x \in {0, n} : \A y \in {0, n} : x >= y
  <2>1. 0 >= n \/ n >= 0
    OBVIOUS
  <2> QED  BY <2>1
<1> QED  BY <1>1 DEF Max

\* The items of a listing are entries, and none is listed that is not there.
LEMMA Listed ==
  ASSUME TypeOK, NEW a, a.count \in Nat, NEW old \in AgeOrders({p \in Present : entry[p].used < a.cutoff})
  PROVE  LET items == [i \in 1..Min({Len(old), a.count}) |->
                        [path |-> old[i], size |-> entry[old[i]].size]]
         IN  items \in Seq(Item) /\ \A i \in 1..Len(items) : entry[items[i].path] # None
<1> DEFINE n == Min({Len(old), a.count})
           S == {p \in Present : entry[p].used < a.cutoff}
<1>1. S \in SUBSET Paths /\ \A p \in S : entry[p] \in Entry /\ entry[p] # None
  BY DEF Present, TypeOK
<1>2. Len(old) \in Nat /\ \A i \in 1..Len(old) : old[i] \in S
  BY <1>1, Ordered
<1>3. n \in Nat /\ n <= Len(old)
  BY <1>2, MinOfTwo
<1> HIDE DEF n, S
<1>4. \A i \in 1..n : old[i] \in S
  BY <1>2, <1>3
<1>5. \A i \in 1..n : [path |-> old[i], size |-> entry[old[i]].size] \in Item
  BY <1>1, <1>4 DEF Item, Entry
<1> DEFINE items == [i \in 1..n |-> [path |-> old[i], size |-> entry[old[i]].size]]
<1>6. items \in Seq(Item) /\ Len(items) = n
  BY <1>3, <1>5
<1>7. \A i \in 1..Len(items) : entry[items[i].path] # None
  BY <1>1, <1>4, <1>6
<1> QED  BY <1>6, <1>7 DEF n

\* A turn of a deleting loop ends it, or goes on with fewer of the items.
LEMMA Evicts ==
  ASSUME TypeOK, NEW c \in Procs, Evict(c)
  PROVE  LET a == First(c) IN
         /\ a \in Steps /\ a.do = "evict" /\ prog[c] # <<>>
         /\ \/ Continue(c, <<>>) /\ UNCHANGED file
            \/ \E p \in Paths, x \in Steps :
                 /\ \E i \in 1..Len(a.items) : p = a.items[i].path
                 /\ x.do = "evict" /\ x.after = a.after
                 /\ \A i \in 1..Len(x.items) : \E j \in 1..Len(a.items) : x.items[i] = a.items[j]
                 /\ \E outcome \in RemoveOutcomes(p) :
                      /\ file' = IF outcome # "removed" THEN file
                                 ELSE [file EXCEPT ![p] = [gen |-> @.gen + 1, content |-> "absent"]]
                      /\ Continue(c, IF outcome \in a.after THEN <<[do |-> "find", path |-> p]>> \o <<x>>
                                     ELSE <<x>>)
<1> DEFINE a == First(c)
           p == a.items[1].path
           next(need) == [a EXCEPT !.items = Tail(@), !.need = need]
<1>1. a \in Steps /\ a = Arg(c) /\ a.do = "evict" /\ prog[c] # <<>>
  BY FirstStep DEF Evict
<1>2. /\ a.items \in Seq(Item) /\ a.need \in Int
      /\ a \in [do : {"evict"}, items : Seq(Item), need : Int, floor : Int, after : SUBSET Outcomes]
  BY <1>1 DEF Steps
<1>3. \/ Continue(c, <<>>) /\ UNCHANGED file
      \/ /\ a.items # <<>>
         /\ \E outcome \in RemoveOutcomes(p) :
              /\ file' = IF outcome # "removed" THEN file
                         ELSE [file EXCEPT ![p] = [gen |-> @.gen + 1, content |-> "absent"]]
              /\ Continue(c, IF outcome \in a.after
                             THEN <<[do |-> "find", path |-> p]>> \o << next(a.need - a.items[1].size) >>
                             ELSE << next(a.need) >>)
  BY <1>1 DEF Evict, DeleteCacheEntry
<1>4. ASSUME a.items # <<>>, NEW need \in Int
      PROVE  /\ next(need) \in Steps /\ next(need).do = "evict" /\ next(need).after = a.after
             /\ \A i \in 1..Len(next(need).items) :
                  \E j \in 1..Len(a.items) : next(need).items[i] = a.items[j]
  <2>1. /\ Tail(a.items) \in Seq(Item)
        /\ \A i \in 1..Len(Tail(a.items)) : \E j \in 1..Len(a.items) : Tail(a.items)[i] = a.items[j]
    <3>1. /\ Tail(a.items) \in Seq(Item)
          /\ \A i \in 1..Len(Tail(a.items)) : i + 1 \in 1..Len(a.items) /\ Tail(a.items)[i] = a.items[i + 1]
      BY <1>2, <1>4
    <3> QED  BY <3>1
  <2>2. /\ next(need) \in
             [do : {"evict"}, items : Seq(Item), need : Int, floor : Int, after : SUBSET Outcomes]
        /\ next(need).items = Tail(a.items) /\ next(need).after = a.after /\ next(need).do = "evict"
    BY <1>2, <2>1
  <2>3. next(need) \in Steps
    BY <2>2 DEF Steps
  <2> QED  BY <2>1, <2>2, <2>3
<1>5. CASE a.items # <<>> /\ \E outcome \in RemoveOutcomes(p) :
              /\ file' = IF outcome # "removed" THEN file
                         ELSE [file EXCEPT ![p] = [gen |-> @.gen + 1, content |-> "absent"]]
              /\ Continue(c, IF outcome \in a.after
                             THEN <<[do |-> "find", path |-> p]>> \o << next(a.need - a.items[1].size) >>
                             ELSE << next(a.need) >>)
  <2>1. 1 \in 1..Len(a.items) /\ a.items[1] \in Item
    BY <1>2, <1>5
  <2>2. p \in Paths /\ a.need - a.items[1].size \in Int
    BY <1>2, <2>1 DEF Item
  <2>3. PICK outcome \in RemoveOutcomes(p) :
              /\ file' = IF outcome # "removed" THEN file
                         ELSE [file EXCEPT ![p] = [gen |-> @.gen + 1, content |-> "absent"]]
              /\ Continue(c, IF outcome \in a.after
                             THEN <<[do |-> "find", path |-> p]>> \o << next(a.need - a.items[1].size) >>
                             ELSE << next(a.need) >>)
    BY <1>5
  <2> DEFINE x == next(IF outcome \in a.after THEN a.need - a.items[1].size ELSE a.need)
  <2>4. /\ x \in Steps /\ x.do = "evict" /\ x.after = a.after
        /\ \A i \in 1..Len(x.items) : \E j \in 1..Len(a.items) : x.items[i] = a.items[j]
    <3>1. (IF outcome \in a.after THEN a.need - a.items[1].size ELSE a.need) \in Int
      BY <1>2, <2>2
    <3> HIDE DEF next, a
    <3> QED  BY <1>4, <1>5, <3>1
  <2>5. Continue(c, IF outcome \in a.after THEN <<[do |-> "find", path |-> p]>> \o <<x>> ELSE <<x>>)
    BY <2>3
  <2>6. \E i \in 1..Len(a.items) : p = a.items[i].path
    BY <2>1
  <2> HIDE DEF x, p
  <2> QED  BY <1>1, <2>2, <2>3, <2>4, <2>5, <2>6
<1> QED  BY <1>1, <1>3, <1>5

\* SaveCacheEntry adds the size of what it then writes.
LEMMA CreditSets ==
  ASSUME TypeOK, NEW c \in Procs, Credit(c)
  PROVE  /\ First(c) \in Steps /\ First(c).do = "credit" /\ Step(c, "credit") /\ clock' \in Nat
         /\ \E x \in Steps : /\ x.do = "set" /\ x.path = First(c).path
                             /\ x.entry.size = First(c).entry.size
                             /\ x.entry.used \in {First(c).entry.used, clock'}
                             /\ currentSize' = currentSize + x.entry.size
                             /\ Continue(c, <<x>>)
         /\ clock <= clock'
<1> DEFINE now == clock + 1
           e == IF Arg(c).touch THEN [Arg(c).entry EXCEPT !.used = now] ELSE Arg(c).entry
           x == [do |-> "set", path |-> Arg(c).path, entry |-> e]
<1>1. First(c) \in Steps /\ First(c) = Arg(c) /\ First(c).do = "credit" /\ Step(c, "credit")
  BY FirstStep DEF Credit
<1>2. First(c).path \in Paths /\ First(c).entry \in Entry
  BY <1>1, StepTypes
<1>3. now \in Nat
  BY DEF TypeOK
<1>4. e \in Entry /\ e.size = First(c).entry.size
      /\ e.used = IF First(c).touch THEN now ELSE First(c).entry.used
  BY <1>1, <1>2, <1>3 DEF Entry
<1>5. currentSize' = currentSize + e.size /\ clock' \in Nat /\ Continue(c, <<x>>)
  BY <1>3 DEF Credit, TypeOK
<1>7. clock' = (IF First(c).touch THEN now ELSE clock) /\ clock <= clock'
  BY <1>1 DEF Credit, TypeOK
<1> HIDE DEF e
<1>6. x \in Steps /\ x.do = "set" /\ x.path = First(c).path /\ x.entry = e
  BY <1>1, <1>2, <1>4 DEF Steps
<1> QED  BY <1>1, <1>4, <1>5, <1>6, <1>7

\* RecordCacheHit and PutWithExpiration save a copy of the entry they read.
LEMMA WritesBack ==
  ASSUME TypeOK, NEW c \in Procs, Hit(c) \/ Expire(c)
  PROVE  /\ First(c) \in Steps /\ First(c).do \in {"hit", "expire"} /\ Step(c, First(c).do)
         /\ hitCount' \in Nat
         /\ \/ Continue(c, <<>>)
            \/ \E x \in Steps : /\ x.do = "credit" /\ x.path = First(c).path
                                /\ entry[x.path] # None /\ x.entry.size = entry[x.path].size
                                /\ x.entry.used = entry[x.path].used
                                /\ Continue(c, <<x>>)
<1> DEFINE p == First(c).path
           e(b) == IF b THEN [entry[p] EXCEPT !.hits = @ + 1] ELSE [entry[p] EXCEPT !.timed = TRUE]
           x(b) == [do |-> "credit", path |-> p, entry |-> e(b), touch |-> b]
<1>1. /\ First(c) \in Steps /\ First(c) = Arg(c) /\ First(c).do \in {"hit", "expire"}
      /\ Step(c, First(c).do)
  BY FirstStep DEF Hit, Expire
<1>2. First(c).path \in Paths
  BY <1>1, StepTypes
<1>3. /\ hitCount' \in Nat
      /\ \/ Continue(c, <<>>)
         \/ entry[p] # None /\ \E b \in BOOLEAN : Continue(c, <<x(b)>>)
  <2>1. hitCount \in Nat
    BY DEF TypeOK
  <2>2. CASE Hit(c)
    <3>1. \/ Continue(c, <<>>)
          \/ entry[p] # None /\ Continue(c, <<x(TRUE)>>)
      BY <1>1, <2>2 DEF Hit, SaveCacheEntry
    <3>2. hitCount' = hitCount \/ hitCount' = hitCount + 1
      BY <2>2, Zenon DEF Hit
    <3>3. hitCount' \in Nat
      BY <2>1, <3>2
    <3> QED  BY <3>1, <3>3
  <2>3. CASE Expire(c)
    <3>1. \/ Continue(c, <<>>)
          \/ entry[p] # None /\ Continue(c, <<x(FALSE)>>)
      BY <1>1, <2>3 DEF Expire, SaveCacheEntry
    <3>2. hitCount' \in Nat
      BY <2>1, <2>3 DEF Expire, mem
    <3> QED  BY <3>1, <3>2
  <2> QED  BY <2>2, <2>3
<1>4. ASSUME entry[p] # None, NEW b \in BOOLEAN
      PROVE  /\ x(b) \in Steps /\ x(b).do = "credit" /\ x(b).path = p
             /\ x(b).entry.size = entry[p].size /\ x(b).entry.used = entry[p].used
  <2>1. entry[p] \in Entry
    BY <1>2, <1>4 DEF TypeOK
  <2>2. e(b) \in Entry /\ e(b).size = entry[p].size /\ e(b).used = entry[p].used
    <3>1. /\ [entry[p] EXCEPT !.hits = @ + 1] \in Entry
          /\ [entry[p] EXCEPT !.hits = @ + 1].size = entry[p].size
          /\ [entry[p] EXCEPT !.hits = @ + 1].used = entry[p].used
      BY <2>1 DEF Entry
    <3>2. /\ [entry[p] EXCEPT !.timed = TRUE] \in Entry
          /\ [entry[p] EXCEPT !.timed = TRUE].size = entry[p].size
          /\ [entry[p] EXCEPT !.timed = TRUE].used = entry[p].used
      BY <2>1 DEF Entry
    <3> QED  BY <3>1, <3>2
  <2> HIDE DEF e
  <2> QED  BY <1>2, <2>2 DEF Steps
<1> HIDE DEF p, x
<1> QED  BY <1>1, <1>3, <1>4 DEF p

\* DeleteCacheEntry subtracts the size it found, if it found any, then deletes.
LEMMA FindDrops ==
  ASSUME TypeOK, NEW c \in Procs, Find(c)
  PROVE  /\ First(c) \in Steps /\ First(c).do = "find" /\ Step(c, "find")
         /\ \E x \in Steps :
              /\ x.do = "drop" /\ x.path = First(c).path
              /\ \/ entry[x.path] = None /\ Continue(c, <<x>>)
                 \/ \E y \in Steps : /\ y.do = "debit" /\ entry[x.path] # None
                                     /\ y.size = entry[x.path].size
                                     /\ Continue(c, <<y>> \o <<x>>)
<1> DEFINE p == Arg(c).path
           x == [do |-> "drop", path |-> p]
           y == [do |-> "debit", size |-> entry[p].size]
<1>1. First(c) \in Steps /\ First(c) = Arg(c) /\ First(c).do = "find" /\ Step(c, "find")
  BY FirstStep DEF Find
<1>2. p \in Paths
  BY <1>1, StepTypes
<1>3. x \in Steps /\ x.do = "drop" /\ x.path = p
  BY <1>2 DEF Steps
<1>4. IF entry[p] = None THEN Continue(c, <<x>>) ELSE Continue(c, <<y>> \o <<x>>)
  BY DEF Find
<1>5. entry[p] # None => y \in Steps /\ y.do = "debit" /\ y.size = entry[p].size
  <2> SUFFICES ASSUME entry[p] # None
               PROVE  y \in Steps /\ y.do = "debit" /\ y.size = entry[p].size
    OBVIOUS
  <2>1. entry[p].size \in Nat
    BY <1>2 DEF TypeOK, Entry
  <2> HIDE DEF p
  <2> QED  BY <2>1 DEF Steps
<1>p. p = First(c).path
  BY <1>1
<1> HIDE DEF x, y, p
<1> QED  BY <1>1, <1>3, <1>4, <1>5, <1>p

\* Remove goes on to a loop over the one path.
LEMMA LocateDeletes ==
  ASSUME TypeOK, NEW c \in Procs, Locate(c)
  PROVE  /\ First(c) \in Steps /\ First(c).do = "locate" /\ Step(c, "locate")
         /\ \/ Continue(c, <<>>)
            \/ \E x \in Steps : /\ x.do = "evict" /\ x.after = {"removed", "missing"}
                                /\ \A i \in 1..Len(x.items) : entry[x.items[i].path] # None
                                /\ Continue(c, <<x>>)
<1> DEFINE p == Arg(c).path
           items == << [path |-> p, size |-> 0] >>
           x == [do |-> "evict", items |-> items, need |-> Everything, floor |-> -Everything,
                 after |-> {"removed", "missing"}]
<1>1. First(c) \in Steps /\ First(c) = Arg(c) /\ First(c).do = "locate" /\ Step(c, "locate")
  BY FirstStep DEF Locate
<1>2. p \in Paths
  BY <1>1, StepTypes
<1>3. \/ Continue(c, <<>>)
      \/ entry[p] # None /\ Continue(c, <<x>>)
  BY DEF Locate
<1>4. items \in Seq(Item) /\ \A i \in 1..Len(items) : items[i].path = p
  BY <1>2 DEF Item
<1> HIDE DEF items
<1>5. /\ x \in Steps /\ x.do = "evict" /\ x.after = {"removed", "missing"}
      /\ x.items = items
  <2>1. Everything \in Int /\ -Everything \in Int /\ {"removed", "missing"} \in SUBSET Outcomes
    BY DEF Everything, Outcomes
  <2> QED  BY <1>4, <2>1 DEF Steps
<1> HIDE DEF x, p
<1> QED  BY <1>1, <1>3, <1>4, <1>5

\* Add and the maintenance may go on to a listing; only Clear deletes the entry
\* of a file it could not remove.
LEMMA PrunesOrNot ==
  ASSUME TypeOK, NEW c \in Procs, Room(c) \/ Overfull(c)
  PROVE  /\ First(c) \in Steps /\ First(c).do \in {"room", "overfull"} /\ Step(c, First(c).do)
         /\ \/ Continue(c, <<>>)
            \/ \E x \in Steps : /\ x.do = "pick" /\ "failed" \notin x.after /\ "removed" \in x.after
                                /\ Continue(c, <<x>>)
<1>1. /\ First(c) \in Steps /\ First(c) = Arg(c) /\ First(c).do \in {"room", "overfull"}
      /\ Step(c, First(c).do)
  BY FirstStep DEF Room, Overfull
<1>2. /\ clock + 1 \in Nat /\ PruneBatch \in Nat /\ MaxSize \in Int /\ Cardinality(Paths) \in Nat
      /\ currentSize \in Int /\ (MaxSize * 9) \div 10 \in Int
  BY ConstantsAssumption, FS_CardinalityType DEF TypeOK
<1> DEFINE x(n, need, floor, after) ==
             [do |-> "pick", cutoff |-> clock + 1, count |-> n, need |-> need,
              floor |-> floor, after |-> after]
<1>3. \A n \in Nat, need, floor \in Int, after \in SUBSET Outcomes :
        /\ x(n, need, floor, after) \in Steps
        /\ x(n, need, floor, after).do = "pick" /\ x(n, need, floor, after).after = after
  BY <1>2 DEF Steps
<1>4. CASE Room(c)
  <2>1. First(c).do = "room" /\ First(c).size \in Nat
    <3>1. First(c).do = "room"
      BY <1>4, FirstStep DEF Room
    <3> QED  BY <1>1, <3>1, StepTypes
  <2> DEFINE y == x(PruneBatch, currentSize + Arg(c).size, MaxSize, {"removed"})
  <2>2. Continue(c, <<>>) \/ Continue(c, <<y>>)
    BY <1>4 DEF Room, Pick
  <2>3. y \in Steps /\ y.do = "pick" /\ "failed" \notin y.after /\ "removed" \in y.after
    <3> DEFINE n == currentSize + Arg(c).size
               a == {"removed"}
    <3>1. n \in Int /\ a \in SUBSET Outcomes
      BY <1>1, <1>2, <2>1 DEF Outcomes
    <3>2. y = x(PruneBatch, n, MaxSize, a)
      OBVIOUS
    <3> HIDE DEF x, n, y
    <3>3. y \in Steps /\ y.do = "pick" /\ y.after = a
      <4> HIDE DEF a
      <4> QED  BY <1>2, <1>3, <3>1, <3>2
    <3> QED  BY <3>3
  <2> HIDE DEF y
  <2> QED  BY <1>1, <2>2, <2>3
<1>5. CASE Overfull(c)
  <2> DEFINE y == x(Cardinality(Paths), currentSize, (MaxSize * 9) \div 10, {"removed", "missing"})
  <2>2. Continue(c, <<>>) \/ Continue(c, <<y>>)
    BY <1>5 DEF Overfull, Pick
  <2>3. y \in Steps /\ y.do = "pick" /\ "failed" \notin y.after /\ "removed" \in y.after
    <3>1. {"removed", "missing"} \in SUBSET Outcomes
      BY DEF Outcomes
    <3> HIDE DEF x
    <3>2. y \in Steps /\ y.do = "pick" /\ y.after = {"removed", "missing"}
      BY <1>2, <1>3, <3>1
    <3> QED  BY <3>2
  <2> HIDE DEF y
  <2> QED  BY <1>1, <2>2, <2>3
<1> QED  BY <1>4, <1>5

\* A listing goes on to a loop over the entries it found.
LEMMA ListEvicts ==
  ASSUME TypeOK, NEW c \in Procs, List(c)
  PROVE  /\ First(c) \in Steps /\ First(c).do = "pick" /\ Step(c, "pick")
         /\ \E x \in Steps : /\ x.do = "evict" /\ x.after = First(c).after
                             /\ \A i \in 1..Len(x.items) : entry[x.items[i].path] # None
                             /\ Continue(c, <<x>>)
<1>1. First(c) \in Steps /\ First(c) = Arg(c) /\ First(c).do = "pick" /\ Step(c, "pick")
  BY FirstStep DEF List
<1> DEFINE a == Arg(c)
<1>2. a.count \in Nat /\ a.need \in Int /\ a.floor \in Int /\ a.after \in SUBSET Outcomes
  BY <1>1, StepTypes
<1>3. PICK old \in AgeOrders({p \in Present : entry[p].used < a.cutoff}) :
        LET items == [i \in 1..Min({Len(old), a.count}) |->
                        [path |-> old[i], size |-> entry[old[i]].size]]
        IN  Continue(c, << [do |-> "evict", items |-> items, need |-> a.need,
                            floor |-> a.floor, after |-> a.after] >>)
  BY DEF List
<1> DEFINE items == [i \in 1..Min({Len(old), a.count}) |->
                        [path |-> old[i], size |-> entry[old[i]].size]]
           x == [do |-> "evict", items |-> items, need |-> a.need,
                 floor |-> a.floor, after |-> a.after]
<1>4. items \in Seq(Item) /\ \A i \in 1..Len(items) : entry[items[i].path] # None
  BY <1>2, Listed
<1>5. Continue(c, <<x>>)
  BY <1>3
<1> HIDE DEF items
<1>6. x \in Steps /\ x.do = "evict" /\ x.after = a.after /\ x.items = items
  BY <1>2, <1>4 DEF Steps
<1> HIDE DEF x
<1> QED  BY <1>1, <1>4, <1>5, <1>6

\* The steps on files keep types and order.
LEMMA FileStepsTyped ==
  ASSUME TypeOK, InOrder, NEW c \in Procs, FileStep(c)
  PROVE  TypeOK' /\ InOrder'
<1>1. CASE Open(c)
  <2>1. prog' \in [Procs -> Seq(Steps)] /\ InOrder'
    BY <1>1, OpenGoes
  <2>2. file' \in [Paths -> [gen : Nat, content : Contents]]
    BY <1>1 DEF Open, TypeOK, Contents
  <2> QED  BY <1>1, <2>1, <2>2 DEF Open, TypeOK, mem, budget
<1>2. CASE Fill(c)
  <2>1. prog' \in [Procs -> Seq(Steps)] /\ InOrder'
    BY <1>2, StepGoesOne DEF Fill
  <2>2. First(c) \in Steps /\ First(c) = Arg(c) /\ First(c).do = "fill"
    BY <1>2, FirstStep DEF Fill
  <2>3. Arg(c).path \in Paths /\ Arg(c).data \in Data
    BY <2>2, StepTypes
  <2>4. file' \in [Paths -> [gen : Nat, content : Contents]]
    <3>1. file \in [Paths -> [gen : Nat, content : Contents]]
      BY DEF TypeOK
    <3> QED  BY <1>2, <2>3, <3>1 DEF Fill, Contents
  <2> QED  BY <1>2, <2>1, <2>4 DEF Fill, TypeOK, mem, budget
<1>3. CASE FillFails(c)
  <2>1. prog' \in [Procs -> Seq(Steps)] /\ InOrder'
    BY <1>3, StepAborts DEF FillFails
  <2> QED  BY <1>3, <2>1 DEF FillFails, TypeOK, mem, budget
<1>4. CASE Read(c)
  <2>1. prog' \in [Procs -> Seq(Steps)] /\ InOrder'
    BY <1>4, StepGoesOne DEF Read
  <2>2. First(c) \in Steps /\ First(c) = Arg(c) /\ First(c).do = "read"
    BY <1>4, FirstStep DEF Read
  <2>3. Arg(c).path \in Paths
    BY <2>2, StepTypes
  <2>4. PICK v \in Contents \cup {None} : call' = [call EXCEPT ![c].answer = v]
    BY <1>4, <2>3 DEF Read, TypeOK
  <2>5. call' \in [Procs -> Calls \cup {NoCall}]
    <3>1. CASE call[c] = NoCall
      <4>1. [call[c] EXCEPT !.answer = v] = NoCall
        BY <3>1 DEF NoCall
      <4> QED  BY <2>4, <4>1 DEF TypeOK
    <3>2. CASE call[c] # NoCall
      <4>1. call[c] \in Calls
        BY <3>2 DEF TypeOK
      <4>2. [call[c] EXCEPT !.answer = v] \in Calls
        BY <4>1 DEF Calls
      <4> QED  BY <2>4, <4>2 DEF TypeOK
    <3> QED  BY <3>1, <3>2
  <2> QED  BY <1>4, <2>1, <2>5 DEF Read, TypeOK, mem, budget
<1>5. CASE Evict(c)
  <2>1. First(c) \in Steps /\ First(c).do = "evict" /\ Step(c, "evict")
    BY <1>5, Evicts DEF Evict
  <2>2. CASE Continue(c, <<>>) /\ UNCHANGED file
    <3>1. prog' \in [Procs -> Seq(Steps)] /\ InOrder'
      BY <2>1, <2>2, StepGoesOne
    <3> QED  BY <1>5, <2>2, <3>1 DEF Evict, TypeOK, mem, budget
  <2>a. "removed" \in First(c).after
    <3>1. 1 \in 1..Len(prog[c])
      BY <2>1, FirstStep
    <3> QED  BY <2>1, <3>1 DEF InOrder, WellFormed, Removes, First
  <2>3. ASSUME NEW p \in Paths, NEW x \in Steps, x.do = "evict", x.after = First(c).after,
               NEW outcome \in RemoveOutcomes(p),
               file' = IF outcome # "removed" THEN file
                       ELSE [file EXCEPT ![p] = [gen |-> @.gen + 1, content |-> "absent"]],
               Continue(c, IF outcome \in First(c).after THEN <<[do |-> "find", path |-> p]>> \o <<x>>
                           ELSE <<x>>)
        PROVE  TypeOK' /\ InOrder'
    <3>1. file' \in [Paths -> [gen : Nat, content : Contents]]
      <4>1. file[p].gen + 1 \in Nat /\ "absent" \in Contents
        BY DEF TypeOK, Contents
      <4> QED  BY <2>3, <4>1 DEF TypeOK
    <3> DEFINE find == [do |-> "find", path |-> p]
               t == <<find>> \o <<x>>
    <3>2. find \in Steps /\ find.do = "find"
      BY DEF Steps
    <3>3. CASE Continue(c, <<x>>)
      <4>1. prog' \in [Procs -> Seq(Steps)] /\ InOrder'
        BY <2>1, <2>3, <2>a, <3>3, StepGoesOne
      <4> QED  BY <1>5, <3>1, <4>1 DEF Evict, TypeOK, mem, budget
    <3>4. CASE Continue(c, t)
      <4> HIDE DEF find
      <4>0. (find.do = "find" /\ x.do = "evict" /\ "removed" \in x.after)
            \/ (find.do = "debit" /\ x.do = "drop")
        BY <2>3, <2>a, <3>2
      <4>1. t \in Seq(Steps) /\ WellFormed(t) /\ Len(t) = 2 /\ t[1] = find /\ t[2] = x
        BY <3>2, <4>0, Two
      <4> HIDE DEF t
      <4>2. \A i \in 1..Len(t) : t[i].do \notin {"check", "hit", "expire"}
        BY <2>3, <3>2, <4>1
      <4>3. prog' \in [Procs -> Seq(Steps)] /\ InOrder'
        BY <2>1, <3>4, <4>1, <4>2, StepGoes
      <4> QED  BY <1>5, <3>1, <4>3 DEF Evict, TypeOK, mem, budget
    <3> QED  BY <2>3, <3>3, <3>4
  <2> QED  BY <1>5, <2>2, <2>3, Evicts
<1> QED  BY <1>1, <1>2, <1>3, <1>4, <1>5 DEF FileStep


\* The steps on entries keep types and order.
LEMMA EntryStepsTyped ==
  ASSUME TypeOK, InOrder, NEW c \in Procs, EntryStep(c)
  PROVE  TypeOK' /\ InOrder'
<1>1. CASE Credit(c)
  <2>1. prog' \in [Procs -> Seq(Steps)] /\ InOrder' /\ clock' \in Nat
    BY <1>1, CreditSets, StepGoesOne
  <2>2. currentSize' \in Nat
    <3>1. PICK x \in Steps : x.do = "set" /\ currentSize' = currentSize + x.entry.size
      BY <1>1, CreditSets
    <3>2. x.entry.size \in Nat
      BY <3>1, StepTypes DEF Entry
    <3> QED  BY <3>1, <3>2 DEF TypeOK
  <2> QED  BY <1>1, <2>1, <2>2 DEF Credit, TypeOK, budget
<1>2. CASE SetEntry(c)
  <2>1. First(c) \in Steps /\ First(c) = Arg(c) /\ First(c).do = "set"
    BY <1>2, FirstStep DEF SetEntry
  <2>2. Arg(c).path \in Paths /\ Arg(c).entry \in Entry
    BY <2>1, StepTypes
  <2>3. entry' \in [Paths -> Entry \cup {None}]
    BY <1>2, <2>2 DEF SetEntry, TypeOK
  <2>4. prog' \in [Procs -> Seq(Steps)] /\ InOrder'
    BY <1>2, StepGoesOne DEF SetEntry
  <2> QED  BY <1>2, <2>3, <2>4 DEF SetEntry, TypeOK, mem, budget
<1>3. CASE Find(c)
  <2>1. PICK x \in Steps : /\ x.do = "drop"
                           /\ \/ Continue(c, <<x>>)
                              \/ \E y \in Steps : y.do = "debit" /\ Continue(c, <<y>> \o <<x>>)
    BY <1>3, FindDrops
  <2>2. First(c).do = "find" /\ Step(c, "find")
    BY <1>3, FindDrops
  <2>3. CASE Continue(c, <<x>>)
    <3>1. prog' \in [Procs -> Seq(Steps)] /\ InOrder'
      BY <2>1, <2>2, <2>3, StepGoesOne
    <3> QED  BY <1>3, <3>1 DEF Find, TypeOK, mem, budget
  <2>4. ASSUME NEW y \in Steps, y.do = "debit", Continue(c, <<y>> \o <<x>>)
        PROVE  TypeOK' /\ InOrder'
    <3> DEFINE t == <<y>> \o <<x>>
    <3>1. (y.do = "find" /\ x.do = "evict" /\ "removed" \in x.after)
          \/ (y.do = "debit" /\ x.do = "drop")
      BY <2>1, <2>4
    <3>2. t \in Seq(Steps) /\ WellFormed(t) /\ Len(t) = 2 /\ t[1] = y /\ t[2] = x
      BY <2>1, <3>1, Two
    <3>3. Continue(c, t)
      BY <2>4
    <3> HIDE DEF t
    <3>4. \A i \in 1..Len(t) : t[i].do \notin {"check", "hit", "expire"}
      BY <2>1, <2>4, <3>2
    <3>5. prog' \in [Procs -> Seq(Steps)] /\ InOrder'
      BY <2>2, <3>2, <3>3, <3>4, StepGoes
    <3> QED  BY <1>3, <3>5 DEF Find, TypeOK, mem, budget
  <2> QED  BY <2>1, <2>3, <2>4
<1>4. CASE Debit(c)
  <2>1. prog' \in [Procs -> Seq(Steps)] /\ InOrder'
    BY <1>4, StepGoesOne DEF Debit
  <2>2. First(c) \in Steps /\ First(c) = Arg(c) /\ First(c).do = "debit"
    BY <1>4, FirstStep DEF Debit
  <2>3. Arg(c).size \in Nat
    BY <2>2, StepTypes
  <2>4. currentSize' \in Nat
    <3>1. currentSize - Arg(c).size \in Int
      BY <2>3 DEF TypeOK
    <3> QED  BY <1>4, <3>1, MaxOfZero DEF Debit
  <2> QED  BY <1>4, <2>1, <2>4 DEF Debit, TypeOK, budget
<1>5. CASE Drop(c)
  <2>1. prog' \in [Procs -> Seq(Steps)] /\ InOrder'
    BY <1>5, StepGoesOne DEF Drop
  <2>2. entry' \in [Paths -> Entry \cup {None}]
    BY <1>5 DEF Drop, TypeOK
  <2> QED  BY <1>5, <2>1, <2>2 DEF Drop, TypeOK, mem, budget
<1>6. CASE Check(c)
  <2>1. prog' \in [Procs -> Seq(Steps)] /\ InOrder'
    BY <1>6, StepGoesOne, StepAborts DEF Check
  <2>2. missCount' = missCount \/ missCount' = missCount + 1
    BY <1>6, Zenon DEF Check
  <2>3. missCount' \in Nat
    BY <2>2 DEF TypeOK
  <2> QED  BY <1>6, <2>1, <2>3 DEF Check, TypeOK, budget
<1>7. CASE Hit(c) \/ Expire(c)
  <2>1. prog' \in [Procs -> Seq(Steps)] /\ InOrder'
    BY <1>7, WritesBack, StepGoesOne
  <2>2. hitCount' \in Nat
    BY <1>7, WritesBack
  <2>3. UNCHANGED <<disk, file, entry, saved, currentSize, missCount, clock, call, reply, budget>>
    BY <1>7 DEF Hit, Expire, mem
  <2> QED  BY <2>1, <2>2, <2>3 DEF TypeOK, budget
<1>8. CASE Locate(c)
  <2>1. prog' \in [Procs -> Seq(Steps)] /\ InOrder'
    BY <1>8, LocateDeletes, StepGoesOne
  <2> QED  BY <1>8, <2>1 DEF Locate, TypeOK, mem, budget
<1> QED  BY <1>1, <1>2, <1>3, <1>4, <1>5, <1>6, <1>7, <1>8 DEF EntryStep

\* The steps that look at the size keep types and order.
LEMMA SizeStepsTyped ==
  ASSUME TypeOK, InOrder, NEW c \in Procs, SizeStep(c)
  PROVE  TypeOK' /\ InOrder'
<1>1. CASE Room(c) \/ Overfull(c)
  <2>1. prog' \in [Procs -> Seq(Steps)] /\ InOrder'
    BY <1>1, PrunesOrNot, StepGoesOne
  <2>2. UNCHANGED <<disk, file, entry, saved, mem, clock, call, reply, budget>>
    BY <1>1 DEF Room, Overfull
  <2> QED  BY <2>1, <2>2 DEF TypeOK, mem, budget
<1>2. CASE List(c)
  <2>1. prog' \in [Procs -> Seq(Steps)] /\ InOrder'
    <3>1. PICK x \in Steps : x.do = "evict" /\ x.after = First(c).after /\ Continue(c, <<x>>)
      BY <1>2, ListEvicts
    <3>2. First(c).do = "pick" /\ Step(c, "pick")
      BY <1>2, ListEvicts
    <3>3. 1 \in 1..Len(prog[c])
      BY <3>2, FirstStep
    <3>4. "removed" \in First(c).after
      BY <3>2, <3>3 DEF InOrder, WellFormed, Removes, First
    <3> QED  BY <3>1, <3>2, <3>4, StepGoesOne
  <2>2. UNCHANGED <<disk, file, entry, saved, mem, clock, call, reply, budget>>
    BY <1>2 DEF List
  <2> QED  BY <2>1, <2>2 DEF TypeOK, mem, budget
<1>3. CASE Persist(c)
  <2>1. prog' \in [Procs -> Seq(Steps)] /\ InOrder'
    BY <1>3, StepGoesOne DEF Persist
  <2>2. saved' \in [size : Nat, hits : Nat, misses : Nat]
    BY <1>3 DEF Persist, SaveCacheState, TypeOK
  <2> QED  BY <1>3, <2>1, <2>2 DEF Persist, TypeOK, mem, budget
<1> QED  BY <1>1, <1>2, <1>3 DEF SizeStep

\* So do the end of a call, a restart and a crash.
LEMMA OthersTyped ==
  ASSUME TypeOK, InOrder,
         (\E c \in Procs : Return(c)) \/ Restart \/ Crash \/ UNCHANGED vars
  PROVE  TypeOK' /\ InOrder'
<1>1. ASSUME NEW c \in Procs, Return(c) PROVE TypeOK' /\ InOrder'
  <2>1. /\ call' = [call EXCEPT ![c] = NoCall]
        /\ reply' = [reply EXCEPT ![c] = IF call[c].op = "get" THEN call[c].answer ELSE @]
        /\ call[c].answer \in Contents \cup {None}
    BY <1>1 DEF Return, TypeOK, Calls
  <2>2. reply' \in [Procs -> Contents \cup {None}]
    BY <2>1 DEF TypeOK
  <2>3. call' \in [Procs -> Calls \cup {NoCall}]
    BY <2>1 DEF TypeOK
  <2>4. InOrder'
    BY <1>1, OrderSame DEF Return
  <2> QED  BY <1>1, <2>2, <2>3, <2>4 DEF Return, TypeOK, mem, budget
<1>2. CASE Restart
  <2>1. /\ saved' = [size |-> currentSize, hits |-> hitCount, misses |-> missCount]
        /\ currentSize' = currentSize /\ hitCount' = hitCount /\ missCount' = missCount
    BY <1>2 DEF Restart, SaveCacheState, LoadCacheState
  <2>2. restarts' \in 0..MaxRestarts
    BY <1>2, ConstantsAssumption DEF Restart, TypeOK
  <2>3. InOrder'
    BY <1>2, OrderSame DEF Restart
  <2>4. saved' \in [size : Nat, hits : Nat, misses : Nat]
    BY <2>1 DEF TypeOK
  <2> QED  BY <1>2, <2>1, <2>2, <2>3, <2>4 DEF Restart, TypeOK
<1>3. CASE Crash
  <2>1. currentSize' \in Nat /\ hitCount' \in Nat /\ missCount' \in Nat
    BY <1>3 DEF Crash, LoadCacheState, TypeOK
  <2>2. crashes' \in 0..MaxCrashes
    BY <1>3, ConstantsAssumption DEF Crash, TypeOK
  <2>3. prog' = [c \in Procs |-> <<>>] /\ call' = [c \in Procs |-> NoCall]
    BY <1>3 DEF Crash
  <2>4. prog' \in [Procs -> Seq(Steps)] /\ InOrder'
    BY <2>3, NothingInOrder, OrderNext
  <2> QED  BY <1>3, <2>1, <2>2, <2>3, <2>4 DEF Crash, TypeOK
<1>4. CASE UNCHANGED vars
  <2>1. InOrder'
    BY <1>4, OrderSame DEF vars
  <2> QED  BY <1>4, <2>1 DEF vars, mem, budget, TypeOK
<1> QED  BY <1>1, <1>2, <1>3, <1>4

\* So does every step of the system.
LEMMA StructureStep == TypeOK /\ InOrder /\ [Next]_vars => TypeOK' /\ InOrder'
<1> SUFFICES ASSUME TypeOK, InOrder, [Next]_vars PROVE TypeOK' /\ InOrder'
  OBVIOUS
<1> QED  BY CallsTyped, FileStepsTyped, EntryStepsTyped, SizeStepsTyped, OthersTyped DEF Next

\* Every variable keeps its type: in particular no size turns negative and no
\* call is left with a step it cannot take.
THEOREM TypeCorrect == Spec => []TypeOK
<1>1. TypeOK /\ InOrder /\ [Next]_vars => (TypeOK /\ InOrder)'
  BY StructureStep
<1>2. Init => TypeOK /\ InOrder
  BY StructureInit
<1> QED  BY <1>1, <1>2, PTL DEF Spec

\* The steps of every call stay in the order of the code.
LEMMA Structure == Spec => [](TypeOK /\ InOrder)
<1>1. TypeOK /\ InOrder /\ [Next]_vars => (TypeOK /\ InOrder)'
  BY StructureStep
<1>2. Init => TypeOK /\ InOrder
  BY StructureInit
<1> QED  BY <1>1, <1>2, PTL DEF Spec

-----------------------------------------------------------------------------
(* What a step changes.                                                     *)

ProcStep(c) == FileStep(c) \/ EntryStep(c) \/ SizeStep(c)

\* Next, with the calls that begin gathered: none begins with what only a step
\* leads to.
Begins(c) ==
  /\ UNCHANGED <<disk, file, entry, saved, mem, clock, reply, restarts, crashes>>
  /\ call[c] = NoCall /\ (Serial => Quiet)
  /\ \E op \in AllOps : \E p, d :
       call' = [call EXCEPT ![c] = [op |-> op, path |-> p, data |-> d, answer |-> None,
                                    before |-> Visible, older |-> Older]]
  /\ \E steps \in Seq(Steps) :
       /\ prog' = [prog EXCEPT ![c] = steps]
       /\ steps # <<>> /\ steps[1].do \in {"open", "check", "locate", "pick", "overfull"}
       /\ \A i \in 1..Len(steps) :
            /\ steps[i].do \notin {"find", "debit", "drop", "set", "evict"}
            /\ steps[i].do = "pick" /\ "failed" \in steps[i].after => "clear" \in Ops
            /\ steps[i].do = "fill" => i > 1

\* No call begins with a write or a deletion.
LEMMA CallsBegin ==
  ASSUME TypeOK,
         \/ \E c \in Clients, p \in Paths :
              \/ CallGet(c, p) \/ CallRemove(c, p)
              \/ \E d \in Data : CallPut(c, p, d) \/ CallPutTTL(c, p, d)
         \/ \E c \in Clients : CallSweep(c) \/ CallClear(c)
         \/ CallMaintain
  PROVE  \E c \in Procs : Begins(c)
<1> USE ClientIsProc
<1> DEFINE Good(steps) ==
       /\ steps \in Seq(Steps) /\ steps # <<>>
       /\ steps[1].do \in {"open", "check", "locate", "pick", "overfull"}
       /\ \A i \in 1..Len(steps) :
            /\ steps[i].do \notin {"find", "debit", "drop", "set", "evict"}
            /\ steps[i].do = "pick" /\ "failed" \in steps[i].after => "clear" \in Ops
            /\ steps[i].do = "fill" => i > 1
<1>1. ASSUME NEW c \in Procs, NEW op, NEW p, NEW d, NEW steps, Begin(c, op, p, d, steps), Good(steps)
      PROVE  \E e \in Procs : Begins(e)
  <2>1. /\ UNCHANGED <<disk, file, entry, saved, mem, clock, reply, restarts, crashes>>
        /\ call[c] = NoCall /\ (Serial => Quiet)
        /\ call' = [call EXCEPT ![c] = [op |-> op, path |-> p, data |-> d, answer |-> None,
                                        before |-> Visible, older |-> Older]]
        /\ prog' = [prog EXCEPT ![c] = steps] /\ op \in AllOps
    BY <1>1, ConstantsAssumption DEF Begin
  <2>2. Begins(c)
    BY <1>1, <2>1, Zenon DEF Begins
  <2> QED  BY <2>2
<1>a. \A n \in Nat : n = 6 => 1..n = {1, 2, 3, 4, 5, 6}
  OBVIOUS
<1>b. \A n \in Nat : n = 7 => 1..n = {1, 2, 3, 4, 5, 6, 7}
  OBVIOUS
<1>2. \A p \in Paths, d \in Data : Good(Add(p, d))
  <2> SUFFICES ASSUME NEW p \in Paths, NEW d \in Data PROVE Good(Add(p, d))
    OBVIOUS
  <2> DEFINE s == Add(p, d)
  <2>1. /\ s \in Seq(Steps) /\ Len(s) = 6 /\ s[1].do = "open" /\ s[2].do = "fill" /\ s[3].do = "room"
        /\ s[4].do = "open" /\ s[5].do = "fill" /\ s[6].do = "credit"
    BY AddSteps
  <2> HIDE DEF s
  <2>2. 1..Len(s) = {1, 2, 3, 4, 5, 6}
    BY <2>1
  <2>a. \A i \in 1..Len(s) : s[i].do \notin {"find", "debit", "drop", "set", "evict", "pick"}
    BY <2>1, <2>2
  <2>b. \A i \in 1..Len(s) : s[i].do = "fill" => i > 1
    BY <2>1, <2>2
  <2>l. Len(s) # 0
    BY <2>1
  <2>c. s # <<>>
    BY <2>l
  <2>3. Good(s)
    BY <2>1, <2>a, <2>b, <2>c
  <2> QED  BY <2>3 DEF s
<1>3. \A p \in Paths, d \in Data : Good(PutWithExpiration(p, d))
  <2> SUFFICES ASSUME NEW p \in Paths, NEW d \in Data PROVE Good(PutWithExpiration(p, d))
    OBVIOUS
  <2> DEFINE s == PutWithExpiration(p, d)
  <2>1. /\ s \in Seq(Steps) /\ Len(s) = 7 /\ s[1].do = "open" /\ s[2].do = "fill" /\ s[3].do = "room"
        /\ s[4].do = "open" /\ s[5].do = "fill" /\ s[6].do = "credit" /\ s[7].do = "expire"
    BY AddSteps, PutWithExpirationInOrder
  <2> HIDE DEF s
  <2>2. 1..Len(s) = {1, 2, 3, 4, 5, 6, 7}
    BY <2>1
  <2>a. \A i \in 1..Len(s) : s[i].do \notin {"find", "debit", "drop", "set", "evict", "pick"}
    BY <2>1, <2>2
  <2>b. \A i \in 1..Len(s) : s[i].do = "fill" => i > 1
    BY <2>1, <2>2
  <2>l. Len(s) # 0
    BY <2>1
  <2>c. s # <<>>
    BY <2>l
  <2>3. Good(s)
    BY <2>1, <2>a, <2>b, <2>c
  <2> QED  BY <2>3 DEF s
<1>4. \A p \in Paths : Good(Get(p)) /\ Good(RemovePath(p))
  <2> SUFFICES ASSUME NEW p \in Paths PROVE Good(Get(p)) /\ Good(RemovePath(p))
    OBVIOUS
  <2> DEFINE s == Get(p)
             x == [do |-> "locate", path |-> p]
  <2>1. /\ s \in Seq(Steps) /\ Len(s) = 3 /\ s[1].do = "check" /\ s[2].do = "hit" /\ s[3].do = "read"
    BY GetInOrder
  <2>2. x \in Steps /\ x.do = "locate" /\ RemovePath(p) = <<x>>
    BY DEF Steps, RemovePath
  <2> HIDE DEF s, x
  <2>3. 1..Len(s) = {1, 2, 3}
    BY <2>1
  <2>4. Good(s)
    BY <2>1, <2>3
  <2>5. <<x>> \in Seq(Steps) /\ Len(<<x>>) = 1 /\ <<x>>[1] = x
    BY <2>2
  <2>6. Good(<<x>>)
    BY <2>2, <2>5
  <2> QED  BY <2>2, <2>4, <2>6 DEF s
<1>5. ASSUME NEW cutoff \in Nat, NEW after \in SUBSET Outcomes, "removed" \in after,
             "failed" \in after => "clear" \in Ops
      PROVE  Good(Pick(cutoff, Cardinality(Paths), Everything, -Everything, after))
  <2> DEFINE s == Pick(cutoff, Cardinality(Paths), Everything, -Everything, after)
  <2>1. Cardinality(Paths) \in Nat /\ Everything \in Int /\ -Everything \in Int
    BY ConstantsAssumption, FS_CardinalityType DEF Everything
  <2>2. s \in Seq(Steps) /\ Len(s) = 1 /\ s[1].do = "pick" /\ s[1].after = after
    BY <1>5, <2>1, PickInOrder
  <2> HIDE DEF s
  <2>3. Good(s)
    <3>0. s \in Seq(Steps) /\ Len(s) = 1
      BY <2>2
    <3>1. s # <<>> /\ 1..Len(s) = {1}
      BY <3>0
    <3>2. "failed" \in s[1].after => "clear" \in Ops
      BY <1>5, <2>2
    <3> QED  BY <2>2, <3>1, <3>2
  <2> QED  BY <2>3 DEF s
<1>6. Good(Maintain)
  <2> DEFINE s == Maintain
  <2>1. /\ s \in Seq(Steps) /\ Len(s) = 2 /\ s[1].do = "overfull" /\ s[2].do = "persist"
        /\ s # <<>>
    BY MaintainInOrder
  <2> HIDE DEF s
  <2>2. 1..Len(s) = {1, 2}
    BY <2>1
  <2>3. \A i \in 1..Len(s) : s[i].do \in {"overfull", "persist"}
    BY <2>1, <2>2
  <2>4. Good(s)
    BY <2>1, <2>3
  <2> QED  BY <2>4 DEF s
<1> HIDE DEF Good
<1>7. ASSUME NEW c \in Clients, NEW p \in Paths,
             \/ CallGet(c, p) \/ CallRemove(c, p)
             \/ \E d \in Data : CallPut(c, p, d) \/ CallPutTTL(c, p, d)
      PROVE  \E e \in Procs : Begins(e)
  BY <1>1, <1>2, <1>3, <1>4, <1>7 DEF CallGet, CallRemove, CallPut, CallPutTTL
<1>8. ASSUME NEW c \in Clients, CallSweep(c) PROVE \E e \in Procs : Begins(e)
  <2>1. PICK cutoff \in 1..clock : Begin(c, "sweep", None, None, Sweep(cutoff))
    BY <1>8 DEF CallSweep
  <2>2. cutoff \in Nat
    BY <2>1 DEF TypeOK
  <2>3. Good(Sweep(cutoff))
    BY <1>5, <2>2 DEF Sweep, Outcomes
  <2> QED  BY <1>1, <2>1, <2>3
<1>9. ASSUME NEW c \in Clients, CallClear(c) PROVE \E e \in Procs : Begins(e)
  <2>1. clock + 1 \in Nat
    BY DEF TypeOK
  <2>2. Begin(c, "clear", None, None, Clear) /\ "clear" \in Ops
    BY <1>9 DEF CallClear, Begin
  <2>3. Good(Clear)
    BY <1>5, <2>1, <2>2 DEF Clear, Outcomes
  <2> QED  BY <1>1, <2>2, <2>3
<1>10. ASSUME CallMaintain PROVE \E e \in Procs : Begins(e)
  BY <1>1, <1>6, <1>10 DEF CallMaintain, Procs
<1> QED  BY <1>7, <1>8, <1>9, <1>10

\* One step of the system: a call begins, goes on or ends, or the process ends.
LEMMA StepCases ==
  ASSUME TypeOK, [Next]_vars
  PROVE  \/ \E c \in Procs : Begins(c) \/ ProcStep(c) \/ Return(c)
         \/ Restart \/ Crash \/ UNCHANGED vars
BY CallsBegin DEF Next, ProcStep

\* What a call does next when one step is put in front of the rest.
LEMMA GoesTo ==
  ASSUME TypeOK, NEW c \in Procs, prog[c] # <<>>, NEW x \in Steps, Continue(c, <<x>>)
  PROVE  /\ prog'[c] # <<>> /\ prog'[c][1] = x /\ \A d \in Procs \ {c} : prog'[d] = prog[d]
         /\ \A i \in 1..Len(prog'[c]) :
              prog'[c][i] = x \/ \E j \in 2..Len(prog[c]) : prog'[c][i] = prog[c][j]
         /\ \A j \in 2..Len(prog[c]) : \E i \in 1..Len(prog'[c]) : prog'[c][i] = prog[c][j]
         /\ \E i \in 1..Len(prog'[c]) : prog'[c][i] = x
<1> DEFINE t == <<x>>
<1>1. t \in Seq(Steps) /\ Len(t) = 1 /\ t[1] = x /\ t # <<>> /\ Continue(c, t)
  OBVIOUS
<1> HIDE DEF t
<1>2. /\ \A d \in Procs \ {c} : prog'[d] = prog[d]
      /\ t # <<>> => prog'[c] # <<>> /\ prog'[c][1] = t[1]
      /\ \A i \in 1..Len(prog'[c]) :
           \/ \E j \in 1..Len(t) : prog'[c][i] = t[j]
           \/ \E j \in 2..Len(prog[c]) : prog'[c][i] = prog[c][j]
  BY <1>1, Goes
<1>k. \A j \in 2..Len(prog[c]) : \E i \in 1..Len(prog'[c]) : prog'[c][i] = prog[c][j]
  BY <1>1, GoesKeeps
<1>3. \A j \in 1..Len(t) : t[j] = x
  BY <1>1
<1>4. 1 \in 1..Len(prog'[c])
  <2>1. prog'[c] \in Seq(Steps)
    BY <1>1, Goes
  <2> QED  BY <1>1, <1>2, <2>1
<1> QED  BY <1>1, <1>2, <1>3, <1>4, <1>k

\* What a call does next when two steps are put in front of the rest.
LEMMA GoesToTwo ==
  ASSUME TypeOK, NEW c \in Procs, prog[c] # <<>>, NEW x \in Steps, NEW y \in Steps,
         Continue(c, <<x>> \o <<y>>)
  PROVE  /\ prog'[c] # <<>> /\ prog'[c][1] = x /\ \A d \in Procs \ {c} : prog'[d] = prog[d]
         /\ prog'[c][2] = y /\ 2 \in 1..Len(prog'[c])
         /\ \A i \in 1..Len(prog'[c]) :
              \/ prog'[c][i] = x \/ prog'[c][i] = y
              \/ \E j \in 2..Len(prog[c]) : prog'[c][i] = prog[c][j]
         /\ \A j \in 2..Len(prog[c]) : \E i \in 1..Len(prog'[c]) : prog'[c][i] = prog[c][j]
         /\ \E i \in 1..Len(prog'[c]) : prog'[c][i] = x
         /\ \E i \in 1..Len(prog'[c]) : prog'[c][i] = y
<1> DEFINE t == <<x>> \o <<y>>
<1>1. t \in Seq(Steps) /\ Len(t) = 2 /\ t[1] = x /\ t[2] = y /\ t # <<>> /\ Continue(c, t)
  <2>1. <<x>> \in Seq(Steps) /\ <<y>> \in Seq(Steps) /\ Len(<<x>>) = 1 /\ Len(<<y>>) = 1
        /\ <<x>>[1] = x /\ <<y>>[1] = y
    OBVIOUS
  <2> QED  BY <2>1
<1> HIDE DEF t
<1>2. /\ \A d \in Procs \ {c} : prog'[d] = prog[d]
      /\ t # <<>> => prog'[c] # <<>> /\ prog'[c][1] = t[1]
      /\ prog'[c] = t \o Tail(prog[c])
      /\ \A i \in 1..Len(prog'[c]) :
           \/ \E j \in 1..Len(t) : prog'[c][i] = t[j]
           \/ \E j \in 2..Len(prog[c]) : prog'[c][i] = prog[c][j]
  BY <1>1, Goes
<1>k. \A j \in 2..Len(prog[c]) : \E i \in 1..Len(prog'[c]) : prog'[c][i] = prog[c][j]
  BY <1>1, GoesKeeps
<1>3. \A j \in 1..Len(t) : t[j] = x \/ t[j] = y
  BY <1>1
<1>4. prog'[c][2] = y /\ 2 \in 1..Len(prog'[c])
  <2>1. Tail(prog[c]) \in Seq(Steps)
    BY DEF TypeOK
  <2>2. Len(t \o Tail(prog[c])) = Len(t) + Len(Tail(prog[c])) /\ Len(Tail(prog[c])) \in Nat
    <3> DEFINE r == Tail(prog[c])
    <3>1. r \in Seq(Steps) /\ t \in Seq(Steps)
      BY <1>1, <2>1
    <3> HIDE DEF r
    <3>2. Len(t \o r) = Len(t) + Len(r) /\ Len(r) \in Nat
      BY <3>1
    <3> QED  BY <3>2 DEF r
  <2>3. \A i \in 1..Len(t) : (t \o Tail(prog[c]))[i] = t[i]
    BY <1>1, <2>1, Joined DEF Parts
  <2> QED  BY <1>1, <1>2, <2>2, <2>3
<1>5. 1 \in 1..Len(prog'[c])
  <2>1. prog'[c] \in Seq(Steps)
    BY <1>1, Goes
  <2> QED  BY <1>4, <2>1
<1> QED  BY <1>1, <1>2, <1>3, <1>4, <1>5, <1>k

\* What a call does next when it only goes on: it writes only after a fill, and
\* deletes only after a debit.
LEMMA GoesOn ==
  ASSUME TypeOK, InOrder, NEW c \in Procs, NEW do, Step(c, do), do # "open", Continue(c, <<>>)
  PROVE  /\ \A d \in Procs \ {c} : prog'[d] = prog[d]
         /\ \A i \in 1..Len(prog'[c]) : \E j \in 2..Len(prog[c]) : prog'[c][i] = prog[c][j]
         /\ \A j \in 2..Len(prog[c]) : \E i \in 1..Len(prog'[c]) : prog'[c][i] = prog[c][j]
         /\ prog'[c] # <<>> =>
              /\ prog'[c][1].do \notin {"fill", "set", "find", "debit"}
              /\ prog'[c][1].do = "credit" => /\ do = "fill" /\ prog'[c][1].path = First(c).path
                                              /\ prog'[c][1].entry.size = SizeOf[First(c).data]
              /\ prog'[c][1].do = "drop" => do = "debit" /\ prog'[c][1] = prog[c][2]
<1>1. prog[c] \in Seq(Steps) /\ prog[c] # <<>> /\ First(c).do = do /\ prog[c][1] = First(c)
  BY FirstStep DEF First
<1>2. /\ \A d \in Procs \ {c} : prog'[d] = prog[d]
      /\ \A i \in 1..Len(prog'[c]) : \E j \in 2..Len(prog[c]) : prog'[c][i] = prog[c][j]
      /\ \A j \in 2..Len(prog[c]) : \E i \in 1..Len(prog'[c]) : prog'[c][i] = prog[c][j]
      /\ prog'[c] # <<>> => 2 \in 1..Len(prog[c]) /\ prog'[c][1] = prog[c][2]
  <2> DEFINE t == <<>>
  <2>1. t \in Seq(Steps) /\ t = <<>> /\ Len(t) = 0 /\ 1..Len(t) = {} /\ Continue(c, t)
    OBVIOUS
  <2> HIDE DEF t
  <2>s. t \in Seq(Steps) /\ Continue(c, t) /\ prog[c] # <<>>
    BY <1>1, <2>1
  <2>a. \A d \in Procs \ {c} : prog'[d] = prog[d]
    BY <2>s, Goes
  <2>b. prog'[c] # <<>> => 2 \in 1..Len(prog[c]) /\ prog'[c][1] = prog[c][2]
    BY <2>1, <2>s, Goes
  <2>c. \A i \in 1..Len(prog'[c]) :
          \/ \E j \in 1..Len(t) : prog'[c][i] = t[j]
          \/ \E j \in 2..Len(prog[c]) : prog'[c][i] = prog[c][j]
    BY <2>s, Goes
  <2>2. \A i \in 1..Len(prog'[c]) : \E j \in 2..Len(prog[c]) : prog'[c][i] = prog[c][j]
    BY <2>1, <2>c
  <2>3. \A j \in 2..Len(prog[c]) : \E i \in 1..Len(prog'[c]) : prog'[c][i] = prog[c][j]
    BY <2>s, GoesKeeps
  <2> QED  BY <2>2, <2>3, <2>a, <2>b
<1>3. CASE 2 \in 1..Len(prog[c])
  <2> DEFINE s == prog[c]
  <2>1. WellFormed(s)
    BY DEF InOrder
  <2> HIDE DEF s
  <2>s. s = prog[c]
    BY DEF s
  <2>2. Fills(s, 2) /\ Credits(s, 2) /\ AtFront(s, 2) /\ 2 - 1 = 1
    BY <1>3, <2>1, <2>s DEF WellFormed
  <2>3. /\ s[2].do \notin {"fill", "set", "find", "debit"}
        /\ s[2].do = "credit" => /\ do = "fill" /\ s[2].path = First(c).path
                                 /\ s[2].entry.size = SizeOf[First(c).data]
        /\ s[2].do = "drop" => do = "debit"
    BY <1>1, <2>2, <2>s DEF Fills, Credits, AtFront
  <2> QED  BY <1>2, <2>3, <2>s
<1> QED  BY <1>2, <1>3

\* How a call comes to the steps that write and delete.
LEMMA HeadAfter ==
  ASSUME TypeOK, InOrder, NEW c \in Procs, ProcStep(c)
  PROVE  /\ prog[c] # <<>> /\ \A d \in Procs \ {c} : prog'[d] = prog[d]
         /\ prog'[c] # <<>> =>
              LET x == First(c)
                  y == prog'[c][1]
              IN  /\ y.do = "fill" => Open(c) /\ y.path = x.path /\ y.gen = file[x.path].gen
                  /\ y.do = "credit" =>
                       \/ Fill(c) /\ y.path = x.path /\ y.entry.size = SizeOf[x.data]
                       \/ /\ Hit(c) \/ Expire(c)
                          /\ y.path = x.path
                          /\ entry[y.path] # None /\ y.entry.size = entry[y.path].size
                  /\ y.do = "set" => /\ Credit(c) /\ y.path = x.path /\ y.entry.size = x.entry.size
                                     /\ currentSize' = currentSize + y.entry.size
                  /\ y.do = "debit" => /\ Find(c) /\ prog'[c][2].do = "drop"
                                       /\ prog'[c][2].path = x.path /\ entry[x.path] # None
                                       /\ y.size = entry[x.path].size
                  /\ y.do = "drop" => \/ Find(c) /\ y.path = x.path /\ entry[x.path] = None
                                      \/ Debit(c) /\ y = prog[c][2]
<1> DEFINE x == First(c)
           y == prog'[c][1]
           Goal == /\ y.do = "fill" => Open(c) /\ y.path = x.path /\ y.gen = file[x.path].gen
                   /\ y.do = "credit" =>
                       \/ Fill(c) /\ y.path = x.path /\ y.entry.size = SizeOf[x.data]
                       \/ /\ Hit(c) \/ Expire(c)
                          /\ y.path = x.path
                          /\ entry[y.path] # None /\ y.entry.size = entry[y.path].size
                   /\ y.do = "set" => /\ Credit(c) /\ y.path = x.path /\ y.entry.size = x.entry.size
                                      /\ currentSize' = currentSize + y.entry.size
                   /\ y.do = "debit" => /\ Find(c) /\ prog'[c][2].do = "drop"
                                        /\ prog'[c][2].path = x.path /\ entry[x.path] # None
                                        /\ y.size = entry[x.path].size
                   /\ y.do = "drop" => \/ Find(c) /\ y.path = x.path /\ entry[x.path] = None
                                       \/ Debit(c) /\ y = prog[c][2]
           Same == prog[c] # <<>> /\ \A d \in Procs \ {c} : prog'[d] = prog[d]
<1> SUFFICES Same /\ (prog'[c] # <<>> => Goal)
  OBVIOUS
\* a step that only goes on
<1>1. ASSUME NEW do, Step(c, do), do \notin {"open", "fill", "debit"}, Continue(c, <<>>)
      PROVE  Same /\ (prog'[c] # <<>> => Goal)
  <2>1. prog[c] # <<>> /\ \A d \in Procs \ {c} : prog'[d] = prog[d]
    BY <1>1, FirstStep, GoesOn
  <2>2. prog'[c] # <<>> => y.do \notin {"fill", "credit", "set", "debit", "drop"}
    BY <1>1, GoesOn
  <2> HIDE DEF x, y
  <2> QED  BY <2>1, <2>2
\* a step that leads to a lookup, a listing or a deleting loop
<1>2. ASSUME NEW z \in Steps, z.do \notin {"fill", "credit", "set", "debit", "drop"},
             prog[c] # <<>>, Continue(c, <<z>>)
      PROVE  Same /\ (prog'[c] # <<>> => Goal)
  <2>1. y = z /\ \A d \in Procs \ {c} : prog'[d] = prog[d]
    BY <1>2, GoesTo
  <2> HIDE DEF x, y
  <2> QED  BY <1>2, <2>1
<1>3. CASE Open(c)
  <2>1. Same
    BY <1>3, FirstStep, OpenGoes DEF Open
  <2>2. /\ prog[c][2] \in Steps /\ prog[c][2].do = "fill" /\ prog[c][2].path = x.path
        /\ y = [prog[c][2] EXCEPT !.gen = file[x.path].gen]
    <3>1. Len(prog[c]) >= 2 /\ prog[c] \in Seq(Steps)
      BY <1>3, OpenGoes DEF TypeOK
    <3>2. prog[c][2] \in Steps
      BY <3>1
    <3> QED  BY <1>3, <3>2, OpenGoes
  <2>3. y.do = "fill" /\ y.path = x.path /\ y.gen = file[x.path].gen
    <3>1. prog[c][2] \in [do : {"fill"}, path : Paths, data : Data, gen : Nat]
      BY <2>2 DEF Steps
    <3> HIDE DEF x, y
    <3> QED  BY <2>2, <3>1
  <2> HIDE DEF x, y
  <2> QED  BY <1>3, <2>1, <2>3
<1>4. CASE Fill(c)
  <2>1. /\ prog[c] # <<>> /\ \A d \in Procs \ {c} : prog'[d] = prog[d]
        /\ prog'[c] # <<>> => /\ y.do \notin {"fill", "set", "find", "debit", "drop"}
                              /\ y.do = "credit" => y.path = x.path /\ y.entry.size = SizeOf[x.data]
    BY <1>4, FirstStep, GoesOn DEF Fill
  <2> HIDE DEF x, y
  <2> QED  BY <1>4, <2>1
<1>5. CASE Abort(c) /\ prog[c] # <<>>
  BY <1>5, StepAborts
<1>6. CASE Read(c) \/ SetEntry(c) \/ Drop(c) \/ Persist(c)
  BY <1>1, <1>6 DEF Read, SetEntry, Drop, Persist
<1>7. CASE Check(c) \/ FillFails(c)
  <2>1. prog[c] # <<>>
    BY <1>7 DEF Check, FillFails, Step
  <2>2. Abort(c) \/ (Step(c, "check") /\ Continue(c, <<>>))
    BY <1>7 DEF Check, FillFails
  <2> HIDE DEF Same, Goal
  <2> QED  BY <1>1, <1>5, <2>1, <2>2
<1>8. CASE Debit(c)
  <2>1. /\ prog[c] # <<>> /\ \A d \in Procs \ {c} : prog'[d] = prog[d]
        /\ prog'[c] # <<>> => /\ y.do \notin {"fill", "set", "find", "debit", "credit"}
                              /\ y.do = "drop" => y = prog[c][2]
    BY <1>8, FirstStep, GoesOn DEF Debit
  <2> HIDE DEF x, y
  <2> QED  BY <1>8, <2>1
<1>9. CASE Evict(c)
  <2>1. prog[c] # <<>> /\ Step(c, "evict")
    BY <1>9, Evicts DEF Evict
  <2>2. CASE Continue(c, <<>>)
    BY <1>1, <2>1, <2>2
  <2>3. ASSUME NEW p \in Paths, NEW z \in Steps, z.do = "evict",
               \/ Continue(c, <<z>>)
               \/ Continue(c, <<[do |-> "find", path |-> p]>> \o <<z>>)
        PROVE  Same /\ (prog'[c] # <<>> => Goal)
    <3> DEFINE find == [do |-> "find", path |-> p]
    <3>1. find \in Steps /\ find.do = "find"
      BY DEF Steps
    <3>2. CASE Continue(c, <<z>>)
      BY <1>2, <2>1, <2>3, <3>2
    <3>3. CASE Continue(c, <<find>> \o <<z>>)
      <4> HIDE DEF find
      <4>1. y = find /\ \A d \in Procs \ {c} : prog'[d] = prog[d]
        BY <2>1, <3>1, <3>3, GoesToTwo
      <4> HIDE DEF x, y
      <4> QED  BY <2>1, <3>1, <4>1
    <3> QED  BY <2>3, <3>2, <3>3
  <2> HIDE DEF Same, Goal
  <2> QED  BY <1>9, <2>2, <2>3, Evicts
<1>10. CASE Credit(c)
  <2>1. PICK z \in Steps : /\ z.do = "set" /\ z.path = x.path /\ z.entry.size = x.entry.size
                           /\ currentSize' = currentSize + z.entry.size /\ Continue(c, <<z>>)
    BY <1>10, CreditSets
  <2>2. prog[c] # <<>>
    BY <1>10 DEF Credit, Step
  <2>3. y = z /\ \A d \in Procs \ {c} : prog'[d] = prog[d]
    BY <2>1, <2>2, GoesTo
  <2> HIDE DEF x, y
  <2> QED  BY <1>10, <2>1, <2>2, <2>3
<1>11. CASE Hit(c) \/ Expire(c)
  <2>1. prog[c] # <<>> /\ Step(c, x.do) /\ x.do \in {"hit", "expire"}
    BY <1>11, WritesBack DEF Step
  <2>2. CASE Continue(c, <<>>)
    BY <1>1, <2>1, <2>2
  <2>3. ASSUME NEW z \in Steps, z.do = "credit", z.path = x.path,
               entry[z.path] # None, z.entry.size = entry[z.path].size, Continue(c, <<z>>)
        PROVE  Same /\ (prog'[c] # <<>> => Goal)
    <3>1. y = z /\ \A d \in Procs \ {c} : prog'[d] = prog[d]
      BY <2>1, <2>3, GoesTo
    <3> HIDE DEF x, y
    <3> QED  BY <1>11, <2>1, <2>3, <3>1
  <2> HIDE DEF Same, Goal
  <2> QED  BY <1>11, <2>2, <2>3, WritesBack
<1>12. CASE Find(c)
  <2>1. PICK z \in Steps :
          /\ z.do = "drop" /\ z.path = x.path
          /\ \/ entry[z.path] = None /\ Continue(c, <<z>>)
             \/ \E w \in Steps : /\ w.do = "debit" /\ entry[z.path] # None
                                 /\ w.size = entry[z.path].size /\ Continue(c, <<w>> \o <<z>>)
    BY <1>12, FindDrops
  <2>2. prog[c] # <<>>
    BY <1>12 DEF Find, Step
  <2>3. CASE entry[z.path] = None /\ Continue(c, <<z>>)
    <3>1. y = z /\ \A d \in Procs \ {c} : prog'[d] = prog[d]
      BY <2>2, <2>3, GoesTo
    <3> HIDE DEF x, y
    <3> QED  BY <1>12, <2>1, <2>2, <2>3, <3>1
  <2>4. ASSUME NEW w \in Steps, w.do = "debit", entry[z.path] # None,
               w.size = entry[z.path].size, Continue(c, <<w>> \o <<z>>)
        PROVE  Same /\ (prog'[c] # <<>> => Goal)
    <3>1. y = w /\ prog'[c][2] = z /\ \A d \in Procs \ {c} : prog'[d] = prog[d]
      BY <2>2, <2>4, GoesToTwo
    <3> HIDE DEF x, y
    <3> QED  BY <1>12, <2>1, <2>2, <2>4, <3>1
  <2> HIDE DEF Same, Goal
  <2> QED  BY <2>1, <2>3, <2>4
<1>13. CASE Locate(c)
  <2>1. prog[c] # <<>> /\ Step(c, "locate")
    BY <1>13 DEF Locate, Step
  <2>2. Continue(c, <<>>) \/ \E z \in Steps : z.do = "evict" /\ Continue(c, <<z>>)
    BY <1>13, LocateDeletes
  <2> HIDE DEF Same, Goal
  <2> QED  BY <1>1, <1>2, <2>1, <2>2
<1>14. CASE Room(c) \/ Overfull(c)
  <2>1. prog[c] # <<>> /\ Step(c, x.do) /\ x.do \in {"room", "overfull"}
    BY <1>14, PrunesOrNot DEF Step
  <2>2. Continue(c, <<>>) \/ \E z \in Steps : z.do = "pick" /\ Continue(c, <<z>>)
    BY <1>14, PrunesOrNot
  <2> HIDE DEF Same, Goal
  <2> QED  BY <1>1, <1>2, <2>1, <2>2
<1>15. CASE List(c)
  <2>1. prog[c] # <<>>
    BY <1>15 DEF List, Step
  <2>2. \E z \in Steps : z.do = "evict" /\ Continue(c, <<z>>)
    BY <1>15, ListEvicts
  <2> HIDE DEF Same, Goal
  <2> QED  BY <1>2, <2>1, <2>2
<1> HIDE DEF Same, Goal
<1> QED
  BY <1>3, <1>4, <1>6, <1>7, <1>8, <1>9, <1>10, <1>11, <1>12, <1>13, <1>14, <1>15
  DEF ProcStep, FileStep, EntryStep, SizeStep

-----------------------------------------------------------------------------
(* A file before its entry.                                                 *)

\* Which steps touch the files and the entries.
LEMMA Touches ==
  ASSUME TypeOK, [Next]_vars
  PROVE  /\ UNCHANGED disk
         /\ file' = file \/ \E c \in Procs : Open(c) \/ Fill(c) \/ Evict(c)
         /\ entry' = entry \/ \E c \in Procs : SetEntry(c) \/ Drop(c)
<1>1. ASSUME NEW c \in Procs, Begins(c) \/ Return(c)
      PROVE  UNCHANGED <<disk, file, entry>>
  BY <1>1 DEF Begins, Return
<1>2. ASSUME NEW c \in Procs, FileStep(c)
      PROVE  UNCHANGED <<disk, entry>> /\ (file' = file \/ Open(c) \/ Fill(c) \/ Evict(c))
  BY <1>2 DEF FileStep, Open, Fill, FillFails, Read, Evict
<1>3. ASSUME NEW c \in Procs, EntryStep(c)
      PROVE  UNCHANGED <<disk, file>> /\ (entry' = entry \/ SetEntry(c) \/ Drop(c))
  <2>1. CASE Credit(c) \/ SetEntry(c) \/ Find(c)
    BY <2>1 DEF Credit, SetEntry, Find
  <2>2. CASE Debit(c) \/ Drop(c) \/ Check(c)
    BY <2>2 DEF Debit, Drop, Check
  <2>3. CASE Hit(c) \/ Expire(c) \/ Locate(c)
    BY <2>3 DEF Hit, Expire, Locate
  <2> QED  BY <1>3, <2>1, <2>2, <2>3 DEF EntryStep
<1>4. ASSUME NEW c \in Procs, SizeStep(c) PROVE UNCHANGED <<disk, file, entry>>
  BY <1>4 DEF SizeStep, Room, Overfull, List, Persist
<1>5. Restart \/ Crash \/ UNCHANGED vars => UNCHANGED <<disk, file, entry>>
  BY DEF Restart, Crash, vars
<1> QED  BY <1>1, <1>2, <1>3, <1>4, <1>5, StepCases DEF ProcStep

\* While nothing is removed, a file stays.
LEMMA FilesKept ==
  ASSUME TypeOK, [Next]_vars, NothingRemoved'
  PROVE  NothingRemoved /\ \A p \in Paths : ~Absent(p) => file'[p].content # "absent"
<1>1. CASE UNCHANGED file
  BY <1>1 DEF NothingRemoved, Absent
<1>2. ASSUME NEW c \in Procs, Open(c)
      PROVE  NothingRemoved /\ \A p \in Paths : ~Absent(p) => file'[p].content # "absent"
  <2>1. file' = [file EXCEPT ![Arg(c).path].content = "empty"]
    BY <1>2 DEF Open
  <2>2. \A p \in Paths : file'[p].gen = file[p].gen
    BY <2>1 DEF TypeOK
  <2>3. \A p \in Paths : file'[p] = file[p] \/ file'[p].content = "empty"
    BY <2>1 DEF TypeOK
  <2> QED  BY <2>2, <2>3 DEF NothingRemoved, Absent
<1>3. ASSUME NEW c \in Procs, Fill(c)
      PROVE  NothingRemoved /\ \A p \in Paths : ~Absent(p) => file'[p].content # "absent"
  <2>1. First(c) \in Steps /\ First(c) = Arg(c) /\ First(c).do = "fill"
    BY <1>3, FirstStep DEF Fill
  <2>2. Arg(c).path \in Paths /\ Arg(c).data \in Data
    BY <2>1, StepTypes
  <2>3. PICK v \in Data \cup {"mixed"} :
          file' = file \/ file' = [file EXCEPT ![Arg(c).path].content = v]
    BY <1>3, <2>2 DEF Fill
  <2>4. v # "absent"
    BY ConstantsAssumption
  <2>5. \A p \in Paths : file'[p].gen = file[p].gen
    <3>1. CASE file' = [file EXCEPT ![Arg(c).path].content = v]
      BY <2>2, <3>1 DEF TypeOK
    <3> QED  BY <2>3, <3>1
  <2>6. \A p \in Paths : file'[p] = file[p] \/ file'[p].content = v
    <3>1. CASE file' = [file EXCEPT ![Arg(c).path].content = v]
      BY <2>2, <3>1 DEF TypeOK
    <3> QED  BY <2>3, <3>1
  <2> QED  BY <2>4, <2>5, <2>6 DEF NothingRemoved, Absent
<1>4. ASSUME NEW c \in Procs, Evict(c) PROVE UNCHANGED file
  <2>1. SUFFICES ASSUME NEW p \in Paths,
                        file' = [file EXCEPT ![p] = [gen |-> @.gen + 1, content |-> "absent"]]
                 PROVE  FALSE
    BY <1>4, Evicts
  <2>2. file'[p].gen = file[p].gen + 1 /\ file[p].gen \in Nat
    BY <2>1 DEF TypeOK
  <2> QED  BY <2>2 DEF NothingRemoved
<1> QED  BY <1>1, <1>2, <1>3, <1>4, Touches

FileInv == FileBeforeEntry /\ OpenedFirst

\* A file is there before it is filed.
LEMMA FileInvStep ==
  ASSUME TypeOK, InOrder, TypeOK', InOrder', FileInv, [Next]_vars
  PROVE  FileInv'
<1> SUFFICES ASSUME NothingRemoved'
             PROVE  /\ \A p \in Paths : entry'[p] # None => file'[p].content # "absent"
                    /\ \A c \in Procs : prog'[c] # <<>> /\ prog'[c][1].do \in {"fill", "credit", "set"}
                                          => file'[prog'[c][1].path].content # "absent"
  BY DEF FileInv, FileBeforeEntry, OpenedFirst, Present, Absent, First
<1>1. NothingRemoved /\ \A p \in Paths : ~Absent(p) => file'[p].content # "absent"
  BY FilesKept
<1>2. \A p \in Paths : entry[p] # None => ~Absent(p)
  BY <1>1 DEF FileInv, FileBeforeEntry, Present
<1>3. \A c \in Procs : prog[c] # <<>> /\ First(c).do \in {"fill", "credit", "set"}
                         => ~Absent(First(c).path)
  BY <1>1 DEF FileInv, OpenedFirst
<1>5. \A p \in Paths : entry'[p] # None => file'[p].content # "absent"
  <2>1. CASE UNCHANGED entry
    BY <1>1, <1>2, <2>1
  <2>2. ASSUME NEW c \in Procs, SetEntry(c), NEW p \in Paths, entry'[p] # None
        PROVE  file'[p].content # "absent"
    <3>1. prog[c] # <<>> /\ First(c).do = "set" /\ First(c) = Arg(c)
      BY <2>2, FirstStep DEF SetEntry
    <3>2. p = First(c).path \/ entry'[p] = entry[p]
      BY <2>2, <3>1 DEF SetEntry, TypeOK
    <3> QED  BY <1>1, <1>2, <1>3, <2>2, <3>1, <3>2
  <2>3. ASSUME NEW c \in Procs, Drop(c), NEW p \in Paths, entry'[p] # None
        PROVE  file'[p].content # "absent"
    <3>1. entry'[p] = entry[p]
      BY <2>3 DEF Drop, TypeOK
    <3> QED  BY <1>1, <1>2, <2>3, <3>1
  <2> QED  BY <2>1, <2>2, <2>3, Touches
<1>6. ASSUME NEW c \in Procs, prog'[c] # <<>>, prog'[c][1].do \in {"fill", "credit", "set"}
      PROVE  file'[prog'[c][1].path].content # "absent"
  <2> DEFINE y == prog'[c][1]
  <2>0. prog'[c] \in Seq(Steps)
    BY DEF TypeOK
  <2>1. y \in Steps
    BY <1>6, <2>0
  <2>2. y.path \in Paths
    BY <1>6, <2>1, StepTypes
  <2>3. CASE prog'[c] = prog[c]
    BY <1>1, <1>3, <1>6, <2>2, <2>3 DEF First
  <2>4. CASE ProcStep(c)
    <3>1. \/ Open(c) /\ y.path = First(c).path
          \/ First(c).do \in {"fill", "credit"} /\ prog[c] # <<>> /\ y.path = First(c).path
          \/ entry[y.path] # None
      <4>1. /\ Fill(c) => First(c).do = "fill" /\ prog[c] # <<>>
            /\ Credit(c) => First(c).do = "credit" /\ prog[c] # <<>>
        BY FirstStep DEF Fill, Credit
      <4>2. /\ y.do = "fill" => Open(c) /\ y.path = First(c).path
            /\ y.do = "credit" => \/ Fill(c) /\ y.path = First(c).path
                                  \/ entry[y.path] # None
            /\ y.do = "set" => Credit(c) /\ y.path = First(c).path
        BY <1>6, <2>4, HeadAfter
      <4> HIDE DEF y
      <4> QED  BY <1>6, <4>1, <4>2 DEF y
    <3>2. CASE Open(c) /\ y.path = First(c).path
      <4> DEFINE p == y.path
      <4>1. Arg(c) = First(c)
        BY <3>2, FirstStep DEF Open
      <4>2. p \in Paths /\ Arg(c).path = p
        BY <2>2, <3>2, <4>1
      <4> HIDE DEF p
      <4>3. file' = [file EXCEPT ![p].content = "empty"]
        BY <3>2, <4>2 DEF Open
      <4>4. file'[p].content = "empty"
        BY <4>2, <4>3 DEF TypeOK
      <4> QED  BY <4>4 DEF p
    <3> HIDE DEF y
    <3> QED  BY <1>1, <1>2, <1>3, <2>2, <3>1, <3>2 DEF y
  <2>5. ASSUME NEW d \in Procs, Begins(d) PROVE prog'[c] = prog[c]
    <3>1. PICK steps \in Seq(Steps) :
            /\ prog' = [prog EXCEPT ![d] = steps]
            /\ steps[1].do \in {"open", "check", "locate", "pick", "overfull"}
      BY <2>5 DEF Begins
    <3>2. c # d
      BY <1>6, <3>1 DEF TypeOK
    <3> QED  BY <3>1, <3>2 DEF TypeOK
  <2>6. ASSUME NEW d \in Procs, ProcStep(d), d # c PROVE prog'[c] = prog[c]
    BY <2>6, HeadAfter
  <2>7. ASSUME NEW d \in Procs, Return(d) PROVE prog'[c] = prog[c]
    BY <2>7 DEF Return
  <2>8. CASE Restart \/ UNCHANGED vars
    BY <2>3, <2>8 DEF Restart, vars
  <2>9. ~Crash
    BY <1>6 DEF Crash
  <2> QED  BY <2>3, <2>4, <2>5, <2>6, <2>7, <2>8, <2>9, StepCases
<1> QED  BY <1>5, <1>6

\* As long as nothing is removed, a path that has an entry has a file at every
\* moment, whatever Puts, Gets, disk errors and crashes happen: each call opens
\* the file before it saves the entry, and what it saves back it has just read.
THEOREM FilesComeFirst == Spec => []FileBeforeEntry
<1>1. Init => FileInv
  BY DEF Init, FileInv, FileBeforeEntry, OpenedFirst, Present
<1>2. TypeOK /\ InOrder /\ TypeOK' /\ InOrder' /\ FileInv /\ [Next]_vars => FileInv'
  BY FileInvStep
<1>3. FileInv => FileBeforeEntry
  BY DEF FileInv
<1> QED  BY <1>1, <1>2, <1>3, Structure, PTL DEF Spec

-----------------------------------------------------------------------------
(* The size before its entry.                                               *)

\* No call deletes what was not removed, unless Clear meets a failing disk.
ClearRemoves == "clear" \notin Ops \/ "failing" \notin Disks

\* A removal shows in the inode number.
LEMMA RemovalShows ==
  ASSUME TypeOK, NothingRemoved', NEW p \in Paths
  PROVE  file' # [file EXCEPT ![p] = [gen |-> @.gen + 1, content |-> "absent"]]
<1> SUFFICES ASSUME file' = [file EXCEPT ![p] = [gen |-> @.gen + 1, content |-> "absent"]]
             PROVE  FALSE
  OBVIOUS
<1>1. file'[p].gen = file[p].gen + 1 /\ file[p].gen \in Nat
  BY DEF TypeOK
<1> QED  BY <1>1 DEF NothingRemoved

\* What a call still has to do was to be done before, or is safe.
LEMMA StaysSafe ==
  ASSUME TypeOK, InOrder, FileInv, NothingDeleted, NothingRemoved, NothingRemoved',
         NEW c \in Procs, ProcStep(c), NEW i \in 1..Len(prog'[c])
  PROVE  ~Deletes(prog'[c][i])
<1> DEFINE Goal == ~Deletes(prog'[c][i])
<1> SUFFICES Goal
  OBVIOUS
<1>1. \A j \in 1..Len(prog[c]) : ~Deletes(prog[c][j])
  BY DEF NothingDeleted
<1>2. prog[c] \in Seq(Steps) /\ Len(prog[c]) \in Nat
  BY DEF TypeOK
<1>3. prog[c] # <<>> => First(c) = prog[c][1] /\ ~Deletes(First(c))
  <2>1. prog[c] # <<>> => 1 \in 1..Len(prog[c])
    BY <1>2
  <2> QED  BY <1>1, <2>1 DEF First
<1>4. \A p \in Paths : entry[p] # None => ~Absent(p)
  BY DEF FileInv, FileBeforeEntry, Present
<1>5. ASSUME NEW do, Step(c, do), do # "open", Continue(c, <<>>)
      PROVE  Goal
  <2>1. \E j \in 2..Len(prog[c]) : prog'[c][i] = prog[c][j]
    BY <1>5, GoesOn
  <2> QED  BY <1>1, <1>2, <2>1
<1>6. ASSUME NEW z \in Steps, ~Deletes(z), prog[c] # <<>>, Continue(c, <<z>>)
      PROVE  Goal
  <2>1. prog'[c][i] = z \/ \E j \in 2..Len(prog[c]) : prog'[c][i] = prog[c][j]
    BY <1>6, GoesTo
  <2> QED  BY <1>1, <1>2, <1>6, <2>1
<1>7. \A z \in Steps : z.do \notin {"find", "debit", "drop", "pick", "evict"} => ~Deletes(z)
  BY DEF Deletes
<1>8. \A z \in Steps :
        /\ z.do \in {"pick", "evict"}
        /\ "failed" \notin z.after \/ disk # "failing"
        /\ z.do = "evict" => \A j \in 1..Len(z.items) : ~Absent(z.items[j].path)
        => ~Deletes(z)
  BY DEF Deletes
<1>9. \A z \in Steps : z.do = "evict" => \A j \in 1..Len(z.items) : z.items[j].path \in Paths
  <2> SUFFICES ASSUME NEW z \in Steps, z.do = "evict", NEW j \in 1..Len(z.items)
               PROVE  z.items[j].path \in Paths
    OBVIOUS
  <2>1. z.items \in Seq(Item)
    BY StepTypes
  <2>2. z.items[j] \in Item
    BY <2>1
  <2> QED  BY <2>2 DEF Item
<1>10. CASE Open(c)
  <2>1. CASE i = 1
    <3>1. Len(prog[c]) >= 2 /\ prog[c][2].do = "fill"
          /\ prog'[c][1] = [prog[c][2] EXCEPT !.gen = file[First(c).path].gen]
      BY <1>10, OpenGoes
    <3>2. prog[c][2] \in Steps
      BY <1>2, <3>1
    <3>3. prog[c][2] \in [do : {"fill"}, path : Paths, data : Data, gen : Nat]
      BY <3>1, <3>2 DEF Steps
    <3>4. prog'[c][1].do = "fill"
      BY <3>1, <3>3
    <3> QED  BY <2>1, <3>4 DEF Deletes
  <2>2. CASE i # 1
    <3>1. Len(prog'[c]) = Len(prog[c]) - 1
          /\ \A j \in 2..Len(prog'[c]) : prog'[c][j] = prog[c][j + 1]
      BY <1>10, OpenGoes
    <3>2. i \in 2..Len(prog'[c]) /\ i + 1 \in 1..Len(prog[c])
      BY <1>2, <2>2, <3>1
    <3> QED  BY <1>1, <3>1, <3>2
  <2> QED  BY <2>1, <2>2
<1>11. CASE FillFails(c)
  BY <1>11, StepAborts DEF FillFails
<1>12. CASE Fill(c) \/ Read(c) \/ SetEntry(c) \/ Debit(c) \/ Drop(c) \/ Persist(c)
  BY <1>5, <1>12 DEF Fill, Read, SetEntry, Debit, Drop, Persist
<1>13. CASE Check(c)
  <2>1. Abort(c) \/ (Step(c, "check") /\ Continue(c, <<>>))
    BY <1>13 DEF Check
  <2>2. Abort(c) => Goal
    BY StepAborts
  <2> HIDE DEF Goal
  <2> QED  BY <1>5, <2>1, <2>2
<1>14. CASE Credit(c)
  <2>1. prog[c] # <<>>
    BY <1>14 DEF Credit, Step
  <2>2. PICK z \in Steps : z.do = "set" /\ Continue(c, <<z>>)
    BY <1>14, CreditSets
  <2> QED  BY <1>6, <1>7, <2>1, <2>2
<1>15. CASE Hit(c) \/ Expire(c)
  <2>1. prog[c] # <<>> /\ Step(c, First(c).do) /\ First(c).do \in {"hit", "expire"}
    BY <1>15, WritesBack DEF Step
  <2>2. Continue(c, <<>>) \/ \E z \in Steps : z.do = "credit" /\ Continue(c, <<z>>)
    BY <1>15, WritesBack
  <2> HIDE DEF Goal
  <2> QED  BY <1>5, <1>6, <1>7, <2>1, <2>2
<1>16. CASE Locate(c)
  <2>1. prog[c] # <<>> /\ Step(c, "locate")
    BY <1>16 DEF Locate, Step
  <2>2. \/ Continue(c, <<>>)
        \/ \E z \in Steps : /\ z.do = "evict" /\ z.after = {"removed", "missing"}
                            /\ \A j \in 1..Len(z.items) : entry[z.items[j].path] # None
                            /\ Continue(c, <<z>>)
    BY <1>16, LocateDeletes
  <2>3. ASSUME NEW z \in Steps, z.do = "evict", z.after = {"removed", "missing"},
               \A j \in 1..Len(z.items) : entry[z.items[j].path] # None
        PROVE  ~Deletes(z)
    BY <1>4, <1>8, <1>9, <2>3
  <2> HIDE DEF Goal
  <2> QED  BY <1>5, <1>6, <2>1, <2>2, <2>3
<1>17. CASE Room(c) \/ Overfull(c)
  <2>1. prog[c] # <<>> /\ Step(c, First(c).do) /\ First(c).do \in {"room", "overfull"}
    BY <1>17, PrunesOrNot DEF Step
  <2>2. Continue(c, <<>>)
        \/ \E z \in Steps : z.do = "pick" /\ "failed" \notin z.after /\ Continue(c, <<z>>)
    BY <1>17, PrunesOrNot
  <2> HIDE DEF Goal
  <2> QED  BY <1>5, <1>6, <1>8, <2>1, <2>2
<1>18. CASE List(c)
  <2>1. prog[c] # <<>> /\ First(c).do = "pick"
    BY <1>18, ListEvicts DEF List, Step
  <2>2. "failed" \notin First(c).after \/ disk # "failing"
    BY <1>3, <2>1 DEF Deletes
  <2>3. PICK z \in Steps : /\ z.do = "evict" /\ z.after = First(c).after
                           /\ \A j \in 1..Len(z.items) : entry[z.items[j].path] # None
                           /\ Continue(c, <<z>>)
    BY <1>18, ListEvicts
  <2>4. ~Deletes(z)
    BY <1>4, <1>8, <1>9, <2>2, <2>3
  <2> QED  BY <1>6, <2>1, <2>3, <2>4
<1>19. CASE Evict(c)
  <2>1. prog[c] # <<>> /\ First(c).do = "evict" /\ First(c) \in Steps /\ Step(c, "evict")
    BY <1>19, Evicts DEF Evict
  <2>2. /\ "failed" \notin First(c).after \/ disk # "failing"
        /\ \A j \in 1..Len(First(c).items) : ~Absent(First(c).items[j].path)
    BY <1>3, <2>1 DEF Deletes
  <2>3. ASSUME NEW p \in Paths, NEW z \in Steps, \E j \in 1..Len(First(c).items) : p = First(c).items[j].path,
               z.do = "evict", z.after = First(c).after,
               \A j \in 1..Len(z.items) : \E k \in 1..Len(First(c).items) : z.items[j] = First(c).items[k],
               NEW outcome \in RemoveOutcomes(p),
               file' = IF outcome # "removed" THEN file
                       ELSE [file EXCEPT ![p] = [gen |-> @.gen + 1, content |-> "absent"]],
               Continue(c, IF outcome \in First(c).after
                           THEN <<[do |-> "find", path |-> p]>> \o <<z>> ELSE <<z>>)
        PROVE  Goal
    <3>1. outcome = "failed" /\ disk = "failing"
      BY <2>2, <2>3, RemovalShows DEF RemoveOutcomes
    <3>2. Continue(c, <<z>>)
      BY <2>2, <2>3, <3>1
    <3>3. ~Deletes(z)
      BY <1>8, <2>2, <2>3
    <3> QED  BY <1>6, <2>1, <3>2, <3>3
  <2>4. CASE Continue(c, <<>>)
    BY <1>5, <2>1, <2>4
  <2> HIDE DEF Goal
  <2> QED  BY <1>19, <2>3, <2>4, Evicts
<1>20. CASE Find(c)
  <2>1. prog[c] # <<>> /\ First(c).do = "find"
    BY <1>20, FirstStep DEF Find
  <2> QED  BY <1>3, <2>1 DEF Deletes
<1> QED
  BY <1>10, <1>11, <1>12, <1>13, <1>14, <1>15, <1>16, <1>17, <1>18, <1>19, <1>20
  DEF ProcStep, FileStep, EntryStep, SizeStep

\* While nothing is removed nothing is deleted, if Clear removes what it deletes.
LEMMA DeletedStep ==
  ASSUME TypeOK, InOrder, FileInv, TypeOK', NothingDeleted, ClearRemoves, [Next]_vars
  PROVE  NothingDeleted'
<1> DEFINE Later(x) ==
      \/ x.do \in {"find", "debit", "drop"}
      \/ x.do \in {"pick", "evict"} /\ "failed" \in x.after /\ disk' = "failing"
      \/ x.do = "evict" /\ \E i \in 1..Len(x.items) : file'[x.items[i].path].content = "absent"
<1> SUFFICES ASSUME NothingRemoved', NEW c \in Procs, NEW i \in 1..Len(prog'[c])
             PROVE  ~Later(prog'[c][i])
  BY DEF NothingDeleted, Deletes, Absent
<1>1. NothingRemoved /\ \A p \in Paths : ~Absent(p) => file'[p].content # "absent"
  BY FilesKept
<1>2. \A x \in Steps : ~Deletes(x) => ~Later(x)
  <2> SUFFICES ASSUME NEW x \in Steps, Later(x) PROVE Deletes(x)
    OBVIOUS
  <2>1. disk' = disk
    BY Touches
  <2>2. ASSUME x.do = "evict", NEW j \in 1..Len(x.items), file'[x.items[j].path].content = "absent"
        PROVE  Absent(x.items[j].path)
    <3>1. x.items \in Seq(Item)
      BY <2>2, StepTypes
    <3>2. x.items[j] \in Item
      BY <3>1
    <3> QED  BY <1>1, <2>2, <3>2 DEF Item
  <2> QED  BY <2>1, <2>2 DEF Deletes
<1>3. prog'[c][i] \in Steps
  <2>1. prog'[c] \in Seq(Steps)
    BY DEF TypeOK
  <2> QED  BY <2>1
<1> HIDE DEF Later
<1>4. CASE prog'[c] = prog[c]
  BY <1>1, <1>2, <1>3, <1>4 DEF NothingDeleted
<1>5. CASE ProcStep(c)
  BY <1>1, <1>2, <1>3, <1>5, StaysSafe
<1>6. ASSUME NEW d \in Procs, ProcStep(d), d # c PROVE prog'[c] = prog[c]
  BY <1>6, HeadAfter
<1>7. ASSUME NEW d \in Procs, Begins(d) PROVE ~Later(prog'[c][i])
  <2>1. PICK steps \in Seq(Steps) :
          /\ prog' = [prog EXCEPT ![d] = steps]
          /\ \A j \in 1..Len(steps) :
               /\ steps[j].do \notin {"find", "debit", "drop", "set", "evict"}
               /\ steps[j].do = "pick" /\ "failed" \in steps[j].after => "clear" \in Ops
    BY <1>7 DEF Begins
  <2>2. CASE c # d
    BY <1>4, <2>1, <2>2 DEF TypeOK
  <2>3. CASE c = d
    <3>1. prog'[c] = steps
      BY <2>1, <2>3 DEF TypeOK
    <3>2. disk # "failing" \/ "clear" \notin Ops
      BY DEF ClearRemoves, TypeOK
    <3> QED  BY <1>2, <1>3, <2>1, <3>1, <3>2 DEF Deletes
  <2> QED  BY <2>2, <2>3
<1>8. ASSUME NEW d \in Procs, Return(d) PROVE prog'[c] = prog[c]
  BY <1>8 DEF Return
<1>9. Restart \/ UNCHANGED vars => prog'[c] = prog[c]
  BY DEF Restart, vars
<1>10. ~Crash
  BY DEF Crash
<1> QED  BY <1>4, <1>5, <1>6, <1>7, <1>8, <1>9, <1>10, StepCases

EntrySize(e) == IF e = None THEN 0 ELSE e.size
HeadSize(s) == IF s # <<>> /\ s[1].do = "set" THEN s[1].entry.size ELSE 0

\* The size of an entry, or of none.
LEMMA EntrySizeType == \A e \in Entry \cup {None} : EntrySize(e) \in Nat
BY ConstantsAssumption DEF EntrySize, Entry

\* The size that the first step is about to write.
LEMMA HeadSizeType == \A s \in Seq(Steps) : HeadSize(s) \in Nat
<1> SUFFICES ASSUME NEW s \in Seq(Steps) PROVE HeadSize(s) \in Nat
  OBVIOUS
<1>1. CASE s # <<>> /\ s[1].do = "set"
  <2>1. s[1] \in Steps
    BY <1>1
  <2>2. s[1].entry \in Entry
    BY <1>1, <2>1, StepTypes
  <2> QED  BY <1>1, <2>2 DEF HeadSize, Entry
<1> QED  BY <1>1 DEF HeadSize

\* A write or a deletion of one entry changes the total by that entry.
LEMMA TotalAfter ==
  ASSUME TypeOK, entry' \in [Paths -> Entry \cup {None}], NEW p \in Paths,
         \A q \in Paths \ {p} : entry'[q] = entry[q]
  PROVE  /\ Total \in Nat /\ Total' \in Nat
         /\ EntrySize(entry[p]) \in Nat /\ EntrySize(entry'[p]) \in Nat
         /\ EntrySize(entry[p]) <= Total
         /\ Total' = Total - EntrySize(entry[p]) + EntrySize(entry'[p])
<1> DEFINE f == [q \in Paths |-> EntrySize(entry[q])]
           g == [q \in Paths |-> EntrySize(entry'[q])]
<1>1. entry \in [Paths -> Entry \cup {None}] /\ IsFiniteSet(Paths)
  BY ConstantsAssumption DEF TypeOK
<1>2. f \in [Paths -> Nat] /\ g \in [Paths -> Nat]
  BY <1>1, EntrySizeType
<1>3. \A q \in Paths \ {p} : g[q] = f[q]
  OBVIOUS
<1>4. f[p] = EntrySize(entry[p]) /\ g[p] = EntrySize(entry'[p])
  OBVIOUS
<1>5. Total = SumOf(f) /\ Total' = SumOf(g)
  BY DEF Total, SizeAt, EntrySize, SumOf
<1> HIDE DEF f, g
<1>6. /\ SumOf(f) \in Nat /\ SumOf(g) \in Nat /\ f[p] <= SumOf(f)
      /\ SumOf(g) = SumOf(f) - f[p] + g[p]
  BY <1>1, <1>2, <1>3, SumChange
<1>7. f[p] \in Nat /\ g[p] \in Nat
  BY <1>2
<1> QED  BY <1>4, <1>5, <1>6, <1>7

\* A sum over the processes of which one changes.
LEMMA ProcsSum ==
  ASSUME NEW f \in [Procs -> Nat], NEW g \in [Procs -> Nat], NEW c \in Procs,
         \A d \in Procs \ {c} : g[d] = f[d]
  PROVE  /\ SumOf(f) \in Nat /\ SumOf(g) \in Nat /\ f[c] <= SumOf(f)
         /\ SumOf(g) = SumOf(f) - f[c] + g[c]
<1>1. IsFiniteSet(Procs)
  BY ConstantsAssumption, FS_AddElement DEF Procs
<1> QED  BY <1>1, SumChange

\* A step of one process changes what is owed by what that process owes.
LEMMA OwedAfter ==
  ASSUME TypeOK, prog' \in [Procs -> Seq(Steps)], NEW c \in Procs,
         \A d \in Procs \ {c} : prog'[d] = prog[d]
  PROVE  /\ Owed \in Nat /\ Owed' \in Nat
         /\ HeadSize(prog[c]) \in Nat /\ HeadSize(prog'[c]) \in Nat
         /\ Owed' = Owed - HeadSize(prog[c]) + HeadSize(prog'[c])
<1> DEFINE f == [d \in Procs |-> HeadSize(prog[d])]
           g == [d \in Procs |-> HeadSize(prog'[d])]
<1>1. prog \in [Procs -> Seq(Steps)]
  BY DEF TypeOK
<1>2. f \in [Procs -> Nat] /\ g \in [Procs -> Nat]
  BY <1>1, HeadSizeType
<1>3. \A d \in Procs \ {c} : g[d] = f[d]
  OBVIOUS
<1>4. f[c] = HeadSize(prog[c]) /\ g[c] = HeadSize(prog'[c])
  OBVIOUS
<1>5. Owed = SumOf(f) /\ Owed' = SumOf(g)
  BY DEF Owed, Owes, First, HeadSize, SumOf
<1> HIDE DEF f, g
<1>7. /\ SumOf(f) \in Nat /\ SumOf(g) \in Nat /\ f[c] <= SumOf(f)
      /\ SumOf(g) = SumOf(f) - f[c] + g[c]
  BY <1>2, <1>3, ProcsSum
<1>8. f[c] \in Nat /\ g[c] \in Nat
  BY <1>2
<1> QED  BY <1>4, <1>5, <1>7, <1>8

\* Both sums are sizes.
LEMMA SumTypes == TypeOK => Total \in Nat /\ Owed \in Nat
<1> SUFFICES ASSUME TypeOK PROVE Total \in Nat /\ Owed \in Nat
  OBVIOUS
<1>1. Total \in Nat
  <2>1. CASE Paths = {}
    <3>1. [p \in Paths |-> SizeAt(p)] \in [Paths -> {0}]
      BY <2>1
    <3> QED  BY <3>1, SumZero DEF Total
  <2>2. ASSUME NEW p \in Paths PROVE Total \in Nat
    <3>1. IsFiniteSet(Paths) /\ [q \in Paths |-> SizeAt(q)] \in [Paths -> Nat]
      BY ConstantsAssumption DEF TypeOK, SizeAt, Entry
    <3> QED  BY <3>1, SumSplit DEF Total
  <2> QED  BY <2>1, <2>2
<1>2. Owed \in Nat
  <2>1. IsFiniteSet(Procs) /\ Keeper \in Procs
    BY ConstantsAssumption, FS_AddElement DEF Procs
  <2>2. [c \in Procs |-> Owes(c)] \in [Procs -> Nat]
    <3>1. \A c \in Procs : Owes(c) = HeadSize(prog[c])
      BY DEF Owes, First, HeadSize
    <3> QED  BY <3>1, HeadSizeType DEF TypeOK
  <2> QED  BY <2>1, <2>2, SumSplit DEF Owed
<1> QED  BY <1>1, <1>2

\* Which steps touch the size, besides a crash.
LEMMA SizeTouches ==
  ASSUME TypeOK, [Next]_vars
  PROVE  \/ currentSize' = currentSize /\ UNCHANGED crashes
         \/ (\E c \in Procs : Credit(c) \/ Debit(c)) /\ UNCHANGED crashes
         \/ Crash
<1>1. ASSUME NEW c \in Procs, Begins(c) \/ Return(c)
      PROVE  UNCHANGED <<currentSize, crashes>>
  BY <1>1 DEF Begins, Return, mem, budget
<1>2. ASSUME NEW c \in Procs, FileStep(c) PROVE UNCHANGED <<currentSize, crashes>>
  BY <1>2 DEF FileStep, Open, Fill, FillFails, Read, Evict, mem, budget
<1>3. ASSUME NEW c \in Procs, EntryStep(c)
      PROVE  UNCHANGED crashes /\ (currentSize' = currentSize \/ Credit(c) \/ Debit(c))
  <2>1. CASE Credit(c) \/ SetEntry(c) \/ Find(c)
    BY <2>1 DEF Credit, SetEntry, Find, mem, budget
  <2>2. CASE Debit(c) \/ Drop(c) \/ Check(c)
    BY <2>2 DEF Debit, Drop, Check, mem, budget
  <2>3. CASE Hit(c) \/ Expire(c) \/ Locate(c)
    BY <2>3 DEF Hit, Expire, Locate, mem, budget
  <2> QED  BY <1>3, <2>1, <2>2, <2>3 DEF EntryStep
<1>4. ASSUME NEW c \in Procs, SizeStep(c) PROVE UNCHANGED <<currentSize, crashes>>
  BY <1>4 DEF SizeStep, Room, Overfull, List, Persist, mem, budget
<1>5. Restart => UNCHANGED <<currentSize, crashes>>
  BY DEF Restart, SaveCacheState, LoadCacheState
<1>6. UNCHANGED vars => UNCHANGED <<currentSize, crashes>>
  BY DEF vars, mem, budget
<1> QED  BY <1>1, <1>2, <1>3, <1>4, <1>5, <1>6, StepCases DEF ProcStep

\* The size covers the entries and what is still to be written of it.
LEMMA OwedStep ==
  ASSUME TypeOK, InOrder, TypeOK', FileInv, NothingDeleted, SizeCoversOwed, [Next]_vars
  PROVE  SizeCoversOwed'
<1> SUFFICES ASSUME NothingRemoved', crashes' = 0 PROVE Total' + Owed' <= currentSize'
  BY DEF SizeCoversOwed
<1>1. NothingRemoved
  BY FilesKept
<1>2. ~Crash
  BY DEF Crash, TypeOK
<1>3. Total + Owed <= currentSize
  BY <1>1, <1>2, SizeTouches DEF SizeCoversOwed
<1>4. currentSize \in Nat /\ currentSize' \in Nat /\ prog' \in [Procs -> Seq(Steps)]
      /\ entry' \in [Paths -> Entry \cup {None}]
  BY DEF TypeOK
<1>5. \A c \in Procs : prog[c] # <<>> => First(c).do \notin {"find", "debit", "drop"}
  <2> SUFFICES ASSUME NEW c \in Procs, prog[c] # <<>>
               PROVE  First(c).do \notin {"find", "debit", "drop"}
    OBVIOUS
  <2>1. 1 \in 1..Len(prog[c])
    BY DEF TypeOK
  <2>2. ~Deletes(prog[c][1])
    BY <1>1, <2>1 DEF NothingDeleted
  <2> QED  BY <2>2 DEF Deletes, First
<1>6. \A c \in Procs : ~Find(c) /\ ~Debit(c) /\ ~Drop(c)
  <2>1. \A c \in Procs : (Find(c) \/ Debit(c) \/ Drop(c)) =>
                           prog[c] # <<>> /\ First(c).do \in {"find", "debit", "drop"}
    BY FirstStep DEF Find, Debit, Drop
  <2> QED  BY <1>5, <2>1
<1>7. Total \in Nat /\ (UNCHANGED entry => Total' = Total)
  BY SumTypes DEF Total, SizeAt, SumOf
<1>8. ASSUME NEW c \in Procs, ProcStep(c) PROVE Total' + Owed' <= currentSize'
  <2>1. prog[c] # <<>> /\ \A d \in Procs \ {c} : prog'[d] = prog[d]
    BY <1>8, HeadAfter
  <2>2. /\ Owed \in Nat /\ Owed' \in Nat /\ HeadSize(prog[c]) \in Nat /\ HeadSize(prog'[c]) \in Nat
        /\ Owed' = Owed - HeadSize(prog[c]) + HeadSize(prog'[c])
    BY <1>4, <2>1, OwedAfter
  <2>3. CASE Credit(c)
    <3>1. UNCHANGED entry
      BY <2>3 DEF Credit
    <3>2. PICK x \in Steps : /\ x.do = "set" /\ currentSize' = currentSize + x.entry.size
                             /\ Continue(c, <<x>>)
      BY <2>3, CreditSets
    <3>3. prog'[c] # <<>> /\ prog'[c][1] = x
      BY <2>1, <3>2, GoesTo
    <3>4. HeadSize(prog'[c]) = x.entry.size
      BY <3>2, <3>3 DEF HeadSize
    <3>5. currentSize' = currentSize + HeadSize(prog'[c]) /\ Total' = Total
      BY <1>7, <3>1, <3>2, <3>4
    <3> QED  BY <1>3, <1>4, <1>7, <2>2, <3>5
  <2>4. ~Credit(c) => currentSize' = currentSize
    <3>1. ASSUME FileStep(c) PROVE currentSize' = currentSize
      BY <3>1 DEF FileStep, Open, Fill, FillFails, Read, Evict, mem
    <3>2. ASSUME SizeStep(c) PROVE currentSize' = currentSize
      BY <3>2 DEF SizeStep, Room, Overfull, List, Persist, mem
    <3>3. ASSUME Check(c) \/ Hit(c) \/ Expire(c) \/ Locate(c) \/ SetEntry(c) PROVE currentSize' = currentSize
      BY <3>3 DEF Check, Hit, Expire, Locate, SetEntry, mem
    <3> QED  BY <1>6, <1>8, <3>1, <3>2, <3>3 DEF ProcStep, EntryStep
  <2>5. ~Credit(c) => HeadSize(prog'[c]) = 0
    BY <1>8, HeadAfter DEF HeadSize
  <2>6. CASE SetEntry(c)
    <3>1. First(c).do = "set" /\ First(c) = Arg(c) /\ First(c) \in Steps
      BY <2>6, FirstStep DEF SetEntry
    <3>2. Arg(c).path \in Paths /\ Arg(c).entry \in Entry
      BY <3>1, StepTypes
    <3>3. entry' = [entry EXCEPT ![Arg(c).path] = Arg(c).entry] /\ currentSize' = currentSize
      BY <2>6 DEF SetEntry, mem
    <3>4. entry'[Arg(c).path] = Arg(c).entry /\ \A q \in Paths \ {Arg(c).path} : entry'[q] = entry[q]
      BY <3>2, <3>3 DEF TypeOK
    <3>5. HeadSize(prog[c]) = Arg(c).entry.size
      BY <2>1, <3>1 DEF HeadSize, First
    <3>6. EntrySize(entry'[Arg(c).path]) = Arg(c).entry.size
      BY <3>2, <3>4, ConstantsAssumption DEF EntrySize
    <3>7. /\ Total \in Nat /\ Total' \in Nat
          /\ EntrySize(entry[Arg(c).path]) \in Nat /\ EntrySize(entry'[Arg(c).path]) \in Nat
          /\ Total' = Total - EntrySize(entry[Arg(c).path]) + EntrySize(entry'[Arg(c).path])
      BY <1>4, <3>2, <3>4, TotalAfter
    <3>8. ~Credit(c)
      <4>1. Credit(c) => First(c).do = "credit"
        BY FirstStep DEF Credit
      <4> QED  BY <3>1, <4>1
    <3>9. HeadSize(prog'[c]) = 0
      BY <2>5, <3>8
    <3> HIDE DEF HeadSize, EntrySize
    <3>10. Total' + Owed' <= Total + Owed
      <4> DEFINE a == EntrySize(entry[Arg(c).path])
                 b == HeadSize(prog[c])
      <4>1. a \in Nat /\ Total' = Total - a + b
        BY <3>5, <3>6, <3>7
      <4>2. b \in Nat /\ Owed' = Owed - b
        BY <2>2, <3>9
      <4> HIDE DEF a, b
      <4> QED  BY <2>2, <3>7, <4>1, <4>2
    <3>11. currentSize' = currentSize
      BY <3>3
    <3>12. Total + Owed \in Nat /\ Total' + Owed' \in Nat /\ currentSize \in Nat
      <4>1. Total + Owed \in Nat /\ Total' + Owed' \in Nat
        BY <2>2, <3>7
      <4>2. currentSize \in Nat
        BY <1>4
      <4> QED  BY <4>1, <4>2
    <3>13. Total' + Owed' <= currentSize
      BY <1>3, <3>10, <3>12
    <3> QED  BY <3>11, <3>13
  <2>7. CASE ~Credit(c) /\ ~SetEntry(c)
    <3>1. UNCHANGED entry
      <4>1. ASSUME FileStep(c) PROVE UNCHANGED entry
        BY <4>1 DEF FileStep, Open, Fill, FillFails, Read, Evict
      <4>2. ASSUME SizeStep(c) PROVE UNCHANGED entry
        BY <4>2 DEF SizeStep, Room, Overfull, List, Persist
      <4>3. ASSUME Check(c) \/ Hit(c) \/ Expire(c) \/ Locate(c) PROVE UNCHANGED entry
        BY <4>3 DEF Check, Hit, Expire, Locate
      <4> QED  BY <1>6, <1>8, <2>7, <4>1, <4>2, <4>3 DEF ProcStep, EntryStep
    <3> QED  BY <1>3, <1>4, <1>7, <2>2, <2>4, <2>5, <2>7, <3>1
  <2> QED  BY <2>3, <2>6, <2>7
<1>9. ASSUME NEW c \in Procs, Begins(c) PROVE Total' + Owed' <= currentSize'
  <2>1. UNCHANGED <<entry, currentSize>>
    BY <1>9 DEF Begins, mem
  <2>2. PICK steps \in Seq(Steps) :
          /\ prog' = [prog EXCEPT ![c] = steps]
          /\ steps[1].do \in {"open", "check", "locate", "pick", "overfull"}
    BY <1>9 DEF Begins
  <2>3. prog'[c] = steps /\ \A d \in Procs \ {c} : prog'[d] = prog[d]
    BY <2>2 DEF TypeOK
  <2>4. HeadSize(prog'[c]) = 0
    BY <2>2, <2>3 DEF HeadSize
  <2>5. /\ Owed \in Nat /\ Owed' \in Nat /\ HeadSize(prog[c]) \in Nat
        /\ Owed' = Owed - HeadSize(prog[c]) + HeadSize(prog'[c])
    BY <1>4, <2>3, OwedAfter
  <2> QED  BY <1>3, <1>4, <1>7, <2>1, <2>4, <2>5
<1>10. ASSUME UNCHANGED <<prog, entry, currentSize>> PROVE Total' + Owed' <= currentSize'
  <2>1. Owed' = Owed
    BY <1>10 DEF Owed, Owes, First, SumOf
  <2> QED  BY <1>3, <1>7, <1>10, <2>1
<1>11. (\E c \in Procs : Return(c)) \/ Restart \/ UNCHANGED vars => UNCHANGED <<prog, entry, currentSize>>
  BY DEF Return, Restart, SaveCacheState, LoadCacheState, vars, mem
<1> QED  BY <1>2, <1>8, <1>9, <1>10, <1>11, StepCases

\* As long as nothing is removed and the process lives, the size the limit is
\* checked against covers the entries at every moment: each call adds the size
\* before it writes the entry.  The one exception is a Clear on a failing disk,
\* which deletes the entry of a file it could not remove.
THEOREM SizeComesFirst ==
  ASSUME "clear" \notin Ops \/ "failing" \notin Disks
  PROVE  Spec => []SizeBeforeEntry
<1>1. Init => FileInv /\ NothingDeleted /\ SizeCoversOwed
  <2> SUFFICES ASSUME Init PROVE FileInv /\ NothingDeleted /\ SizeCoversOwed
    OBVIOUS
  <2>1. FileInv /\ NothingDeleted
    BY DEF Init, FileInv, FileBeforeEntry, OpenedFirst, Present, NothingDeleted
  <2>2. [p \in Paths |-> SizeAt(p)] \in [Paths -> {0}]
    BY DEF Init, SizeAt
  <2>3. [c \in Procs |-> Owes(c)] \in [Procs -> {0}]
    BY DEF Init, Owes
  <2>4. Total = 0 /\ Owed = 0
    BY <2>2, <2>3, SumZero DEF Total, Owed
  <2> QED  BY <2>1, <2>4 DEF SizeCoversOwed, Init
<1>2. TypeOK /\ InOrder /\ TypeOK' /\ InOrder' /\ FileInv /\ NothingDeleted /\ SizeCoversOwed /\ [Next]_vars
        => FileInv' /\ NothingDeleted' /\ SizeCoversOwed'
  BY FileInvStep, DeletedStep, OwedStep DEF ClearRemoves
<1>3. TypeOK /\ SizeCoversOwed => SizeBeforeEntry
  <2> SUFFICES ASSUME TypeOK, SizeCoversOwed, NothingRemoved, crashes = 0
               PROVE  Total <= currentSize
    BY DEF SizeBeforeEntry
  <2>1. Owed \in Nat /\ Total \in Nat
    BY SumTypes
  <2> QED  BY <2>1 DEF SizeCoversOwed, TypeOK
<1> QED  BY <1>1, <1>2, <1>3, Structure, PTL DEF Spec

-----------------------------------------------------------------------------
(* One call at a time.                                                      *)

\* A step of a call ends no call and begins none.
LEMMA CallsAfter ==
  ASSUME TypeOK, NEW c \in Procs, call[c] # NoCall, ProcStep(c)
  PROVE  call'[c] # NoCall /\ \A d \in Procs \ {c} : call'[d] = call[d]
<1>1. CASE UNCHANGED call
  BY <1>1
<1>2. CASE Read(c)
  <2>1. PICK v : call' = [call EXCEPT ![c].answer = v]
    BY <1>2 DEF Read
  <2>2. call'[c] = [call[c] EXCEPT !.answer = v] /\ \A d \in Procs \ {c} : call'[d] = call[d]
    BY <2>1 DEF TypeOK
  <2>3. "op" \in DOMAIN call[c] /\ call[c].op \in AllOps
    BY DEF TypeOK, Calls
  <2>4. call'[c].op = call[c].op
    BY <2>2, <2>3
  <2>5. NoCall.op \notin AllOps
    BY DEF NoCall, AllOps
  <2> QED  BY <2>2, <2>3, <2>4, <2>5
<1>3. ASSUME FileStep(c), ~Read(c) PROVE UNCHANGED call
  BY <1>3 DEF FileStep, Open, Fill, FillFails, Evict
<1>4. ASSUME EntryStep(c) PROVE UNCHANGED call
  <2>1. CASE Credit(c) \/ SetEntry(c) \/ Find(c)
    BY <2>1 DEF Credit, SetEntry, Find
  <2>2. CASE Debit(c) \/ Drop(c) \/ Check(c)
    BY <2>2 DEF Debit, Drop, Check
  <2>3. CASE Hit(c) \/ Expire(c) \/ Locate(c)
    BY <2>3 DEF Hit, Expire, Locate
  <2> QED  BY <1>4, <2>1, <2>2, <2>3 DEF EntryStep
<1>5. ASSUME SizeStep(c) PROVE UNCHANGED call
  BY <1>5 DEF SizeStep, Room, Overfull, List, Persist
<1> QED  BY <1>1, <1>2, <1>3, <1>4, <1>5 DEF ProcStep

\* With one call at a time, one process at most is at work.
LEMMA AloneStep ==
  ASSUME TypeOK, InOrder, Alone, [Next]_vars
  PROVE  Alone'
<1>1. ASSUME NEW c \in Procs, Begins(c) PROVE Alone'
  <2>1. PICK op \in AllOps : \E p, d :
          call' = [call EXCEPT ![c] = [op |-> op, path |-> p, data |-> d, answer |-> None,
                                       before |-> Visible, older |-> Older]]
    BY <1>1 DEF Begins
  <2>2. PICK steps : prog' = [prog EXCEPT ![c] = steps]
    BY <1>1 DEF Begins
  <2>3. call'[c].op = op /\ \A e \in Procs \ {c} : call'[e] = call[e]
    BY <2>1 DEF TypeOK
  <2>4. NoCall.op \notin AllOps
    BY DEF NoCall, AllOps
  <2>5. call'[c] # NoCall
    BY <2>3, <2>4
  <2>6. \A e \in Procs \ {c} : prog'[e] = prog[e]
    BY <2>2 DEF TypeOK
  <2>7. \A e \in Procs : prog'[e] # <<>> => call'[e] # NoCall
    BY <2>3, <2>5, <2>6 DEF Alone
  <2>8. Serial => \A e \in Procs : call'[e] # NoCall => e = c
    BY <1>1, <2>3 DEF Begins, Quiet
  <2> QED  BY <2>7, <2>8 DEF Alone
<1>2. ASSUME NEW c \in Procs, ProcStep(c) PROVE Alone'
  <2>1. prog[c] # <<>> /\ \A d \in Procs \ {c} : prog'[d] = prog[d]
    BY <1>2, HeadAfter
  <2>2. call[c] # NoCall
    BY <2>1 DEF Alone
  <2>3. call'[c] # NoCall /\ \A d \in Procs \ {c} : call'[d] = call[d]
    BY <1>2, <2>2, CallsAfter
  <2>4. \A e \in Procs : prog'[e] # <<>> => call'[e] # NoCall
    BY <2>1, <2>3 DEF Alone
  <2>5. \A e \in Procs : call'[e] # NoCall => call[e] # NoCall
    BY <2>2, <2>3
  <2> QED  BY <2>4, <2>5 DEF Alone
<1>3. ASSUME NEW c \in Procs, Return(c) PROVE Alone'
  <2>1. /\ call' = [call EXCEPT ![c] = NoCall] /\ prog[c] = <<>> /\ UNCHANGED prog
    BY <1>3 DEF Return
  <2>2. call'[c] = NoCall /\ \A d \in Procs \ {c} : call'[d] = call[d]
    BY <2>1 DEF TypeOK
  <2>3. \A e \in Procs : prog'[e] # <<>> => call'[e] # NoCall
    BY <2>1, <2>2 DEF Alone
  <2>4. \A e \in Procs : call'[e] # NoCall => call[e] # NoCall
    BY <2>2
  <2> QED  BY <2>3, <2>4 DEF Alone
<1>4. CASE Crash
  BY <1>4 DEF Crash, Alone
<1>5. CASE UNCHANGED <<prog, call>>
  BY <1>5 DEF Alone
<1>6. Restart \/ UNCHANGED vars => UNCHANGED <<prog, call>>
  BY DEF Restart, vars
<1> QED  BY <1>1, <1>2, <1>3, <1>4, <1>5, <1>6, StepCases

\* One process at most has steps to take.
LEMMA OneAtWork ==
  ASSUME Alone, Serial, NEW c \in Procs, prog[c] # <<>>
  PROVE  \A d \in Procs \ {c} : prog[d] = <<>>
BY DEF Alone

\* Between calls, the size the limit is checked against is never less than what
\* the entries add up to: a call adds the size of an entry before it writes it,
\* and subtracts before it deletes the size that the entry really has.
LEMMA SerialSizeStep ==
  ASSUME TypeOK, InOrder, TypeOK', Alone, Serial, SerialSize, ~Crash, [Next]_vars
  PROVE  SerialSize'
<1> DEFINE Fits(c) ==
       /\ prog'[c][1].do = "debit" =>
            /\ entry'[prog'[c][2].path] # None
            /\ prog'[c][1].size = entry'[prog'[c][2].path].size
       /\ prog'[c][1].do = "set" => Total' + prog'[c][1].entry.size <= currentSize'
       /\ prog'[c][1].do = "drop" =>
            Total' - EntrySize(entry'[prog'[c][1].path]) <= currentSize'
<1>1. SUFFICES /\ \A c \in Procs : prog'[c] # <<>> => Fits(c)
               /\ (\A c \in Procs : prog'[c] # <<>> => prog'[c][1].do # "drop") => Total' <= currentSize'
  BY DEF SerialSize, First, SizeAt, EntrySize
<1>2. /\ currentSize \in Nat /\ currentSize' \in Nat /\ Total \in Nat
      /\ prog' \in [Procs -> Seq(Steps)] /\ entry' \in [Paths -> Entry \cup {None}]
  BY SumTypes DEF TypeOK
<1>3. UNCHANGED entry => Total' = Total
  BY DEF Total, SizeAt, SumOf
<1>4. ASSUME NEW c \in Procs, ProcStep(c)
      PROVE  /\ \A d \in Procs : prog'[d] # <<>> => Fits(d)
             /\ (\A d \in Procs : prog'[d] # <<>> => prog'[d][1].do # "drop") => Total' <= currentSize'
  <2>1. prog[c] # <<>> /\ \A d \in Procs \ {c} : prog[d] = <<>> /\ prog'[d] = <<>>
    BY <1>4, HeadAfter, OneAtWork
  <2>2. First(c).do # "drop" => Total <= currentSize
    BY <2>1 DEF SerialSize
  <2>3. SUFFICES /\ prog'[c] # <<>> => Fits(c)
                 /\ (prog'[c] # <<>> => prog'[c][1].do # "drop") => Total' <= currentSize'
    <3> HIDE DEF Fits
    <3> QED  BY <2>1, <2>3
  <2>4. /\ prog'[c] # <<>> /\ prog'[c][1].do = "set" => Credit(c)
        /\ prog'[c] # <<>> /\ prog'[c][1].do = "debit" => Find(c)
        /\ prog'[c] # <<>> /\ prog'[c][1].do = "drop" => Find(c) \/ Debit(c)
    BY <1>4, HeadAfter
  <2>5. CASE Credit(c)
    <3>1. UNCHANGED entry /\ Total <= currentSize
      <4>1. First(c).do = "credit"
        BY <2>5, FirstStep DEF Credit
      <4> QED  BY <2>2, <2>5, <4>1 DEF Credit
    <3>2. PICK x \in Steps : /\ x.do = "set" /\ currentSize' = currentSize + x.entry.size
                             /\ Continue(c, <<x>>)
      BY <2>5, CreditSets
    <3>3. prog'[c] # <<>> /\ prog'[c][1] = x
      BY <2>1, <3>2, GoesTo
    <3>4. x.entry.size \in Nat
      BY <3>2, StepTypes DEF Entry
    <3>5. Total' = Total
      BY <1>3, <3>1
    <3> QED  BY <1>2, <3>1, <3>2, <3>3, <3>4, <3>5
  <2>6. CASE SetEntry(c)
    <3>1. First(c).do = "set" /\ First(c) = Arg(c) /\ First(c) \in Steps
      BY <2>6, FirstStep DEF SetEntry
    <3>2. Arg(c).path \in Paths /\ Arg(c).entry \in Entry
      BY <3>1, StepTypes
    <3>3. entry' = [entry EXCEPT ![Arg(c).path] = Arg(c).entry] /\ currentSize' = currentSize
      BY <2>6 DEF SetEntry, mem
    <3>4. entry'[Arg(c).path] = Arg(c).entry /\ \A q \in Paths \ {Arg(c).path} : entry'[q] = entry[q]
      BY <3>2, <3>3 DEF TypeOK
    <3>5. EntrySize(entry'[Arg(c).path]) = Arg(c).entry.size
      BY <3>2, <3>4, ConstantsAssumption DEF EntrySize
    <3>6. /\ Total' \in Nat
          /\ EntrySize(entry[Arg(c).path]) \in Nat /\ EntrySize(entry'[Arg(c).path]) \in Nat
          /\ Total' = Total - EntrySize(entry[Arg(c).path]) + EntrySize(entry'[Arg(c).path])
      BY <1>2, <3>2, <3>4, TotalAfter
    <3>7. Total + Arg(c).entry.size <= currentSize
      BY <2>1, <3>1 DEF SerialSize
    <3>8. Total' <= currentSize'
      BY <1>2, <3>3, <3>5, <3>6, <3>7
    <3>9. ~Credit(c) /\ ~Find(c) /\ ~Debit(c)
      <4>1. /\ Credit(c) => First(c).do = "credit"
            /\ Find(c) => First(c).do = "find"
            /\ Debit(c) => First(c).do = "debit"
        BY FirstStep DEF Credit, Find, Debit
      <4> QED  BY <3>1, <4>1
    <3> QED  BY <2>4, <3>8, <3>9
  <2>7. CASE Find(c)
    <3>1. UNCHANGED <<entry, currentSize>>
      BY <2>7 DEF Find, mem
    <3>2. First(c).do = "find" /\ First(c) \in Steps
      BY <2>7, FirstStep DEF Find
    <3>3. First(c).path \in Paths /\ Total <= currentSize /\ Total' = Total
      BY <1>3, <2>2, <3>1, <3>2, StepTypes
    <3>4. prog'[c] # <<>> =>
            /\ prog'[c][1].do = "debit" =>
                 /\ prog'[c][2].path = First(c).path /\ entry[First(c).path] # None
                 /\ prog'[c][1].size = entry[First(c).path].size
            /\ prog'[c][1].do = "drop" => \/ prog'[c][1].path = First(c).path /\ entry[First(c).path] = None
                                          \/ Debit(c)
            /\ prog'[c][1].do = "set" => Credit(c)
      BY <1>4, HeadAfter
    <3>5. ~Debit(c) /\ ~Credit(c)
      <4>1. (Debit(c) => First(c).do = "debit") /\ (Credit(c) => First(c).do = "credit")
        BY FirstStep DEF Debit, Credit
      <4> QED  BY <3>2, <4>1
    <3>6. entry[First(c).path] = None => EntrySize(entry[First(c).path]) = 0
      BY DEF EntrySize
    <3>7. prog'[c] # <<>> => Fits(c)
      BY <1>2, <3>1, <3>3, <3>4, <3>5, <3>6
    <3> QED  BY <3>1, <3>3, <3>7
  <2>8. CASE Debit(c)
    <3>1. First(c).do = "debit" /\ First(c) = Arg(c) /\ First(c) \in Steps /\ Step(c, "debit")
          /\ prog[c][1] = First(c) /\ prog[c] \in Seq(Steps) /\ 1 \in 1..Len(prog[c])
      BY <2>8, FirstStep DEF Debit, First
    <3>2. 2 \in 1..Len(prog[c]) /\ prog[c][2].do = "drop"
      BY <3>1 DEF InOrder, WellFormed, AtFront
    <3>3. prog[c][2].path \in Paths
      <4>1. prog[c][2] \in Steps
        BY <3>1, <3>2
      <4> QED  BY <3>2, <4>1, StepTypes
    <3>4. /\ entry[prog[c][2].path] # None /\ First(c).size = entry[prog[c][2].path].size
          /\ Total <= currentSize
      BY <2>1, <2>2, <3>1 DEF SerialSize
    <3>5. UNCHANGED entry /\ currentSize' = Max({0, currentSize - First(c).size}) /\ Continue(c, <<>>)
      BY <2>8, <3>1 DEF Debit
    <3>6. First(c).size \in Nat
      BY <3>1, StepTypes
    <3>7. currentSize' >= currentSize - First(c).size
      <4>1. currentSize - First(c).size \in Int
        BY <1>2, <3>6
      <4> QED  BY <3>5, <4>1, MaxOfZero
    <3>8. prog'[c] # <<>>
      <4>1. \E i \in 1..Len(prog'[c]) : prog'[c][i] = prog[c][2]
        <5>1. 2 \in 2..Len(prog[c])
          BY <3>1, <3>2
        <5> QED  BY <3>1, <3>5, <5>1, GoesOn
      <4> QED  BY <4>1
    <3>9. prog'[c][1] = prog[c][2]
      <4>1. 2 \in 1..Len(prog[c]) /\ prog'[c][1] = prog[c][2]
        <5> DEFINE t == <<>>
        <5>1. t \in Seq(Steps) /\ t = <<>> /\ Continue(c, t)
          BY <3>5
        <5> HIDE DEF t
        <5> QED  BY <2>1, <3>8, <5>1, Goes
      <4> QED  BY <4>1
    <3>10. Total' = Total /\ EntrySize(entry'[prog[c][2].path]) = First(c).size
      BY <1>3, <3>4, <3>5 DEF EntrySize
    <3>11. Total' - EntrySize(entry'[prog[c][2].path]) <= currentSize'
      BY <1>2, <3>4, <3>6, <3>7, <3>10
    <3> QED  BY <3>2, <3>8, <3>9, <3>11
  <2>9. CASE Drop(c)
    <3>1. First(c).do = "drop" /\ First(c) = Arg(c) /\ First(c) \in Steps
      BY <2>9, FirstStep DEF Drop
    <3>2. First(c).path \in Paths
      BY <3>1, StepTypes
    <3>3. entry' = [entry EXCEPT ![First(c).path] = None] /\ currentSize' = currentSize
      BY <2>9, <3>1 DEF Drop, mem
    <3>4. entry'[First(c).path] = None /\ \A q \in Paths \ {First(c).path} : entry'[q] = entry[q]
      BY <3>2, <3>3 DEF TypeOK
    <3>5. EntrySize(entry'[First(c).path]) = 0
      BY <3>4 DEF EntrySize
    <3>6. /\ Total' \in Nat
          /\ EntrySize(entry[First(c).path]) \in Nat
          /\ Total' = Total - EntrySize(entry[First(c).path]) + EntrySize(entry'[First(c).path])
      BY <1>2, <3>2, <3>4, TotalAfter
    <3>7. Total - EntrySize(entry[First(c).path]) <= currentSize
      BY <2>1, <3>1 DEF SerialSize, SizeAt, EntrySize
    <3>8. Total' <= currentSize'
      BY <1>2, <3>3, <3>5, <3>6, <3>7
    <3>9. ~Credit(c) /\ ~Find(c) /\ ~Debit(c)
      <4>1. /\ Credit(c) => First(c).do = "credit"
            /\ Find(c) => First(c).do = "find"
            /\ Debit(c) => First(c).do = "debit"
        BY FirstStep DEF Credit, Find, Debit
      <4> QED  BY <3>1, <4>1
    <3> QED  BY <2>4, <3>8, <3>9
  <2>10. CASE ~Credit(c) /\ ~SetEntry(c) /\ ~Find(c) /\ ~Debit(c) /\ ~Drop(c)
    <3>1. UNCHANGED <<entry, currentSize>> /\ First(c).do # "drop"
      <4>1. ASSUME FileStep(c) PROVE UNCHANGED <<entry, currentSize>> /\ First(c).do # "drop"
        <5>1. UNCHANGED <<entry, currentSize>>
          BY <4>1 DEF FileStep, Open, Fill, FillFails, Read, Evict, mem
        <5>2. First(c).do \in {"open", "fill", "read", "evict"}
          BY <4>1, FirstStep DEF FileStep, Open, Fill, FillFails, Read, Evict
        <5> QED  BY <5>1, <5>2
      <4>2. ASSUME SizeStep(c) PROVE UNCHANGED <<entry, currentSize>> /\ First(c).do # "drop"
        <5>1. UNCHANGED <<entry, currentSize>>
          BY <4>2 DEF SizeStep, Room, Overfull, List, Persist, mem
        <5>2. First(c).do \in {"room", "overfull", "pick", "persist"}
          BY <4>2, FirstStep DEF SizeStep, Room, Overfull, List, Persist
        <5> QED  BY <5>1, <5>2
      <4>3. ASSUME Check(c) \/ Hit(c) \/ Expire(c) \/ Locate(c)
            PROVE  UNCHANGED <<entry, currentSize>> /\ First(c).do # "drop"
        <5>1. UNCHANGED <<entry, currentSize>>
          BY <4>3 DEF Check, Hit, Expire, Locate, mem
        <5>2. First(c).do \in {"check", "hit", "expire", "locate"}
          BY <4>3, FirstStep DEF Check, Hit, Expire, Locate
        <5> QED  BY <5>1, <5>2
      <4> QED  BY <1>4, <2>10, <4>1, <4>2, <4>3 DEF ProcStep, EntryStep
    <3>2. Total' = Total /\ Total <= currentSize
      BY <1>3, <2>2, <3>1
    <3> QED  BY <2>4, <2>10, <3>1, <3>2
  <2> HIDE DEF Fits
  <2> QED  BY <2>5, <2>6, <2>7, <2>8, <2>9, <2>10
<1>5. ASSUME NEW c \in Procs, Begins(c)
      PROVE  /\ \A d \in Procs : prog'[d] # <<>> => Fits(d)
             /\ (\A d \in Procs : prog'[d] # <<>> => prog'[d][1].do # "drop") => Total' <= currentSize'
  <2>1. UNCHANGED <<entry, currentSize>>
    BY <1>5 DEF Begins, mem
  <2>2. \A d \in Procs : prog[d] = <<>>
    BY <1>5 DEF Begins, Quiet, Alone
  <2>3. PICK steps \in Seq(Steps) :
          /\ prog' = [prog EXCEPT ![c] = steps]
          /\ steps[1].do \in {"open", "check", "locate", "pick", "overfull"}
    BY <1>5 DEF Begins
  <2>4. \A d \in Procs : prog'[d] # <<>> => prog'[d][1].do \notin {"debit", "set", "drop"}
    BY <2>2, <2>3 DEF TypeOK
  <2>5. Total <= currentSize
    BY <2>2 DEF SerialSize
  <2> QED  BY <1>3, <2>1, <2>4, <2>5
<1>6. CASE UNCHANGED <<prog, entry, currentSize>>
  BY <1>3, <1>6 DEF SerialSize, First, SizeAt, EntrySize
<1>7. (\E c \in Procs : Return(c)) \/ Restart \/ UNCHANGED vars => UNCHANGED <<prog, entry, currentSize>>
  BY DEF Return, Restart, SaveCacheState, LoadCacheState, vars, mem
<1> HIDE DEF Fits
<1> QED  BY <1>4, <1>5, <1>6, <1>7, StepCases

\* Between the calls of one user at a time, as long as the process does not die,
\* the size the limit is checked against is never less than what the entries add
\* up to, whatever the disk refused and across clean restarts.
THEOREM SizeCovers ==
  ASSUME Serial
  PROVE  Spec => [](crashes = 0 => SizeCoversEntries)
<1> DEFINE I == crashes = 0 => SerialSize
<1>1. Init => Alone /\ I
  <2> SUFFICES ASSUME Init PROVE Alone /\ SerialSize
    OBVIOUS
  <2>1. [p \in Paths |-> SizeAt(p)] \in [Paths -> {0}]
    BY DEF Init, SizeAt
  <2>2. Total = 0
    BY <2>1, SumZero DEF Total
  <2> QED  BY <2>2 DEF Init, Alone, SerialSize
<1>2. /\ TypeOK /\ InOrder /\ TypeOK' /\ InOrder' /\ [Next]_vars
      /\ Alone /\ I
      => Alone' /\ I'
  <2> SUFFICES ASSUME TypeOK, InOrder, TypeOK', [Next]_vars, Alone, crashes = 0 => SerialSize, crashes' = 0
               PROVE  SerialSize'
    BY AloneStep
  <2>1. ~Crash
    BY DEF Crash, TypeOK
  <2>2. crashes = 0
    BY <2>1, SizeTouches
  <2> QED  BY <2>1, <2>2, SerialSizeStep
<1>3. TypeOK /\ Alone /\ I => (crashes = 0 => SizeCoversEntries)
  BY DEF SizeCoversEntries, Quiet, Alone, SerialSize
<1> HIDE DEF I
<1> QED  BY <1>1, <1>2, <1>3, Structure, PTL DEF Spec

-----------------------------------------------------------------------------
(* Files and entries of one user.                                           *)

\* An absent file has no length.
LEMMA NoLength == Length("absent") = 0 /\ Length("empty") = 0 /\ \A d \in Data : SizeOf[d] \in Nat \ {0}
BY ConstantsAssumption DEF Length

\* What the only call at work has to do makes entries and files agree.
LEMMA ConsistentNow ==
  ASSUME TypeOK, Alone, Serial, SerialMatch, disk = "sound", NEW c \in Procs, prog[c] # <<>>
  PROVE  Consistent(prog[c], entry, file)
<1>1. \A d \in Procs \ {c} : prog[d] = <<>>
  BY OneAtWork
<1>2. \A d \in Procs \ {c}, p \in Paths : ~Awaits(prog[d], p)
  BY <1>1 DEF Awaits
<1> QED  BY <1>2 DEF SerialMatch, Consistent

\* Where the writes and the deletions of a call are.
LEMMA FrontOnly ==
  ASSUME TypeOK, InOrder, NEW c \in Procs, prog[c] # <<>>, NEW i \in 1..Len(prog[c])
  PROVE  /\ prog[c][i].do \in {"set", "find"} => i = 1
         /\ First(c).do \notin {"find", "debit", "drop"} => prog[c][i].do \notin {"find", "drop"}
         /\ prog[c][i].do = "drop" => i = 1 \/ First(c).do = "debit"
<1>1. AtFront(prog[c], i)
  BY DEF InOrder, WellFormed
<1> QED  BY <1>1 DEF AtFront, First

\* After a look-up nothing is written or deleted that it did not decide.
LEMMA LookUpAlone ==
  ASSUME TypeOK, InOrder, NEW c \in Procs, prog[c] # <<>>, First(c).do \in {"check", "hit", "expire"},
         NEW p \in Paths
  PROVE  ~Awaits(prog[c], p)
<1>1. 1 \in 1..Len(prog[c])
  BY DEF TypeOK
<1>2. LooksUp(prog[c], 1)
  BY <1>1 DEF InOrder, WellFormed
<1>3. \A i \in 1..Len(prog[c]) : i > 1 => prog[c][i].do # "credit"
  BY <1>2 DEF LooksUp, First
<1>4. \A i \in 1..Len(prog[c]) : prog[c][i].do \notin {"set", "find", "drop"}
  <2> TAKE i \in 1..Len(prog[c])
  <2>1. prog[c][i].do \in {"set", "find"} => i = 1
    BY FrontOnly
  <2>2. prog[c][i].do \notin {"find", "drop"}
    BY FrontOnly
  <2> QED  BY <2>1, <2>2 DEF First
<1>5. \A i \in 1..Len(prog[c]) : i > 1 \/ i = 1
  OBVIOUS
<1> QED  BY <1>3, <1>4, <1>5 DEF Awaits, First

\* What was to be written or deleted after the first step still is.
LEMMA StillAwaits ==
  ASSUME NEW s \in Seq(Steps), s # <<>>, NEW s2 \in Seq(Steps), NEW p \in Paths, Awaits(s, p),
         \A j \in 2..Len(s) : \E i \in 1..Len(s2) : s2[i] = s[j],
         s[1].do \notin {"credit", "set", "find", "drop"} \/ s[1].path # p
  PROVE  Awaits(s2, p)
<1>1. PICK i \in 1..Len(s) : s[i].do \in {"credit", "set", "find", "drop"} /\ s[i].path = p
  BY DEF Awaits
<1>2. i \in 2..Len(s)
  BY <1>1
<1>3. PICK k \in 1..Len(s2) : s2[k] = s[i]
  BY <1>2
<1> QED  BY <1>1, <1>3 DEF Awaits

\* A step that touches neither files nor entries, and goes on to no write.
LEMMA LooksOnly ==
  ASSUME TypeOK, TypeOK', NEW c \in Procs, prog[c] # <<>>, Consistent(prog[c], entry, file),
         UNCHANGED <<file, entry>>,
         First(c).do \notin {"credit", "set", "find", "drop"},
         \A j \in 2..Len(prog[c]) : \E i \in 1..Len(prog'[c]) : prog'[c][i] = prog[c][j],
         \A i \in 1..Len(prog'[c]) : \/ prog'[c][i].do \notin {"find", "drop"}
                                     \/ \E j \in 2..Len(prog[c]) : prog'[c][i] = prog[c][j],
         prog'[c] # <<>> => prog'[c][1].do \notin {"fill", "credit", "set"}
  PROVE  Consistent(prog'[c], entry', file')
<1>1. prog[c] \in Seq(Steps) /\ prog'[c] \in Seq(Steps) /\ First(c) = prog[c][1]
  BY DEF TypeOK, First
<1>2. \A i \in 2..Len(prog[c]) : i \in 1..Len(prog[c])
  OBVIOUS
<1>3. Gone(prog[c], file)
  BY DEF Consistent
<1>4. Gone(prog'[c], file')
  BY <1>2, <1>3 DEF Gone
<1>5. HeadFits(prog'[c], file')
  BY DEF HeadFits
<1>6. \A p \in Paths : Awaits(prog[c], p) => Awaits(prog'[c], p)
  BY <1>1, StillAwaits
<1>7. \A p \in Paths : Agree(entry, file, p) => Agree(entry', file', p)
  BY DEF Agree
<1> QED  BY <1>4, <1>5, <1>6, <1>7 DEF Consistent

\* Such a step that only goes on.
LEMMA LooksOn ==
  ASSUME TypeOK, InOrder, TypeOK', NEW c \in Procs, NEW do, Step(c, do), Consistent(prog[c], entry, file),
         UNCHANGED <<file, entry>>,
         do \notin {"open", "fill", "credit", "set", "find", "drop"}, Continue(c, <<>>)
  PROVE  Consistent(prog'[c], entry', file')
<1>1. First(c).do = do /\ prog[c] # <<>>
  BY FirstStep
<1>2. /\ \A i \in 1..Len(prog'[c]) : \E j \in 2..Len(prog[c]) : prog'[c][i] = prog[c][j]
      /\ \A j \in 2..Len(prog[c]) : \E i \in 1..Len(prog'[c]) : prog'[c][i] = prog[c][j]
      /\ prog'[c] # <<>> => prog'[c][1].do \notin {"fill", "credit", "set"}
  BY GoesOn
<1> QED  BY <1>1, <1>2, LooksOnly

\* Such a step that goes on to a listing or a deleting loop.
LEMMA LooksOnTo ==
  ASSUME TypeOK, TypeOK', NEW c \in Procs, prog[c] # <<>>, Consistent(prog[c], entry, file),
         UNCHANGED <<file, entry>>,
         First(c).do \notin {"open", "fill", "credit", "set", "find", "drop"},
         NEW x \in Steps, x.do \notin {"fill", "credit", "set", "find", "drop"}, Continue(c, <<x>>)
  PROVE  Consistent(prog'[c], entry', file')
<1>1. /\ prog'[c] # <<>> /\ prog'[c][1] = x
      /\ \A i \in 1..Len(prog'[c]) :
           prog'[c][i] = x \/ \E j \in 2..Len(prog[c]) : prog'[c][i] = prog[c][j]
      /\ \A j \in 2..Len(prog[c]) : \E i \in 1..Len(prog'[c]) : prog'[c][i] = prog[c][j]
  BY GoesTo
<1> QED  BY <1>1, LooksOnly

\* A write: the file is cut, filled with the content, and filed with its size.
LEMMA OpenMatches ==
  ASSUME TypeOK, InOrder, TypeOK', InOrder', NEW c \in Procs, prog[c] # <<>>,
         Consistent(prog[c], entry, file), Open(c)
  PROVE  Consistent(prog'[c], entry', file')
<1> DEFINE s == prog[c]
           s2 == prog'[c]
           p == First(c).path
<1>1. /\ s \in Seq(Steps) /\ s2 \in Seq(Steps) /\ First(c) = s[1] /\ First(c) = Arg(c)
      /\ First(c) \in Steps /\ s[1].do = "open"
  <2>1. Step(c, "open")
    BY DEF Open
  <2>2. First(c) \in Steps /\ First(c) = Arg(c) /\ First(c).do = "open"
    BY <2>1, FirstStep
  <2> QED  BY <2>2 DEF TypeOK, First
<1>2. p \in Paths
  BY <1>1, StepTypes
<1>3. /\ Len(s2) = Len(s) - 1 /\ Len(s) >= 2
      /\ s[2].do = "fill" /\ s[2].path = p
      /\ s2[1] = [s[2] EXCEPT !.gen = file[p].gen]
      /\ \A i \in 2..Len(s2) : s2[i] = s[i + 1]
  BY OpenGoes
<1>4. entry' = entry /\ file' = [file EXCEPT ![p].content = "empty"]
  BY <1>1 DEF Open
<1>5. /\ file'[p].content = "empty" /\ file'[p].gen = file[p].gen
      /\ \A q \in Paths \ {p} : file'[q] = file[q]
  BY <1>2, <1>4 DEF TypeOK
<1>6. Len(s) \in Nat /\ Len(s2) \in Nat /\ 1 \in 1..Len(s2)
  BY <1>1, <1>3
<1>7. s2[1].do = "fill" /\ s2[1].path = p /\ s2[1].gen = file[p].gen
  <2>1. s[2] \in Steps
    BY <1>1, <1>3, <1>6
  <2>2. s[2] \in [do : {"fill"}, path : Paths, data : Data, gen : Nat]
    BY <1>3, <2>1 DEF Steps
  <2> QED  BY <1>3, <2>2
<1> HIDE DEF s, s2, p
<1>8. HeadFits(s2, file')
  BY <1>5, <1>7 DEF HeadFits
<1>9. Gone(s2, file')
  <2>1. \A i \in 1..Len(s) : s[i].do \notin {"find", "drop"}
    BY <1>1, FrontOnly DEF s
  <2>2. \A i \in 1..Len(s2) : s2[i].do \notin {"find", "drop"}
    <3> TAKE i \in 1..Len(s2)
    <3>1. i = 1 \/ (i \in 2..Len(s2) /\ i + 1 \in 1..Len(s))
      BY <1>3, <1>6
    <3>2. CASE i = 1
      BY <1>7, <3>2
    <3>3. CASE i \in 2..Len(s2) /\ i + 1 \in 1..Len(s)
      BY <1>3, <2>1, <3>3
    <3> QED  BY <3>1, <3>2, <3>3
  <2> QED  BY <2>2 DEF Gone
<1>10. ASSUME NEW q \in Paths PROVE Agree(entry', file', q) \/ Awaits(s2, q)
  <2>1. CASE q = p
    <3>1. Fills(s2, 1)
      BY <1>6 DEF InOrder, WellFormed, s2
    <3>2. \E j \in 1..Len(s2) : s2[j].do = "credit" /\ s2[j].path = p
      BY <1>7, <3>1 DEF Fills
    <3> QED  BY <2>1, <3>2 DEF Awaits
  <2>2. CASE q # p
    <3>1. CASE Awaits(s, q)
      <4>1. PICK i \in 1..Len(s) : s[i].do \in {"credit", "set", "find", "drop"} /\ s[i].path = q
        BY <3>1 DEF Awaits
      <4>2. i \in 3..Len(s)
        <5>1. i # 1 /\ i # 2
          BY <1>1, <1>3, <4>1
        <5> QED  BY <1>6, <5>1
      <4>3. i - 1 \in 2..Len(s2) /\ s2[i - 1] = s[i]
        BY <1>3, <1>6, <4>2
      <4>4. i - 1 \in 1..Len(s2)
        BY <1>6, <4>3
      <4> QED  BY <4>1, <4>3, <4>4 DEF Awaits
    <3>2. CASE Agree(entry, file, q)
      BY <1>4, <1>5, <2>2, <3>2 DEF Agree
    <3> QED  BY <3>1, <3>2 DEF Consistent, s
  <2> QED  BY <2>1, <2>2
<1> QED  BY <1>8, <1>9, <1>10 DEF Consistent, s2

\* The bytes of a fill are the whole content, for the file was cut before.
LEMMA FillMatches ==
  ASSUME TypeOK, InOrder, TypeOK', NEW c \in Procs, prog[c] # <<>>,
         Consistent(prog[c], entry, file), Fill(c)
  PROVE  Consistent(prog'[c], entry', file')
<1> DEFINE s == prog[c]
           s2 == prog'[c]
           p == First(c).path
           d == First(c).data
<1>1. Step(c, "fill")
  BY DEF Fill
<1>2. /\ s \in Seq(Steps) /\ s2 \in Seq(Steps) /\ First(c) = s[1] /\ First(c) = Arg(c)
      /\ First(c) \in Steps /\ s[1].do = "fill" /\ 1 \in 1..Len(s)
  <2>1. First(c) \in Steps /\ First(c) = Arg(c) /\ First(c).do = "fill" /\ 1 \in 1..Len(s)
    BY <1>1, FirstStep
  <2> QED  BY <2>1 DEF TypeOK, First
<1>3. p \in Paths /\ d \in Data
  BY <1>2, StepTypes
<1>4. file[p].content = "empty" /\ file[p].gen = First(c).gen
  BY <1>2 DEF Consistent, HeadFits
<1>5. ~(Length(file[p].content) > SizeOf[d])
  BY <1>3, <1>4, NoLength
<1>6. entry' = entry /\ file' = [file EXCEPT ![p].content = d] /\ Continue(c, <<>>)
  BY <1>2, <1>4, <1>5 DEF Fill
<1>7. file'[p].content = d /\ \A q \in Paths \ {p} : file'[q] = file[q]
  BY <1>3, <1>6 DEF TypeOK
<1>8. /\ \A i \in 1..Len(s2) : \E j \in 2..Len(s) : s2[i] = s[j]
      /\ \A j \in 2..Len(s) : \E i \in 1..Len(s2) : s2[i] = s[j]
      /\ s2 # <<>> =>
           /\ s2[1].do \notin {"fill", "set"}
           /\ s2[1].do = "credit" => s2[1].path = p /\ s2[1].entry.size = SizeOf[d]
  BY <1>1, <1>6, GoesOn
<1>9. \A i \in 1..Len(s) : s[i].do \notin {"find", "drop"}
  BY <1>2, FrontOnly
<1>10. Fills(s, 1)
  BY <1>2 DEF InOrder, WellFormed
<1> HIDE DEF s, s2, p, d
<1>11. HeadFits(s2, file')
  BY <1>3, <1>7, <1>8 DEF HeadFits
<1>12. Gone(s2, file')
  <2>1. \A i \in 1..Len(s2) : s2[i].do \notin {"find", "drop"}
    BY <1>2, <1>8, <1>9
  <2> QED  BY <2>1 DEF Gone
<1>13. ASSUME NEW q \in Paths PROVE Agree(entry', file', q) \/ Awaits(s2, q)
  <2>1. CASE q = p
    <3>1. PICK j \in 1..Len(s) : j > 1 /\ s[j].do = "credit" /\ s[j].path = p
      BY <1>2, <1>10 DEF Fills, p
    <3>2. j \in 2..Len(s)
      BY <3>1
    <3>3. PICK i \in 1..Len(s2) : s2[i] = s[j]
      BY <1>8, <3>2
    <3> QED  BY <2>1, <3>1, <3>3 DEF Awaits
  <2>2. CASE q # p
    <3>1. Awaits(s, q) => Awaits(s2, q)
      <4>1. s # <<>>
        BY DEF s
      <4>2. s[1].do \notin {"credit", "set", "find", "drop"}
        BY <1>2
      <4> QED  BY <1>2, <1>8, <4>1, <4>2, StillAwaits
    <3>2. Agree(entry, file, q) => Agree(entry', file', q)
      BY <1>6, <1>7, <2>2 DEF Agree
    <3> QED  BY <3>1, <3>2 DEF Consistent, s
  <2> QED  BY <2>1, <2>2
<1> QED  BY <1>11, <1>12, <1>13 DEF Consistent, s2

\* What is credited is what is then set.
LEMMA CreditMatches ==
  ASSUME TypeOK, InOrder, TypeOK', NEW c \in Procs, prog[c] # <<>>,
         Consistent(prog[c], entry, file), Credit(c)
  PROVE  Consistent(prog'[c], entry', file')
<1> DEFINE s == prog[c]
           s2 == prog'[c]
           p == First(c).path
<1>1. First(c) \in Steps /\ First(c).do = "credit" /\ UNCHANGED <<file, entry>>
  BY CreditSets DEF Credit
<1>2. PICK x \in Steps : /\ x.do = "set" /\ x.path = p /\ x.entry.size = First(c).entry.size
                         /\ Continue(c, <<x>>)
  BY CreditSets
<1>3. /\ s2[1] = x /\ \A i \in 1..Len(s2) : s2[i] = x \/ \E j \in 2..Len(s) : s2[i] = s[j]
      /\ \A j \in 2..Len(s) : \E i \in 1..Len(s2) : s2[i] = s[j]
      /\ \E i \in 1..Len(s2) : s2[i] = x
  BY <1>2, GoesTo
<1>4. s \in Seq(Steps) /\ s2 \in Seq(Steps) /\ s[1] = First(c)
  BY DEF TypeOK, First
<1>5. \A i \in 1..Len(s) : s[i].do \notin {"find", "drop"}
  BY <1>1, FrontOnly
<1> HIDE DEF s2
<1>6. HeadFits(s2, file')
  BY <1>1, <1>2, <1>3, <1>4 DEF Consistent, HeadFits
<1>7. Gone(s2, file')
  <2>1. \A i \in 1..Len(s2) : s2[i].do \notin {"find", "drop"}
    BY <1>2, <1>3, <1>4, <1>5
  <2> QED  BY <2>1 DEF Gone
<1>8. ASSUME NEW q \in Paths PROVE Agree(entry', file', q) \/ Awaits(s2, q)
  <2>1. CASE q = p
    BY <1>2, <1>3, <2>1 DEF Awaits
  <2>2. CASE q # p
    <3>1. Awaits(s, q) => Awaits(s2, q)
      BY <1>3, <1>4, <2>2, StillAwaits
    <3>2. Agree(entry, file, q) => Agree(entry', file', q)
      BY <1>1 DEF Agree
    <3> QED  BY <3>1, <3>2 DEF Consistent
  <2> QED  BY <2>1, <2>2
<1> QED  BY <1>6, <1>7, <1>8 DEF Consistent, s2

\* The entry that is set has the size of the file.
LEMMA SetMatches ==
  ASSUME TypeOK, InOrder, TypeOK', NEW c \in Procs, prog[c] # <<>>,
         Consistent(prog[c], entry, file), SetEntry(c)
  PROVE  Consistent(prog'[c], entry', file')
<1> DEFINE s == prog[c]
           s2 == prog'[c]
           p == First(c).path
<1>1. Step(c, "set")
  BY DEF SetEntry
<1>2. First(c) \in Steps /\ First(c).do = "set" /\ First(c) = Arg(c)
  BY <1>1, FirstStep
<1>3. p \in Paths /\ First(c).entry \in Entry
  BY <1>2, StepTypes
<1>4. UNCHANGED file /\ Continue(c, <<>>) /\ entry' = [entry EXCEPT ![p] = First(c).entry]
  BY <1>2 DEF SetEntry
<1>5. entry'[p] = First(c).entry /\ \A q \in Paths \ {p} : entry'[q] = entry[q]
  BY <1>3, <1>4 DEF TypeOK
<1>6. /\ \A i \in 1..Len(s2) : \E j \in 2..Len(s) : s2[i] = s[j]
      /\ \A j \in 2..Len(s) : \E i \in 1..Len(s2) : s2[i] = s[j]
      /\ s2 # <<>> => s2[1].do \notin {"fill", "credit", "set"}
  BY <1>1, <1>4, GoesOn
<1>7. s \in Seq(Steps) /\ s2 \in Seq(Steps) /\ s[1] = First(c)
  BY DEF TypeOK, First
<1>8. \A i \in 1..Len(s) : s[i].do \notin {"find", "drop"}
  BY <1>2, FrontOnly
<1> HIDE DEF s2
<1>9. HeadFits(s2, file')
  BY <1>6 DEF HeadFits
<1>10. Gone(s2, file')
  <2>1. \A i \in 1..Len(s2) : s2[i].do \notin {"find", "drop"}
    <3>1. \A j \in 2..Len(s) : j \in 1..Len(s)
      OBVIOUS
    <3> QED  BY <1>6, <1>8, <3>1
  <2> QED  BY <2>1 DEF Gone
<1>11. ASSUME NEW q \in Paths PROVE Agree(entry', file', q) \/ Awaits(s2, q)
  <2>1. CASE q = p
    <3>1. file[p].content \in Data /\ SizeOf[file[p].content] = First(c).entry.size
      BY <1>2, <1>7 DEF Consistent, HeadFits
    <3>2. First(c).entry # None /\ "absent" \notin Data
      BY <1>3, ConstantsAssumption
    <3> QED  BY <1>4, <1>5, <2>1, <3>1, <3>2 DEF Agree
  <2>2. CASE q # p
    <3>1. Awaits(s, q) => Awaits(s2, q)
      BY <1>6, <1>7, <2>2, StillAwaits
    <3>2. Agree(entry, file, q) => Agree(entry', file', q)
      BY <1>4, <1>5, <2>2 DEF Agree
    <3> QED  BY <3>1, <3>2 DEF Consistent
  <2> QED  BY <2>1, <2>2
<1> QED  BY <1>9, <1>10, <1>11 DEF Consistent, s2

\* A deletion: of an entry whose file is gone.
LEMMA FindMatches ==
  ASSUME TypeOK, InOrder, TypeOK', NEW c \in Procs, prog[c] # <<>>,
         Consistent(prog[c], entry, file), Find(c)
  PROVE  Consistent(prog'[c], entry', file')
<1> DEFINE s == prog[c]
           s2 == prog'[c]
           p == First(c).path
<1>1. First(c) \in Steps /\ First(c).do = "find" /\ UNCHANGED <<file, entry>>
  BY FindDrops DEF Find
<1>2. s \in Seq(Steps) /\ s2 \in Seq(Steps) /\ s[1] = First(c) /\ 1 \in 1..Len(s)
  <2>1. prog[c] \in Seq(Steps) /\ prog'[c] \in Seq(Steps)
    BY DEF TypeOK
  <2> QED  BY <2>1 DEF First
<1>3. PICK x \in Steps :
        /\ x.do = "drop" /\ x.path = p
        /\ \/ Continue(c, <<x>>)
           \/ \E y \in Steps : y.do = "debit" /\ Continue(c, <<y>> \o <<x>>)
  BY FindDrops
<1>4. /\ s2[1].do \in {"drop", "debit"}
      /\ \A i \in 1..Len(s2) : \/ s2[i] = x \/ s2[i].do = "debit"
                               \/ \E j \in 2..Len(s) : s2[i] = s[j]
      /\ \A j \in 2..Len(s) : \E i \in 1..Len(s2) : s2[i] = s[j]
      /\ \E i \in 1..Len(s2) : s2[i] = x
  <2>1. CASE Continue(c, <<x>>)
    BY <1>3, <2>1, GoesTo
  <2>2. ASSUME NEW y \in Steps, y.do = "debit", Continue(c, <<y>> \o <<x>>) PROVE <1>4!:
    BY <2>2, GoesToTwo
  <2> QED  BY <1>3, <2>1, <2>2
<1>5. Gone(s, file) /\ file[p].content = "absent"
  BY <1>1, <1>2 DEF Consistent, Gone
<1> HIDE DEF s2
<1>6. HeadFits(s2, file')
  BY <1>4 DEF HeadFits
<1>7. Gone(s2, file')
  <2>1. \A j \in 2..Len(s) : j \in 1..Len(s)
    OBVIOUS
  <2> QED  BY <1>1, <1>3, <1>4, <1>5, <2>1 DEF Gone
<1>8. ASSUME NEW q \in Paths PROVE Agree(entry', file', q) \/ Awaits(s2, q)
  <2>1. CASE q = p
    BY <1>3, <1>4, <2>1 DEF Awaits
  <2>2. CASE q # p
    <3>1. Awaits(s, q) => Awaits(s2, q)
      BY <1>2, <1>4, <2>2, StillAwaits
    <3>2. Agree(entry, file, q) => Agree(entry', file', q)
      BY <1>1 DEF Agree
    <3> QED  BY <3>1, <3>2 DEF Consistent
  <2> QED  BY <2>1, <2>2
<1> QED  BY <1>6, <1>7, <1>8 DEF Consistent, s2

\* The deletion of an entry whose file is gone.
LEMMA DropMatches ==
  ASSUME TypeOK, InOrder, TypeOK', NEW c \in Procs, prog[c] # <<>>,
         Consistent(prog[c], entry, file), Drop(c)
  PROVE  Consistent(prog'[c], entry', file')
<1> DEFINE s == prog[c]
           s2 == prog'[c]
           p == First(c).path
<1>1. Step(c, "drop")
  BY DEF Drop
<1>2. First(c) \in Steps /\ First(c).do = "drop" /\ First(c) = Arg(c) /\ 1 \in 1..Len(s)
  BY <1>1, FirstStep
<1>3. p \in Paths
  BY <1>2, StepTypes
<1>4. UNCHANGED file /\ Continue(c, <<>>) /\ entry' = [entry EXCEPT ![p] = None]
  BY <1>2 DEF Drop
<1>5. entry'[p] = None /\ \A q \in Paths \ {p} : entry'[q] = entry[q]
  BY <1>3, <1>4 DEF TypeOK
<1>6. /\ \A i \in 1..Len(s2) : \E j \in 2..Len(s) : s2[i] = s[j]
      /\ \A j \in 2..Len(s) : \E i \in 1..Len(s2) : s2[i] = s[j]
      /\ s2 # <<>> => s2[1].do \notin {"fill", "credit", "set"}
  BY <1>1, <1>4, GoesOn
<1>7. s \in Seq(Steps) /\ s2 \in Seq(Steps) /\ s[1] = First(c)
  BY DEF TypeOK, First
<1>8. Gone(s, file) /\ file[p].content = "absent"
  BY <1>2, <1>7 DEF Consistent, Gone
<1> HIDE DEF s2
<1>9. HeadFits(s2, file')
  BY <1>6 DEF HeadFits
<1>10. Gone(s2, file')
  <2> SUFFICES ASSUME NEW i \in 1..Len(s2), s2[i].do \in {"find", "drop"}
               PROVE  file[s2[i].path].content = "absent"
    BY <1>4 DEF Gone
  <2>1. PICK j \in 2..Len(s) : s2[i] = s[j]
    BY <1>6
  <2>2. j \in 1..Len(s)
    BY <2>1
  <2> QED  BY <1>8, <2>1, <2>2 DEF Gone
<1>11. ASSUME NEW q \in Paths PROVE Agree(entry', file', q) \/ Awaits(s2, q)
  <2>1. CASE q = p
    BY <1>4, <1>5, <1>8, <2>1 DEF Agree
  <2>2. CASE q # p
    <3>1. Awaits(s, q) => Awaits(s2, q)
      BY <1>6, <1>7, <2>2, StillAwaits
    <3>2. Agree(entry, file, q) => Agree(entry', file', q)
      BY <1>4, <1>5, <2>2 DEF Agree
    <3> QED  BY <3>1, <3>2 DEF Consistent
  <2> QED  BY <2>1, <2>2
<1> QED  BY <1>9, <1>10, <1>11 DEF Consistent, s2

\* A look-up that ends the call, or writes back what it found.
LEMMA LookUpMatches ==
  ASSUME TypeOK, InOrder, TypeOK', NEW c \in Procs, prog[c] # <<>>,
         Consistent(prog[c], entry, file), Check(c) \/ Hit(c) \/ Expire(c)
  PROVE  Consistent(prog'[c], entry', file')
<1>1. UNCHANGED <<file, entry>>
  BY DEF Check, Hit, Expire
<1>2. First(c).do \in {"check", "hit", "expire"} /\ \E do : Step(c, do) /\ do \in {"check", "hit", "expire"}
  BY FirstStep DEF Check, Hit, Expire
<1>3. \A p \in Paths : Agree(entry, file, p)
  BY <1>2, LookUpAlone DEF Consistent
<1>4. \A p \in Paths : Agree(entry', file', p)
  BY <1>1, <1>3 DEF Agree
<1>5. CASE Continue(c, <<>>)
  BY <1>1, <1>2, <1>5, LooksOn
<1>6. CASE Abort(c)
  <2>1. prog'[c] = <<>>
    BY <1>6, StepAborts
  <2>2. HeadFits(prog'[c], file') /\ Gone(prog'[c], file')
    BY <2>1 DEF HeadFits, Gone
  <2> QED  BY <1>4, <2>2 DEF Consistent
<1>7. ASSUME NEW x \in Steps, x.do = "credit", entry[x.path] # None,
             x.entry.size = entry[x.path].size, Continue(c, <<x>>)
      PROVE  Consistent(prog'[c], entry', file')
  <2>1. /\ prog'[c][1] = x
        /\ \A i \in 1..Len(prog'[c]) :
             prog'[c][i] = x \/ \E j \in 2..Len(prog[c]) : prog'[c][i] = prog[c][j]
    BY <1>7, GoesTo
  <2>2. x.path \in Paths
    BY <1>7, StepTypes
  <2>3. HeadFits(prog'[c], file')
    BY <1>1, <1>3, <1>7, <2>1, <2>2 DEF HeadFits, Agree
  <2>4. \A i \in 1..Len(prog[c]) : prog[c][i].do \notin {"find", "drop"}
    BY <1>2, FrontOnly
  <2>5. \A j \in 2..Len(prog[c]) : j \in 1..Len(prog[c])
    OBVIOUS
  <2>6. Gone(prog'[c], file')
    BY <1>7, <2>1, <2>4, <2>5 DEF Gone
  <2> QED  BY <1>4, <2>3, <2>6 DEF Consistent
<1>8. Check(c) => Continue(c, <<>>) \/ Abort(c)
  BY DEF Check
<1> QED  BY <1>5, <1>6, <1>7, <1>8, WritesBack

\* A turn of a deleting loop: on a sound disk, an entry is deleted of every file
\* that is removed.
LEMMA EvictMatches ==
  ASSUME TypeOK, InOrder, TypeOK', NEW c \in Procs, prog[c] # <<>>, disk = "sound",
         Consistent(prog[c], entry, file), Evict(c)
  PROVE  Consistent(prog'[c], entry', file')
<1> DEFINE s == prog[c]
           s2 == prog'[c]
           a == First(c)
<1>1. Step(c, "evict") /\ UNCHANGED entry
  BY DEF Evict
<1>2. a \in Steps /\ a.do = "evict" /\ 1 \in 1..Len(s)
  BY <1>1, FirstStep
<1>3. s \in Seq(Steps) /\ s2 \in Seq(Steps) /\ s[1] = a
  BY DEF TypeOK, First
<1>4. "removed" \in a.after
  <2>1. Removes(s, 1)
    BY <1>2 DEF InOrder, WellFormed
  <2> QED  BY <1>2, <1>3, <2>1 DEF Removes
<1>5. \A i \in 1..Len(s) : s[i].do \notin {"find", "drop"}
  BY <1>2, FrontOnly
<1>6. \A j \in 2..Len(s) : j \in 1..Len(s)
  OBVIOUS
<1>7. CASE Continue(c, <<>>) /\ UNCHANGED file
  BY <1>1, <1>7, LooksOn
<1>8. ASSUME NEW x \in Steps, x.do = "evict", Continue(c, <<x>>), UNCHANGED file
      PROVE  Consistent(s2, entry', file')
  BY <1>1, <1>2, <1>8, LooksOnTo
<1>9. ASSUME NEW p \in Paths, NEW x \in Steps, x.do = "evict",
             file'[p].content = "absent", \A q \in Paths \ {p} : file'[q] = file[q],
             Continue(c, <<[do |-> "find", path |-> p]>> \o <<x>>)
      PROVE  Consistent(s2, entry', file')
  <2> DEFINE y == [do |-> "find", path |-> p]
  <2>1. y \in Steps /\ y.do = "find" /\ y.path = p
    BY DEF Steps
  <2> HIDE DEF y
  <2>2. Continue(c, <<y>> \o <<x>>)
    BY <1>9 DEF y
  <2>3. /\ s2[1] = y
        /\ \A i \in 1..Len(s2) : \/ s2[i] = y \/ s2[i] = x
                                 \/ \E j \in 2..Len(s) : s2[i] = s[j]
        /\ \A j \in 2..Len(s) : \E i \in 1..Len(s2) : s2[i] = s[j]
        /\ \E i \in 1..Len(s2) : s2[i] = y
    BY <2>1, <2>2, GoesToTwo
  <2> HIDE DEF s2
  <2>4. HeadFits(s2, file')
    BY <2>1, <2>3 DEF HeadFits
  <2>5. Gone(s2, file')
    BY <1>5, <1>6, <1>9, <2>1, <2>3 DEF Gone
  <2>6. ASSUME NEW q \in Paths PROVE Agree(entry', file', q) \/ Awaits(s2, q)
    <3>1. CASE q = p
      BY <2>1, <2>3, <3>1 DEF Awaits
    <3>2. CASE q # p
      <4>1. Awaits(s, q) => Awaits(s2, q)
        BY <1>2, <1>3, <2>3, StillAwaits
      <4>2. Agree(entry, file, q) => Agree(entry', file', q)
        BY <1>1, <1>9, <3>2 DEF Agree
      <4> QED  BY <4>1, <4>2 DEF Consistent
    <3> QED  BY <3>1, <3>2
  <2> QED  BY <2>4, <2>5, <2>6 DEF Consistent
<1>10. ASSUME NEW p \in Paths, NEW x \in Steps, x.do = "evict", NEW outcome \in RemoveOutcomes(p),
              file' = IF outcome # "removed" THEN file
                      ELSE [file EXCEPT ![p] = [gen |-> @.gen + 1, content |-> "absent"]],
              Continue(c, IF outcome \in a.after THEN <<[do |-> "find", path |-> p]>> \o <<x>>
                          ELSE <<x>>)
       PROVE  Consistent(s2, entry', file')
  <2>1. outcome = IF Absent(p) THEN "missing" ELSE "removed"
    BY DEF RemoveOutcomes
  <2>2. file'[p].content = "absent" /\ \A q \in Paths \ {p} : file'[q] = file[q]
    BY <1>10, <2>1 DEF TypeOK, Absent
  <2>3. CASE outcome \in a.after
    <3> HIDE DEF s2
    <3> QED  BY <1>9, <1>10, <2>2, <2>3
  <2>4. CASE outcome \notin a.after
    <3>1. outcome # "removed"
      BY <1>4, <2>4
    <3> HIDE DEF s2
    <3> QED  BY <1>8, <1>10, <2>4, <3>1
  <2> QED  BY <2>3, <2>4
<1> HIDE DEF s2
<1>11. \/ Continue(c, <<>>) /\ UNCHANGED file
       \/ \E p \in Paths, x \in Steps :
            /\ x.do = "evict"
            /\ \E outcome \in RemoveOutcomes(p) :
                 /\ file' = IF outcome # "removed" THEN file
                            ELSE [file EXCEPT ![p] = [gen |-> @.gen + 1, content |-> "absent"]]
                 /\ Continue(c, IF outcome \in a.after THEN <<[do |-> "find", path |-> p]>> \o <<x>>
                                ELSE <<x>>)
  BY Evicts
<1> QED  BY <1>7, <1>10, <1>11 DEF s2

\* Every step of the only call at work.
LEMMA MatchStep ==
  ASSUME TypeOK, InOrder, TypeOK', InOrder', disk = "sound", NEW c \in Procs, prog[c] # <<>>,
         Consistent(prog[c], entry, file), ProcStep(c)
  PROVE  Consistent(prog'[c], entry', file')
<1>1. CASE FileStep(c)
  <2>1. CASE Read(c)
    <3>1. Step(c, "read") /\ UNCHANGED <<file, entry>> /\ Continue(c, <<>>)
      BY <2>1 DEF Read
    <3> QED  BY <3>1, LooksOn
  <2>2. ~FillFails(c)
    BY DEF FillFails
  <2> QED  BY <1>1, <2>1, <2>2, OpenMatches, FillMatches, EvictMatches DEF FileStep
<1>2. CASE EntryStep(c)
  <2>1. CASE Debit(c)
    <3>1. Step(c, "debit") /\ UNCHANGED <<file, entry>> /\ Continue(c, <<>>)
      BY <2>1 DEF Debit
    <3> QED  BY <3>1, LooksOn
  <2>2. CASE Locate(c)
    <3>1. First(c).do = "locate" /\ Step(c, "locate") /\ UNCHANGED <<file, entry>>
      BY <2>2, LocateDeletes DEF Locate
    <3>2. CASE Continue(c, <<>>)
      BY <3>1, <3>2, LooksOn
    <3>3. ASSUME NEW x \in Steps, x.do = "evict", Continue(c, <<x>>)
          PROVE  Consistent(prog'[c], entry', file')
      BY <3>1, <3>3, LooksOnTo
    <3> QED  BY <2>2, <3>2, <3>3, LocateDeletes
  <2> QED  BY <1>2, <2>1, <2>2, CreditMatches, SetMatches, FindMatches, DropMatches, LookUpMatches
           DEF EntryStep
<1>3. CASE SizeStep(c)
  <2>1. CASE Persist(c)
    <3>1. Step(c, "persist") /\ UNCHANGED <<file, entry>> /\ Continue(c, <<>>)
      BY <2>1 DEF Persist
    <3> QED  BY <3>1, LooksOn
  <2>2. CASE Room(c) \/ Overfull(c)
    <3>1. First(c).do \in {"room", "overfull"} /\ Step(c, First(c).do) /\ UNCHANGED <<file, entry>>
      BY <2>2, PrunesOrNot DEF Room, Overfull
    <3>2. CASE Continue(c, <<>>)
      BY <3>1, <3>2, LooksOn
    <3>3. ASSUME NEW x \in Steps, x.do = "pick", Continue(c, <<x>>)
          PROVE  Consistent(prog'[c], entry', file')
      BY <3>1, <3>3, LooksOnTo
    <3> QED  BY <2>2, <3>2, <3>3, PrunesOrNot
  <2>3. CASE List(c)
    <3>1. First(c).do = "pick" /\ UNCHANGED <<file, entry>>
      BY <2>3, ListEvicts DEF List
    <3>2. ASSUME NEW x \in Steps, x.do = "evict", Continue(c, <<x>>)
          PROVE  Consistent(prog'[c], entry', file')
      BY <3>1, <3>2, LooksOnTo
    <3> QED  BY <2>3, <3>2, ListEvicts
  <2> QED  BY <1>3, <2>1, <2>2, <2>3 DEF SizeStep
<1> QED  BY <1>1, <1>2, <1>3 DEF ProcStep

\* What the only call at work makes agree, every call does.
LEMMA ConsistentAll ==
  ASSUME NEW c \in Procs, NEW P \in [Procs -> Seq(Steps)], \A d \in Procs \ {c} : P[d] = <<>>,
         NEW e, NEW f, Consistent(P[c], e, f)
  PROVE  /\ \A d \in Procs : HeadFits(P[d], f) /\ Gone(P[d], f)
         /\ \A p \in Paths : Agree(e, f, p) \/ \E d \in Procs : Awaits(P[d], p)
<1>1. \A d \in Procs \ {c} : HeadFits(P[d], f) /\ Gone(P[d], f)
  BY DEF HeadFits, Gone
<1> QED  BY <1>1 DEF Consistent

\* Every step of the system.
LEMMA SerialMatchStep ==
  ASSUME TypeOK, InOrder, TypeOK', InOrder', Alone, Serial, SerialMatch, ~Crash, [Next]_vars
  PROVE  SerialMatch'
<1> SUFFICES ASSUME disk = "sound" PROVE SerialMatch'
  BY Touches DEF SerialMatch
<1>1. ASSUME NEW c \in Procs, ProcStep(c) PROVE SerialMatch'
  <2>1. prog[c] # <<>> /\ \A d \in Procs \ {c} : prog'[d] = prog[d]
    BY <1>1, HeadAfter
  <2>2. \A d \in Procs \ {c} : prog'[d] = <<>>
    BY <2>1, OneAtWork
  <2>3. Consistent(prog'[c], entry', file')
    BY <1>1, <2>1, ConsistentNow, MatchStep
  <2>4. prog' \in [Procs -> Seq(Steps)]
    BY DEF TypeOK
  <2>5. /\ \A d \in Procs : HeadFits(prog'[d], file') /\ Gone(prog'[d], file')
        /\ \A p \in Paths : Agree(entry', file', p) \/ \E d \in Procs : Awaits(prog'[d], p)
    BY <2>2, <2>3, <2>4, ConsistentAll
  <2> QED  BY <2>5 DEF SerialMatch
<1>2. ASSUME NEW c \in Procs, Begins(c) PROVE SerialMatch'
  <2>1. UNCHANGED <<file, entry>>
    BY <1>2 DEF Begins
  <2>2. \A d \in Procs : prog[d] = <<>>
    BY <1>2 DEF Begins, Quiet, Alone
  <2>3. \A p \in Paths : Agree(entry, file, p)
    BY <2>2 DEF SerialMatch, Awaits
  <2>4. PICK steps \in Seq(Steps) :
          /\ prog' = [prog EXCEPT ![c] = steps]
          /\ steps[1].do \in {"open", "check", "locate", "pick", "overfull"}
          /\ \A i \in 1..Len(steps) : steps[i].do \notin {"find", "drop"}
    BY <1>2 DEF Begins
  <2>5. \A d \in Procs : prog'[d] = steps \/ prog'[d] = <<>>
    BY <2>2, <2>4 DEF TypeOK
  <2>6. HeadFits(steps, file') /\ Gone(steps, file')
    BY <2>4 DEF HeadFits, Gone
  <2>7. HeadFits(<<>>, file') /\ Gone(<<>>, file')
    BY DEF HeadFits, Gone
  <2>8. \A p \in Paths : Agree(entry', file', p)
    BY <2>1, <2>3 DEF Agree
  <2>9. \A d \in Procs : HeadFits(prog'[d], file') /\ Gone(prog'[d], file')
    BY <2>5, <2>6, <2>7
  <2> QED  BY <2>8, <2>9 DEF SerialMatch
<1>3. CASE UNCHANGED <<disk, prog, entry, file>>
  BY <1>3 DEF SerialMatch, HeadFits, Gone, Agree, Awaits
<1>4. (\E c \in Procs : Return(c)) \/ Restart \/ UNCHANGED vars => UNCHANGED <<disk, prog, entry, file>>
  BY DEF Return, Restart, vars
<1> QED  BY <1>1, <1>2, <1>3, <1>4, StepCases

\* Between the calls of one user at a time, as long as the process does not die,
\* an entry and its file stand or fall together on a sound disk, and the file is
\* as long as the entry says: Put files what it wrote, a Get writes back what it
\* read, and a deletion takes the file first and the entry with it.
THEOREM EntriesMatch ==
  ASSUME Serial
  PROVE  Spec => [](crashes = 0 => EntriesMatchFiles)
<1> DEFINE I == crashes = 0 => SerialMatch
<1>1. Init => Alone /\ I
  BY DEF Init, Alone, SerialMatch, HeadFits, Gone, Agree
<1>2. /\ TypeOK /\ InOrder /\ TypeOK' /\ InOrder' /\ [Next]_vars
      /\ Alone /\ I
      => Alone' /\ I'
  <2> SUFFICES ASSUME TypeOK, InOrder, TypeOK', InOrder', [Next]_vars, Alone,
                      crashes = 0 => SerialMatch, crashes' = 0
               PROVE  SerialMatch'
    BY AloneStep
  <2>1. ~Crash
    BY DEF Crash, TypeOK
  <2>2. crashes = 0
    BY <2>1, SizeTouches
  <2> QED  BY <2>1, <2>2, SerialMatchStep
<1>3. TypeOK /\ Alone /\ I => (crashes = 0 => EntriesMatchFiles)
  <2> SUFFICES ASSUME Alone, SerialMatch, Quiet, disk = "sound", NEW p \in Paths
               PROVE  Agree(entry, file, p)
    BY DEF EntriesMatchFiles, Agree, Absent
  <2>1. \A c \in Procs : prog[c] = <<>>
    BY DEF Alone, Quiet
  <2>2. \A c \in Procs : ~Awaits(prog[c], p)
    BY <2>1 DEF Awaits
  <2> QED  BY <2>2 DEF SerialMatch
<1> HIDE DEF I
<1> QED  BY <1>1, <1>2, <1>3, Structure, PTL DEF Spec

-----------------------------------------------------------------------------
(* A cache used by one client at a time is a bounded LRU map.               *)
(* A call is seen as one step of that map, when it returns. k is the call,  *)
(* s what it has still to do, e the entries and f the files.                *)

Puts == {"put", "putTTL"}
Evicting == {"pick", "evict", "find", "debit", "drop"}
Does(op) ==
  CASE op \in Puts -> Evicting \cup {"open", "fill", "room", "credit", "set", "expire"}
    [] op = "get" -> {"check", "hit", "credit", "set", "read"}
    [] op = "remove" -> {"locate", "evict", "find", "debit", "drop"}
    [] OTHER -> Evicting \cup {"overfull", "persist"}

\* What a call does, it does to its own path, evictions apart. A Put that may
\* still evict has its file and its entry still to write.
OwnStep(k, x) ==
  /\ x.do \in Does(k.op)
  /\ x.do \in {"open", "fill", "credit", "set", "expire", "check", "hit", "read", "locate"} => x.path = k.path
  /\ x.do = "fill" => x.data = k.data
  /\ k.op = "remove" /\ x.do = "evict" =>
       Len(x.items) <= 1 /\ \A j \in 1..Len(x.items) : x.items[j].path = k.path /\ x.need > x.floor
Fresh(x) == x.do = "hit" \/ (x.do = "credit" /\ x.touch)
Later(s, i) ==
  /\ s[i].do \in Evicting \cup {"open", "room"} => \E j \in 1..Len(s) : j > i /\ s[j].do = "fill"
  /\ s[i].do \in Evicting \cup {"open", "room", "fill"} => \E j \in 1..Len(s) : j > i /\ Fresh(s[j])
Ending(s, i) ==
  /\ s[i].do = "credit" => i = 1 \/ s[i].touch
  /\ s[i].do = "read" => i = Len(s)
  /\ s[i].do = "check" => i = 1
  /\ s[i].do = "locate" => Len(s) = 1
Follows(k, s) ==
  \A i \in 1..Len(s) : OwnStep(k, s[i]) /\ Ending(s, i) /\ (k.op \in Puts => Later(s, i))

\* The paths the call is not about that still have their file.
Mine(k) == IF k.op \in Puts \cup {"get", "remove"} THEN {k.path} ELSE {}
Left(k, f) == {q \in Paths \ Mine(k) : f[q].content # "absent"}

\* They are as they were when the call began, and no older than any that is gone.
Unchanged(k, e, f) ==
  /\ \A q \in Left(k, f) : e[q] # None /\ k.before[q] = f[q].content
  /\ \A q, r \in Left(k, f) : <<q, r>> \in k.older <=> e[q].used < e[r].used
LeastGone(k, f) ==
  \A q \in Paths \ Mine(k) : k.before[q] # None /\ q \notin Left(k, f) =>
    /\ k.op \notin {"get", "remove"}
    /\ \A r \in Left(k, f) : <<r, q>> \notin k.older
Known(k) == \A r \in k.older : k.before[r[1]] # None /\ k.before[r[2]] # None

\* What is listed for eviction comes after all that are older and still there.
Due(k, x, e, f) ==
  \A j \in 1..Len(x) : x[j].path \in Left(k, f) =>
    \A r \in Left(k, f) : e[r].used < e[x[j].path].used => \E l \in 1..Len(x) : l < j /\ x[l].path = r
AllDue(k, s, e, f) == \A i \in 1..Len(s) : s[i].do = "evict" => Due(k, s[i].items, e, f)

\* The path of the call is, or will be, used after all others.
Latest(k, n, e, f) == \A q \in Left(k, f) : e[q].used < n
Renews(k, s, e, f) ==
  \/ \E i \in 1..Len(s) : Fresh(s[i])
  \/ s # <<>> /\ s[1].do \in {"credit", "set"} /\ Latest(k, s[1].entry.used, e, f)
  \/ /\ e[k.path] # None /\ Latest(k, e[k.path].used, e, f)
     /\ s # <<>> => s[1].do \notin {"credit", "set"}

\* What the call will have done when it returns.
Achieves(k, s, e, f) ==
  /\ k.op \in Puts =>
       /\ (\E i \in 1..Len(s) : s[i].do = "fill") \/ f[k.path].content = k.data
       /\ Renews(k, s, e, f)
  /\ k.op = "get" =>
       /\ k.before[k.path] = IF f[k.path].content = "absent" THEN None ELSE f[k.path].content
       /\ k.before[k.path] = None \/ Renews(k, s, e, f)
       /\ (\E i \in 1..Len(s) : s[i].do = "read") \/ k.answer = k.before[k.path]
       /\ s # <<>> /\ s[1].do = "check" => k.answer = None
  /\ k.op = "remove" =>
       \/ f[k.path].content = "absent"
       \/ \E i \in 1..Len(s) : s[i].do = "locate" \/ (s[i].do = "evict" /\ s[i].items # <<>>)

Honest(k, s, e, f) ==
  /\ Follows(k, s)
  /\ Unchanged(k, e, f) /\ LeastGone(k, f) /\ Known(k)
  /\ AllDue(k, s, e, f)
  /\ Achieves(k, s, e, f)

\* A call has the arguments of its operation.
Sensible(k) ==
  /\ k.op \in Puts \cup {"get", "remove"} => k.path \in Paths
  /\ k.op \in Puts => k.data \in Data

\* No time is ahead of the clock.
ClockAhead ==
  /\ \A p \in Present : entry[p].used <= clock
  /\ \A c \in Procs : \A i \in 1..Len(prog[c]) :
       prog[c][i].do \in {"credit", "set"} => prog[c][i].entry.used <= clock

SerialHonest ==
  disk = "sound" => \A c \in Procs : call[c] # NoCall =>
    /\ Sensible(call[c]) /\ (call[c].op = "get" => c \in Clients)
    /\ Honest(call[c], prog[c], entry, file)

\* u is t, then what follows the first of s.
Stacks(u, t, s, n) ==
  /\ u \in Seq(Steps) /\ n \in Nat /\ Len(u) = n + Len(s) - 1 /\ Len(s) \in Nat /\ Len(s) >= 1
  /\ \A i \in 1..n : i \in 1..Len(u) /\ u[i] = t[i]
  /\ \A j \in 2..Len(s) : j + n - 1 \in 1..Len(u) /\ u[j + n - 1] = s[j]
  /\ \A i \in 1..Len(u) : i \in 1..n \/ \E j \in 2..Len(s) : i = j + n - 1

\* The rest of a call, behind what a step puts in front of it.
LEMMA Behind ==
  ASSUME NEW s \in Seq(Steps), s # <<>>, NEW t \in Seq(Steps)
  PROVE  \E n : n = Len(t) /\ Stacks(t \o Tail(s), t, s, n)
<1> DEFINE u == t \o Tail(s)
<1> DEFINE n == Len(t)
<1>1. /\ u \in Seq(Steps) /\ n \in Nat /\ Len(u) = n + Len(s) - 1 /\ Len(s) \in Nat /\ Len(s) >= 1
      /\ \A i \in 1..n : u[i] = t[i]
      /\ \A i \in n + 1..Len(u) : u[i] = s[i - n + 1] /\ i - n + 1 \in 2..Len(s)
  BY Rest
<1> HIDE DEF u
<1>n. n = Len(t)
  OBVIOUS
<1> HIDE DEF n
<1>2. \A j \in 2..Len(s) : j + n - 1 \in n + 1..Len(u) /\ u[j + n - 1] = s[j]
  <2> SUFFICES ASSUME NEW j \in 2..Len(s) PROVE j + n - 1 \in n + 1..Len(u) /\ u[j + n - 1] = s[j]
    OBVIOUS
  <2>1. j + n - 1 \in n + 1..Len(u) /\ (j + n - 1) - n + 1 = j
    BY <1>1
  <2> QED  BY <1>1, <2>1
<1>3. \A i \in 1..Len(u) : i \in 1..n \/ \E j \in 2..Len(s) : i = j + n - 1
  <2> SUFFICES ASSUME NEW i \in 1..Len(u), i \notin 1..n PROVE \E j \in 2..Len(s) : i = j + n - 1
    OBVIOUS
  <2>1. i \in n + 1..Len(u)
    BY <1>1
  <2>2. i - n + 1 \in 2..Len(s) /\ i = (i - n + 1) + n - 1
    BY <1>1, <2>1
  <2> QED  BY <2>2
<1>4. Stacks(u, t, s, n)
  BY <1>1, <1>2, <1>3 DEF Stacks
<1> QED  BY <1>4, <1>n DEF u

\* What a step may put in front of the rest of its call.
Joins(k, s, t) ==
  \A i \in 1..Len(t) :
    /\ OwnStep(k, t[i])
    /\ t[i].do \notin {"open", "room", "fill", "read", "check", "locate"}
    /\ t[i].do = "credit" => i = 1
    /\ t[i].do \in Evicting /\ k.op \in Puts => s[1].do \in Evicting \cup {"room"}

\* A call keeps to its path and its order.
LEMMA FollowsOn ==
  ASSUME NEW k, NEW s \in Seq(Steps), s # <<>>, NEW t \in Seq(Steps), NEW u, u = t \o Tail(s),
         Follows(k, s), Joins(k, s, t)
  PROVE  Follows(k, u)
<1>n. PICK n : n = Len(t) /\ Stacks(u, t, s, n)
  BY Behind
<1>1. /\ u \in Seq(Steps) /\ n \in Nat /\ Len(u) = n + Len(s) - 1 /\ Len(s) \in Nat /\ Len(s) >= 1
      /\ \A i \in 1..n : i \in 1..Len(u) /\ u[i] = t[i]
      /\ \A j \in 2..Len(s) : j + n - 1 \in 1..Len(u) /\ u[j + n - 1] = s[j]
      /\ \A i \in 1..Len(u) : i \in 1..n \/ \E j \in 2..Len(s) : i = j + n - 1
  BY <1>n DEF Stacks
<1>2. \A i \in 1..Len(s) : OwnStep(k, s[i]) /\ Ending(s, i) /\ (k.op \in Puts => Later(s, i))
  BY DEF Follows
<1>3. ASSUME NEW i \in 1..n PROVE OwnStep(k, u[i]) /\ Ending(u, i) /\ (k.op \in Puts => Later(u, i))
  <2>1. u[i] = t[i] /\ i \in 1..Len(u)
    BY <1>1
  <2>2. /\ OwnStep(k, t[i])
        /\ t[i].do \notin {"open", "room", "fill", "read", "check", "locate"}
        /\ t[i].do = "credit" => i = 1
        /\ t[i].do \in Evicting /\ k.op \in Puts => s[1].do \in Evicting \cup {"room"}
    BY <1>3, <1>n DEF Joins
  <2>3. Ending(u, i)
    BY <2>1, <2>2 DEF Ending
  <2>4. ASSUME k.op \in Puts PROVE Later(u, i)
    <3>1. 1 \in 1..Len(s)
      BY <1>1
    <3>2. Later(s, 1)
      BY <1>2, <2>4, <3>1
    <3>3. ASSUME t[i].do \in Evicting
          PROVE  /\ \E j \in 1..Len(u) : j > i /\ u[j].do = "fill"
                 /\ \E j \in 1..Len(u) : j > i /\ Fresh(u[j])
      <4>1. s[1].do \in Evicting \cup {"room"}
        BY <2>2, <2>4, <3>3
      <4>2. PICK j \in 1..Len(s) : j > 1 /\ s[j].do = "fill"
        BY <3>2, <4>1 DEF Later
      <4>3. PICK m \in 1..Len(s) : m > 1 /\ Fresh(s[m])
        BY <3>2, <4>1 DEF Later
      <4>4. j \in 2..Len(s) /\ m \in 2..Len(s) /\ j + n - 1 > i /\ m + n - 1 > i
        BY <1>1, <1>3, <4>2, <4>3
      <4>5. /\ j + n - 1 \in 1..Len(u) /\ u[j + n - 1] = s[j]
            /\ m + n - 1 \in 1..Len(u) /\ u[m + n - 1] = s[m]
        BY <1>1, <4>4
      <4>6. u[j + n - 1].do = "fill" /\ Fresh(u[m + n - 1])
        BY <4>2, <4>3, <4>5
      <4> QED  BY <4>4, <4>5, <4>6
    <3> QED  BY <2>1, <2>2, <3>3 DEF Later
  <2> QED  BY <2>1, <2>2, <2>3, <2>4
<1>4. ASSUME NEW j \in 2..Len(s)
      PROVE  LET i == j + n - 1 IN OwnStep(k, u[i]) /\ Ending(u, i) /\ (k.op \in Puts => Later(u, i))
  <2> DEFINE i == j + n - 1
  <2>1. u[i] = s[j] /\ i \in 1..Len(u) /\ j \in 1..Len(s) /\ j # 1
    BY <1>1, <1>4
  <2>2. OwnStep(k, s[j]) /\ Ending(s, j) /\ (k.op \in Puts => Later(s, j))
    BY <1>2, <2>1
  <2>3. j = Len(s) => i = Len(u)
    BY <1>1
  <2>4. Len(s) # 1
    BY <1>1, <2>1
  <2>5. \A m \in 1..Len(s) : m > j => m + n - 1 \in 1..Len(u) /\ m + n - 1 > i /\ u[m + n - 1] = s[m]
    <3> SUFFICES ASSUME NEW m \in 1..Len(s), m > j
                 PROVE  m + n - 1 \in 1..Len(u) /\ m + n - 1 > i /\ u[m + n - 1] = s[m]
      OBVIOUS
    <3>1. m \in 2..Len(s) /\ m + n - 1 > i
      BY <1>1, <1>4
    <3> QED  BY <1>1, <3>1
  <2> HIDE DEF i
  <2>6. Ending(u, i)
    BY <2>1, <2>2, <2>3, <2>4 DEF Ending
  <2>7. ASSUME k.op \in Puts PROVE Later(u, i)
    <3>1. (\E m \in 1..Len(s) : m > j /\ s[m].do = "fill") => \E m \in 1..Len(u) : m > i /\ u[m].do = "fill"
      BY <2>5
    <3>2. (\E m \in 1..Len(s) : m > j /\ Fresh(s[m])) => \E m \in 1..Len(u) : m > i /\ Fresh(u[m])
      BY <2>5
    <3> QED  BY <2>1, <2>2, <2>7, <3>1, <3>2 DEF Later
  <2> QED  BY <2>1, <2>2, <2>6, <2>7 DEF i
<1>5. \A i \in 1..Len(u) : OwnStep(k, u[i]) /\ Ending(u, i) /\ (k.op \in Puts => Later(u, i))
  BY <1>1, <1>3, <1>4
<1> QED  BY <1>5 DEF Follows

\* What a step changes of the path of its call is nothing to the other paths.
LEMMA OthersSame ==
  ASSUME NEW k, NEW e, NEW f, NEW e2, NEW f2,
         \A q \in Paths \ Mine(k) : f2[q].content = f[q].content,
         \A q \in Left(k, f) : e2[q] = e[q]
  PROVE  /\ Left(k, f2) = Left(k, f)
         /\ Unchanged(k, e, f) => Unchanged(k, e2, f2)
         /\ LeastGone(k, f) => LeastGone(k, f2)
         /\ \A x : Due(k, x, e, f) => Due(k, x, e2, f2)
         /\ \A n : Latest(k, n, e, f) => Latest(k, n, e2, f2)
<1>1. Left(k, f2) = Left(k, f)
  <2>1. \A q \in Paths \ Mine(k) : f2[q].content # "absent" <=> f[q].content # "absent"
    OBVIOUS
  <2> QED  BY <2>1, Zenon DEF Left
<1>2. \A q \in Left(k, f) : e2[q] = e[q] /\ f2[q].content = f[q].content
  BY DEF Left
<1>3. Unchanged(k, e, f) => Unchanged(k, e2, f2)
  BY <1>1, <1>2 DEF Unchanged
<1>4. LeastGone(k, f) => LeastGone(k, f2)
  BY <1>1 DEF LeastGone
<1>5. \A x : Due(k, x, e, f) => Due(k, x, e2, f2)
  <2> SUFFICES ASSUME NEW x, Due(k, x, e, f) PROVE Due(k, x, e2, f2)
    OBVIOUS
  <2> QED  BY <1>1, <1>2 DEF Due
<1>6. \A n : Latest(k, n, e, f) => Latest(k, n, e2, f2)
  BY <1>1, <1>2 DEF Latest
<1> QED  BY <1>1, <1>3, <1>4, <1>5, <1>6

\* The evictions a call still has to make.
LEMMA DueOn ==
  ASSUME NEW k, NEW e, NEW f, NEW s \in Seq(Steps), s # <<>>, NEW t \in Seq(Steps),
         NEW u, u = t \o Tail(s), AllDue(k, s, e, f),
         \A i \in 1..Len(t) : t[i].do = "evict" => Due(k, t[i].items, e, f)
  PROVE  AllDue(k, u, e, f)
<1> SUFFICES ASSUME NEW i \in 1..Len(u), u[i].do = "evict" PROVE Due(k, u[i].items, e, f)
  BY DEF AllDue
<1>n. PICK n : n = Len(t) /\ Stacks(u, t, s, n)
  BY Behind
<1>1. /\ \A j \in 1..n : u[j] = t[j]
      /\ \A j \in 2..Len(s) : u[j + n - 1] = s[j] /\ j \in 1..Len(s)
      /\ i \in 1..n \/ \E j \in 2..Len(s) : i = j + n - 1
  BY <1>n DEF Stacks
<1>2. CASE i \in 1..n
  BY <1>n, <1>1, <1>2
<1>3. ASSUME NEW j \in 2..Len(s), i = j + n - 1 PROVE Due(k, u[i].items, e, f)
  BY <1>1, <1>3 DEF AllDue
<1> QED  BY <1>1, <1>2, <1>3

\* A call at work on a sound disk, with no other beside it.
Working(c) ==
  /\ TypeOK /\ InOrder /\ Alone /\ Serial /\ SerialMatch /\ ClockAhead /\ disk = "sound"
  /\ prog[c] # <<>> /\ call[c] # NoCall
  /\ Sensible(call[c]) /\ Honest(call[c], prog[c], entry, file)

\* What is known of it, and of its first step.
LEMMA AtWork ==
  ASSUME NEW c \in Procs, Working(c)
  PROVE  /\ TypeOK /\ InOrder
         /\ prog[c] \in Seq(Steps) /\ prog[c] # <<>> /\ 1 \in 1..Len(prog[c])
         /\ First(c) = prog[c][1] /\ First(c) \in Steps /\ call[c] \in Calls
         /\ OwnStep(call[c], First(c)) /\ Ending(prog[c], 1)
         /\ call[c].op \in Puts => Later(prog[c], 1)
         /\ Consistent(prog[c], entry, file)
         /\ Sensible(call[c]) /\ Follows(call[c], prog[c])
         /\ Unchanged(call[c], entry, file) /\ LeastGone(call[c], file) /\ Known(call[c])
         /\ AllDue(call[c], prog[c], entry, file) /\ Achieves(call[c], prog[c], entry, file)
<1>1. TypeOK /\ InOrder /\ prog[c] # <<>> /\ Honest(call[c], prog[c], entry, file) /\ Sensible(call[c])
  BY DEF Working
<1>2. prog[c] \in Seq(Steps) /\ call[c] \in Calls
  BY DEF Working, TypeOK
<1>3. 1 \in 1..Len(prog[c]) /\ First(c) = prog[c][1] /\ First(c) \in Steps
  BY <1>1, <1>2 DEF First
<1>4. Follows(call[c], prog[c])
  BY <1>1 DEF Honest
<1>5. /\ OwnStep(call[c], First(c)) /\ Ending(prog[c], 1)
      /\ call[c].op \in Puts => Later(prog[c], 1)
  BY <1>3, <1>4 DEF Follows
<1>6. Consistent(prog[c], entry, file)
  BY ConsistentNow DEF Working
<1> QED  BY <1>1, <1>2, <1>3, <1>4, <1>5, <1>6 DEF Honest

\* What a step leaves to be done of what its call had to do.
LEMMA RestKept ==
  ASSUME NEW c \in Procs, Working(c), NEW t \in Seq(Steps), Continue(c, t)
  PROVE  LET s == prog[c]
             u == prog'[c]
         IN
         /\ First(c).do # "fill" /\ (\E i \in 1..Len(s) : s[i].do = "fill")
              => \E i \in 1..Len(u) : u[i].do = "fill"
         /\ ~Fresh(First(c)) /\ (\E i \in 1..Len(s) : Fresh(s[i])) => \E i \in 1..Len(u) : Fresh(u[i])
         /\ First(c).do # "read" /\ (\E i \in 1..Len(s) : s[i].do = "read")
              => \E i \in 1..Len(u) : u[i].do = "read"
         /\ First(c).do \notin {"locate", "evict"}
            /\ (\E i \in 1..Len(s) : s[i].do = "locate" \/ (s[i].do = "evict" /\ s[i].items # <<>>))
              => \E i \in 1..Len(u) : u[i].do = "locate" \/ (u[i].do = "evict" /\ u[i].items # <<>>)
         /\ call[c].op \in Puts /\ First(c).do \in Evicting \cup {"room"}
              => \E i \in 1..Len(u) : u[i].do = "fill"
         /\ call[c].op \in Puts /\ First(c).do \in Evicting \cup {"room", "fill"}
              => \E i \in 1..Len(u) : Fresh(u[i])
<1> DEFINE s == prog[c]
           u == prog'[c]
<1>1. /\ TypeOK /\ s \in Seq(Steps) /\ s # <<>> /\ First(c) = s[1]
      /\ call[c].op \in Puts => Later(s, 1)
  BY AtWork
<1>2. \A j \in 2..Len(s) : \E i \in 1..Len(u) : u[i] = s[j]
  BY <1>1, GoesKeeps
<1>3. \A i \in 1..Len(s) : i = 1 \/ i \in 2..Len(s)
  OBVIOUS
<1>4. \A i \in 1..Len(s) : i > 1 => i \in 2..Len(s)
  OBVIOUS
<1> HIDE DEF s, u
<1>5. First(c).do # "fill" /\ (\E i \in 1..Len(s) : s[i].do = "fill") => \E i \in 1..Len(u) : u[i].do = "fill"
  BY <1>1, <1>2, <1>3
<1>6. ~Fresh(First(c)) /\ (\E i \in 1..Len(s) : Fresh(s[i])) => \E i \in 1..Len(u) : Fresh(u[i])
  BY <1>1, <1>2, <1>3
<1>7. First(c).do # "read" /\ (\E i \in 1..Len(s) : s[i].do = "read") => \E i \in 1..Len(u) : u[i].do = "read"
  BY <1>1, <1>2, <1>3
<1>8. First(c).do \notin {"locate", "evict"}
      /\ (\E i \in 1..Len(s) : s[i].do = "locate" \/ (s[i].do = "evict" /\ s[i].items # <<>>))
        => \E i \in 1..Len(u) : u[i].do = "locate" \/ (u[i].do = "evict" /\ u[i].items # <<>>)
  BY <1>1, <1>2, <1>3
<1>9. call[c].op \in Puts /\ First(c).do \in Evicting \cup {"room"} => \E i \in 1..Len(u) : u[i].do = "fill"
  BY <1>1, <1>2, <1>4 DEF Later
<1>10. call[c].op \in Puts /\ First(c).do \in Evicting \cup {"room", "fill"} => \E i \in 1..Len(u) : Fresh(u[i])
  BY <1>1, <1>2, <1>4 DEF Later
<1> QED  BY <1>5, <1>6, <1>7, <1>8, <1>9, <1>10 DEF s, u

\* No step but that of an open comes back to a check.
LEMMA NotBack ==
  ASSUME NEW c \in Procs, Working(c), NEW t \in Seq(Steps), Continue(c, t), Joins(call[c], prog[c], t)
  PROVE  prog'[c] # <<>> => prog'[c][1].do # "check"
<1> SUFFICES ASSUME prog'[c] # <<>> PROVE prog'[c][1].do # "check"
  OBVIOUS
<1>1. TypeOK /\ prog[c] # <<>> /\ Follows(call[c], prog[c]) /\ prog[c] \in Seq(Steps)
  BY AtWork
<1>2. CASE t # <<>>
  <2>1. prog'[c][1] = t[1] /\ 1 \in 1..Len(t)
    BY <1>1, <1>2, Goes
  <2> QED  BY <2>1 DEF Joins
<1>3. CASE t = <<>>
  <2>1. 2 \in 1..Len(prog[c]) /\ prog'[c][1] = prog[c][2]
    BY <1>1, <1>3, Goes
  <2>2. Ending(prog[c], 2)
    BY <1>1, <2>1 DEF Follows
  <2> QED  BY <2>1, <2>2 DEF Ending
<1> QED  BY <1>2, <1>3

\* A step that disturbs no other path leaves a call that does what it says.
LEMMA HonestOn ==
  ASSUME NEW c \in Procs, Working(c), NEW t \in Seq(Steps), Continue(c, t),
         Joins(call[c], prog[c], t),
         \A q \in Paths \ Mine(call[c]) : file'[q].content = file[q].content,
         \A q \in Left(call[c], file) : entry'[q] = entry[q],
         \A i \in 1..Len(t) : t[i].do = "evict" => Due(call[c], t[i].items, entry, file),
         Achieves(call[c], prog'[c], entry', file')
  PROVE  Honest(call[c], prog'[c], entry', file')
<1> DEFINE k == call[c]
<1>1. /\ TypeOK /\ prog[c] \in Seq(Steps) /\ prog[c] # <<>> /\ Follows(k, prog[c])
      /\ Unchanged(k, entry, file) /\ LeastGone(k, file) /\ Known(k) /\ AllDue(k, prog[c], entry, file)
  BY AtWork
<1>2. prog'[c] = t \o Tail(prog[c])
  BY <1>1, Goes
<1> HIDE DEF k
<1>k. k = call[c]
  BY DEF k
<1>3. Follows(k, prog'[c])
  BY <1>1, <1>2, <1>k, FollowsOn
<1>4. /\ Unchanged(k, entry', file') /\ LeastGone(k, file')
      /\ \A x : Due(k, x, entry, file) => Due(k, x, entry', file')
  BY <1>1, <1>k, OthersSame
<1>5. AllDue(k, prog'[c], entry, file)
  BY <1>1, <1>2, <1>k, DueOn
<1>6. AllDue(k, prog'[c], entry', file')
  BY <1>4, <1>5 DEF AllDue
<1> QED  BY <1>1, <1>3, <1>4, <1>6, <1>k DEF Honest

\* Nothing in front of the rest.
LEMMA NothingJoins ==
  ASSUME NEW k, NEW s, NEW e, NEW f
  PROVE  /\ <<>> \in Seq(Steps) /\ Joins(k, s, <<>>)
         /\ \A i \in 1..Len(<<>>) : <<>>[i].do = "evict" => Due(k, <<>>[i].items, e, f)
<1>1. <<>> \in Seq(Steps) /\ 1..Len(<<>>) = {}
  OBVIOUS
<1> QED  BY <1>1 DEF Joins

\* One step in front of the rest.
LEMMA OneJoins ==
  ASSUME NEW k, NEW s, NEW e, NEW f, NEW x \in Steps, OwnStep(k, x),
         x.do \notin {"open", "room", "fill", "read", "check", "locate"},
         x.do \in Evicting /\ k.op \in Puts => s[1].do \in Evicting \cup {"room"},
         x.do = "evict" => Due(k, x.items, e, f)
  PROVE  /\ <<x>> \in Seq(Steps) /\ Joins(k, s, <<x>>)
         /\ \A i \in 1..Len(<<x>>) : <<x>>[i].do = "evict" => Due(k, <<x>>[i].items, e, f)
<1> DEFINE t == <<x>>
<1>1. t \in Seq(Steps) /\ Len(t) = 1 /\ t[1] = x
  OBVIOUS
<1> HIDE DEF t
<1>2. \A i \in 1..Len(t) : i = 1
  BY <1>1
<1>3. Joins(k, s, t)
  BY <1>1, <1>2 DEF Joins
<1>4. \A i \in 1..Len(t) : t[i].do = "evict" => Due(k, t[i].items, e, f)
  BY <1>1, <1>2
<1> QED  BY <1>1, <1>3, <1>4 DEF t

\* Two steps in front of the rest.
LEMMA TwoJoin ==
  ASSUME NEW k, NEW s, NEW e, NEW f, NEW x \in Steps, NEW y \in Steps, OwnStep(k, x), OwnStep(k, y),
         x.do \in {"find", "debit"}, y.do \in {"evict", "drop"},
         k.op \in Puts => s[1].do \in Evicting \cup {"room"},
         y.do = "evict" => Due(k, y.items, e, f)
  PROVE  /\ <<x>> \o <<y>> \in Seq(Steps) /\ Joins(k, s, <<x>> \o <<y>>)
         /\ \A i \in 1..Len(<<x>> \o <<y>>) :
              (<<x>> \o <<y>>)[i].do = "evict" => Due(k, (<<x>> \o <<y>>)[i].items, e, f)
<1> DEFINE t == <<x>> \o <<y>>
<1>1. t \in Seq(Steps) /\ Len(t) = 2 /\ t[1] = x /\ t[2] = y
  OBVIOUS
<1> HIDE DEF t
<1>2. \A i \in 1..Len(t) : i = 1 \/ i = 2
  BY <1>1
<1>3. Joins(k, s, t)
  BY <1>1, <1>2 DEF Joins
<1>4. \A i \in 1..Len(t) : t[i].do = "evict" => Due(k, t[i].items, e, f)
  BY <1>1, <1>2
<1> QED  BY <1>1, <1>3, <1>4 DEF t

\* What a call does, by its operation.
LEMMA DoesWhat ==
  ASSUME NEW k, NEW x, OwnStep(k, x)
  PROVE  /\ x.do \in {"open", "fill", "room", "expire"} => k.op \in Puts
         /\ x.do \in {"check", "hit", "read"} => k.op = "get"
         /\ x.do \in {"credit", "set"} => k.op \in Puts \cup {"get"}
         /\ x.do = "locate" => k.op = "remove"
         /\ x.do \in {"overfull", "persist", "pick"} => k.op \notin {"get", "remove"}
         /\ x.do \in Evicting => k.op # "get"
         /\ x.do \in {"overfull", "persist"} => k.op \notin Puts
<1>1. x.do \in Does(k.op)
  BY DEF OwnStep
<1>2. CASE k.op \in Puts
  <2>1. Does(k.op) = Evicting \cup {"open", "fill", "room", "credit", "set", "expire"}
    BY <1>2 DEF Does, Puts
  <2> QED  BY <1>1, <1>2, <2>1 DEF Evicting, Puts
<1>3. CASE k.op = "get"
  <2>1. Does(k.op) = {"check", "hit", "credit", "set", "read"}
    BY <1>3 DEF Does, Puts
  <2> QED  BY <1>1, <1>3, <2>1 DEF Evicting, Puts
<1>4. CASE k.op = "remove"
  <2>1. Does(k.op) = {"locate", "evict", "find", "debit", "drop"}
    BY <1>4 DEF Does, Puts
  <2> QED  BY <1>1, <1>4, <2>1 DEF Evicting, Puts
<1>5. CASE k.op \notin Puts \cup {"get", "remove"}
  <2>1. Does(k.op) = Evicting \cup {"overfull", "persist"}
    BY <1>5 DEF Does, Puts
  <2> QED  BY <1>1, <1>5, <2>1 DEF Evicting, Puts
<1> QED  BY <1>2, <1>3, <1>4, <1>5

\* A step that writes no entry leaves its path the latest, or to be.
LEMMA RenewsOn ==
  ASSUME NEW c \in Procs, Working(c), NEW t \in Seq(Steps), Continue(c, t),
         ~Fresh(First(c)), First(c).do \notin {"credit", "set"},
         prog'[c] # <<>> => prog'[c][1].do \notin {"credit", "set"},
         UNCHANGED entry,
         \A q \in Paths \ Mine(call[c]) : file'[q].content = file[q].content,
         Renews(call[c], prog[c], entry, file)
  PROVE  Renews(call[c], prog'[c], entry', file')
<1> DEFINE k == call[c]
<1>1. First(c) = prog[c][1]
  BY AtWork
<1>2. \A n : Latest(k, n, entry, file) => Latest(k, n, entry', file')
  <2> HIDE DEF k
  <2>1. k = call[c]
    BY DEF k
  <2> QED  BY <2>1, OthersSame
<1>3. CASE \E i \in 1..Len(prog[c]) : Fresh(prog[c][i])
  BY <1>3, RestKept DEF Renews
<1>4. CASE entry[k.path] # None /\ Latest(k, entry[k.path].used, entry, file)
  BY <1>2, <1>4 DEF Renews
<1> QED  BY <1>1, <1>3, <1>4 DEF Renews

\* A call that only goes on writes nothing next, unless it has filled a file.
LEMMA GoesOnIdle ==
  ASSUME NEW c \in Procs, Working(c), Continue(c, <<>>), First(c).do \notin {"open", "fill"}
  PROVE  prog'[c] # <<>> => prog'[c][1].do \notin {"credit", "set"}
<1>1. Step(c, First(c).do)
  BY AtWork DEF Step, First
<1>2. TypeOK /\ InOrder
  BY AtWork
<1> DEFINE do == First(c).do
<1> HIDE DEF do
<1>3. Step(c, do) /\ do \notin {"open", "fill"}
  BY <1>1 DEF do
<1> QED  BY <1>2, <1>3, GoesOn

\* A step that looks at files and entries, or at the size.
LEMMA QuietOn ==
  ASSUME NEW c \in Procs, Working(c), UNCHANGED <<file, entry, call>>,
         NEW t \in Seq(Steps), Continue(c, t), Joins(call[c], prog[c], t),
         First(c).do \in {"find", "debit", "room", "overfull", "pick", "persist", "check"},
         First(c).do = "check" => t = <<>>,
         \A i \in 1..Len(t) : t[i].do = "evict" => Due(call[c], t[i].items, entry, file)
  PROVE  Honest(call'[c], prog'[c], entry', file')
<1> DEFINE k == call[c]
           u == prog'[c]
<1>1. OwnStep(k, First(c)) /\ Achieves(k, prog[c], entry, file)
  BY AtWork
<1>2. ~Fresh(First(c))
  BY DEF Fresh
<1> HIDE DEF k, u
<1>3. CASE k.op \in Puts
  <2>1. First(c).do \in Evicting \cup {"room"}
    BY <1>1, <1>3, DoesWhat DEF Puts, Evicting
  <2>2. (\E i \in 1..Len(u) : u[i].do = "fill") /\ (\E i \in 1..Len(u) : Fresh(u[i]))
    BY <1>3, <2>1, RestKept DEF k, u
  <2>3. Achieves(k, u, entry', file')
    BY <1>3, <2>2 DEF Achieves, Renews, Puts
  <2> QED  BY <2>3, HonestOn DEF k, u
<1>4. CASE k.op = "get"
  <2>1. First(c).do = "check"
    BY <1>1, <1>4, DoesWhat DEF Evicting, Puts
  <2>2. prog'[c] # <<>> => prog'[c][1].do \notin {"credit", "set"}
    BY <2>1, GoesOnIdle
  <2>3. Renews(k, prog[c], entry, file) => Renews(k, u, entry', file')
    BY <1>2, <2>1, <2>2, RenewsOn DEF k, u
  <2>4. (\E i \in 1..Len(prog[c]) : prog[c][i].do = "read") => \E i \in 1..Len(u) : u[i].do = "read"
    BY <2>1, RestKept DEF u
  <2>5. u # <<>> => u[1].do # "check"
    BY NotBack DEF u
  <2>6. Achieves(k, u, entry', file')
    BY <1>1, <1>4, <2>3, <2>4, <2>5 DEF Achieves, Puts
  <2> QED  BY <2>6, HonestOn DEF k, u
<1>5. CASE k.op = "remove"
  <2>1. First(c).do \in {"find", "debit"}
    BY <1>1, <1>5, DoesWhat DEF Puts
  <2>2. (\E i \in 1..Len(prog[c]) : prog[c][i].do = "locate" \/ (prog[c][i].do = "evict" /\ prog[c][i].items # <<>>))
          => \E i \in 1..Len(u) : u[i].do = "locate" \/ (u[i].do = "evict" /\ u[i].items # <<>>)
    BY <2>1, RestKept DEF u
  <2>3. Achieves(k, u, entry', file')
    BY <1>1, <1>5, <2>2 DEF Achieves, Puts
  <2> QED  BY <2>3, HonestOn DEF k, u
<1>6. CASE k.op \notin Puts \cup {"get", "remove"}
  <2>1. Achieves(k, u, entry', file')
    BY <1>6 DEF Achieves
  <2> QED  BY <2>1, HonestOn DEF k, u
<1> QED  BY <1>3, <1>4, <1>5, <1>6

\* Room, overfull, persist, debit and check take one look and go on.
LEMMA HonestDebit ==
  ASSUME NEW c \in Procs, Working(c), Debit(c) \/ Persist(c)
  PROVE  Honest(call'[c], prog'[c], entry', file')
<1>1. First(c).do \in {"debit", "persist"} /\ Continue(c, <<>>) /\ UNCHANGED <<file, entry, call>>
  BY AtWork, FirstStep DEF Debit, Persist
<1> QED  BY <1>1, NothingJoins, QuietOn

\* A look at the size may bring a listing.
LEMMA HonestRoom ==
  ASSUME NEW c \in Procs, Working(c), Room(c) \/ Overfull(c)
  PROVE  Honest(call'[c], prog'[c], entry', file')
<1>1. TypeOK /\ OwnStep(call[c], First(c)) /\ First(c) = prog[c][1]
  BY AtWork
<1>2. First(c).do \in {"room", "overfull"} /\ UNCHANGED <<file, entry, call>>
  BY <1>1, PrunesOrNot DEF Room, Overfull
<1>3. CASE Continue(c, <<>>)
  BY <1>2, <1>3, NothingJoins, QuietOn
<1>4. ASSUME NEW x \in Steps, x.do = "pick", Continue(c, <<x>>)
      PROVE  Honest(call'[c], prog'[c], entry', file')
  <2>1. call[c].op \notin {"get", "remove"} /\ (call[c].op \in Puts => First(c).do = "room")
    BY <1>1, <1>2, DoesWhat DEF Puts
  <2>2. OwnStep(call[c], x)
    BY <1>4, <2>1 DEF OwnStep, Does, Evicting
  <2>3. <<x>> \in Seq(Steps) /\ Joins(call[c], prog[c], <<x>>)
        /\ \A i \in 1..Len(<<x>>) : <<x>>[i].do = "evict" => Due(call[c], <<x>>[i].items, entry, file)
    BY <1>1, <1>4, <2>1, <2>2, OneJoins
  <2> QED  BY <1>2, <1>4, <2>3, QuietOn
<1> QED  BY <1>1, <1>3, <1>4, PrunesOrNot

\* A deletion that is under way goes on.
LEMMA HonestFind ==
  ASSUME NEW c \in Procs, Working(c), Find(c)
  PROVE  Honest(call'[c], prog'[c], entry', file')
<1>1. TypeOK /\ OwnStep(call[c], First(c)) /\ First(c) = prog[c][1]
  BY AtWork
<1>2. First(c).do = "find" /\ UNCHANGED <<file, entry, call>>
  BY <1>1, FindDrops DEF Find
<1>3. call[c].op # "get" /\ First(c).do \in Evicting
  BY <1>1, <1>2, DoesWhat DEF Evicting
<1>4. \A x \in Steps : x.do \in {"drop", "debit"} => OwnStep(call[c], x)
  <2> SUFFICES ASSUME NEW x \in Steps, x.do \in {"drop", "debit"} PROVE OwnStep(call[c], x)
    OBVIOUS
  <2>1. x.do \in Does(call[c].op)
    BY <1>3 DEF Does, Evicting, Puts
  <2> QED  BY <2>1 DEF OwnStep
<1>5. ASSUME NEW x \in Steps, x.do = "drop", Continue(c, <<x>>)
      PROVE  Honest(call'[c], prog'[c], entry', file')
  <2>1. <<x>> \in Seq(Steps) /\ Joins(call[c], prog[c], <<x>>)
        /\ \A i \in 1..Len(<<x>>) : <<x>>[i].do = "evict" => Due(call[c], <<x>>[i].items, entry, file)
    BY <1>1, <1>3, <1>4, <1>5, OneJoins
  <2> QED  BY <1>2, <1>5, <2>1, QuietOn
<1>6. ASSUME NEW x \in Steps, x.do = "drop", NEW y \in Steps, y.do = "debit", Continue(c, <<y>> \o <<x>>)
      PROVE  Honest(call'[c], prog'[c], entry', file')
  <2> DEFINE t == <<y>> \o <<x>>
  <2>1. t \in Seq(Steps) /\ Joins(call[c], prog[c], t)
        /\ \A i \in 1..Len(t) : t[i].do = "evict" => Due(call[c], t[i].items, entry, file)
    BY <1>1, <1>3, <1>4, <1>6, TwoJoin
  <2>2. Continue(c, t)
    BY <1>6
  <2> HIDE DEF t
  <2> QED  BY <1>2, <2>1, <2>2, QuietOn
<1> QED  BY <1>1, <1>5, <1>6, FindDrops

\* A miss: nothing that a Get finds has no entry.
LEMMA HonestCheck ==
  ASSUME NEW c \in Procs, Working(c), Check(c)
  PROVE  Honest(call'[c], prog'[c], entry', file')
<1> DEFINE k == call[c]
<1>1. TypeOK /\ InOrder /\ OwnStep(k, First(c)) /\ Sensible(k)
      /\ Consistent(prog[c], entry, file) /\ Achieves(k, prog[c], entry, file)
      /\ Unchanged(k, entry, file) /\ LeastGone(k, file) /\ Known(k)
      /\ prog[c] # <<>> /\ First(c) = prog[c][1]
  BY AtWork
<1>2. First(c).do = "check" /\ First(c) = Arg(c) /\ UNCHANGED <<file, entry, call>>
  BY <1>1, FirstStep DEF Check
<1>3. k.op = "get" /\ First(c).path = k.path /\ k.path \in Paths
  BY <1>1, <1>2, DoesWhat DEF OwnStep, Sensible
<1>4. CASE Continue(c, <<>>)
  BY <1>2, <1>4, NothingJoins, QuietOn
<1>5. CASE entry[k.path] = None /\ Abort(c)
  <2>1. prog'[c] = <<>>
    BY <1>1, <1>5, StepAborts
  <2>2. Agree(entry, file, k.path)
    BY <1>1, <1>2, <1>3, LookUpAlone DEF Consistent
  <2>3. k.before[k.path] = None /\ k.answer = None
    BY <1>1, <1>2, <1>3, <1>5, <2>2 DEF Agree, Achieves
  <2>4. Achieves(k, <<>>, entry, file)
    BY <1>1, <1>3, <2>3 DEF Achieves, Puts
  <2>5. Len(<<>>) = 0 /\ 1..Len(<<>>) = {}
    OBVIOUS
  <2>6. Follows(k, <<>>) /\ AllDue(k, <<>>, entry, file)
    BY <2>5 DEF Follows, AllDue
  <2> QED  BY <1>1, <1>2, <2>1, <2>4, <2>6 DEF Honest
<1> QED  BY <1>2, <1>3, <1>4, <1>5 DEF Check

\* A hit is put on record with the latest time.
LEMMA HonestHit ==
  ASSUME NEW c \in Procs, Working(c), Hit(c)
  PROVE  Honest(call'[c], prog'[c], entry', file')
<1> DEFINE k == call[c]
           u == prog'[c]
<1>1. TypeOK /\ InOrder /\ OwnStep(k, First(c)) /\ Sensible(k)
      /\ Consistent(prog[c], entry, file) /\ Achieves(k, prog[c], entry, file)
      /\ prog[c] # <<>> /\ First(c) = prog[c][1]
  BY AtWork
<1>2. First(c).do = "hit" /\ First(c) = Arg(c) /\ UNCHANGED <<file, entry, call>>
  BY <1>1, FirstStep DEF Hit
<1>3. k.op = "get" /\ First(c).path = k.path /\ k.path \in Paths
  BY <1>1, <1>2, DoesWhat DEF OwnStep, Sensible
<1> DEFINE x == [do |-> "credit", path |-> k.path, entry |-> [entry[k.path] EXCEPT !.hits = @ + 1],
                 touch |-> TRUE]
<1>4. \/ entry[k.path] = None /\ Continue(c, <<>>)
      \/ entry[k.path] # None /\ Continue(c, <<x>>)
  BY <1>2, <1>3 DEF Hit, SaveCacheEntry
<1>5. ASSUME NEW t \in Seq(Steps), Continue(c, t), \E i \in 1..Len(prog[c]) : prog[c][i].do = "read"
      PROVE  \E i \in 1..Len(u) : u[i].do = "read"
  BY <1>2, <1>5, RestKept
<1>6. CASE entry[k.path] = None /\ Continue(c, <<>>)
  <2>1. Agree(entry, file, k.path)
    BY <1>1, <1>2, <1>3, LookUpAlone DEF Consistent
  <2>2. k.before[k.path] = None
    BY <1>1, <1>3, <1>6, <2>1 DEF Agree, Achieves
  <2>3. u # <<>> => u[1].do # "check"
    BY <1>6, NothingJoins, NotBack
  <2>4. (\E i \in 1..Len(prog[c]) : prog[c][i].do = "read") => \E i \in 1..Len(u) : u[i].do = "read"
    BY <1>5, <1>6, NothingJoins
  <2>5. Achieves(k, u, entry', file')
    BY <1>1, <1>2, <1>3, <2>2, <2>3, <2>4 DEF Achieves, Puts
  <2> QED  BY <1>2, <1>6, <2>5, NothingJoins, HonestOn
<1>7. CASE entry[k.path] # None /\ Continue(c, <<x>>)
  <2>1. entry[k.path] \in Entry
    BY <1>1, <1>3, <1>7 DEF TypeOK
  <2>2. x \in Steps
    BY <1>3, <2>1 DEF Steps, Entry
  <2>3. x.do = "credit" /\ x.path = k.path /\ x.touch
    OBVIOUS
  <2> HIDE DEF x
  <2>4. OwnStep(k, x)
    BY <1>3, <2>3 DEF OwnStep, Does, Puts
  <2>5. <<x>> \in Seq(Steps) /\ Joins(k, prog[c], <<x>>)
        /\ \A i \in 1..Len(<<x>>) : <<x>>[i].do = "evict" => Due(k, <<x>>[i].items, entry, file)
    BY <2>2, <2>3, <2>4, OneJoins DEF Evicting
  <2>6. u # <<>> /\ u[1] = x /\ \E i \in 1..Len(u) : u[i] = x
    BY <1>1, <1>7, <2>2, GoesTo
  <2>7. Renews(k, u, entry', file')
    BY <2>3, <2>6 DEF Renews, Fresh
  <2>8. (\E i \in 1..Len(prog[c]) : prog[c][i].do = "read") => \E i \in 1..Len(u) : u[i].do = "read"
    BY <1>5, <1>7, <2>5
  <2>9. Achieves(k, u, entry', file')
    BY <1>1, <1>2, <1>3, <2>3, <2>6, <2>7, <2>8 DEF Achieves, Puts
  <2> QED  BY <1>2, <1>7, <2>5, <2>9, HonestOn
<1> QED  BY <1>4, <1>6, <1>7

\* The time of an entry that is only marked with its expiry stays what it was.
LEMMA HonestExpire ==
  ASSUME NEW c \in Procs, Working(c), Expire(c)
  PROVE  Honest(call'[c], prog'[c], entry', file')
<1> DEFINE k == call[c]
           u == prog'[c]
<1>1. TypeOK /\ InOrder /\ OwnStep(k, First(c)) /\ Sensible(k) /\ Achieves(k, prog[c], entry, file)
      /\ prog[c] # <<>> /\ First(c) = prog[c][1]
  BY AtWork
<1>2. First(c).do = "expire" /\ First(c) = Arg(c) /\ UNCHANGED <<file, entry, call>>
  BY <1>1, FirstStep DEF Expire
<1>3. k.op \in Puts /\ First(c).path = k.path /\ k.path \in Paths
  BY <1>1, <1>2, DoesWhat DEF OwnStep, Sensible
<1> DEFINE x == [do |-> "credit", path |-> k.path, entry |-> [entry[k.path] EXCEPT !.timed = TRUE],
                 touch |-> FALSE]
<1>4. \/ entry[k.path] = None /\ Continue(c, <<>>)
      \/ entry[k.path] # None /\ Continue(c, <<x>>)
  BY <1>2, <1>3 DEF Expire, SaveCacheEntry
<1>5. ~Fresh(First(c))
  BY <1>2 DEF Fresh
<1>6. ASSUME NEW t \in Seq(Steps), Continue(c, t)
      PROVE  (\E i \in 1..Len(u) : u[i].do = "fill") \/ file'[k.path].content = k.data
  <2>1. (\E i \in 1..Len(prog[c]) : prog[c][i].do = "fill") => \E i \in 1..Len(u) : u[i].do = "fill"
    BY <1>2, <1>6, RestKept
  <2> QED  BY <1>1, <1>2, <1>3, <2>1 DEF Achieves
<1>7. Renews(k, prog[c], entry, file)
  BY <1>1, <1>3 DEF Achieves
<1>8. CASE entry[k.path] = None /\ Continue(c, <<>>)
  <2>1. u # <<>> => u[1].do \notin {"credit", "set"}
    BY <1>2, <1>8, GoesOnIdle
  <2>2. Renews(k, u, entry', file')
    BY <1>2, <1>5, <1>7, <1>8, <2>1, RenewsOn, NothingJoins
  <2>3. (\E i \in 1..Len(u) : u[i].do = "fill") \/ file'[k.path].content = k.data
    BY <1>6, <1>8, NothingJoins
  <2>4. Achieves(k, u, entry', file')
    BY <1>3, <2>2, <2>3 DEF Achieves, Puts
  <2> QED  BY <1>2, <1>8, <2>4, NothingJoins, HonestOn
<1>9. CASE entry[k.path] # None /\ Continue(c, <<x>>)
  <2>1. entry[k.path] \in Entry
    BY <1>1, <1>3, <1>9 DEF TypeOK
  <2>2. x \in Steps /\ x.entry.used = entry[k.path].used
    BY <1>3, <2>1 DEF Steps, Entry
  <2>3. x.do = "credit" /\ x.path = k.path
    OBVIOUS
  <2> HIDE DEF x
  <2>4. OwnStep(k, x)
    BY <1>3, <2>3 DEF OwnStep, Does, Puts
  <2>5. <<x>> \in Seq(Steps) /\ Joins(k, prog[c], <<x>>)
        /\ \A i \in 1..Len(<<x>>) : <<x>>[i].do = "evict" => Due(k, <<x>>[i].items, entry, file)
    BY <2>2, <2>3, <2>4, OneJoins DEF Evicting
  <2>6. u # <<>> /\ u[1] = x
    BY <1>1, <1>9, <2>2, GoesTo
  <2>7. Renews(k, u, entry', file')
    <3>1. CASE \E i \in 1..Len(prog[c]) : Fresh(prog[c][i])
      BY <1>5, <1>9, <2>5, <3>1, RestKept DEF Renews
    <3>2. CASE Latest(k, entry[k.path].used, entry, file)
      BY <1>2, <2>2, <2>3, <2>6, <3>2 DEF Renews
    <3> QED  BY <1>1, <1>2, <1>7, <3>1, <3>2 DEF Renews
  <2>8. (\E i \in 1..Len(u) : u[i].do = "fill") \/ file'[k.path].content = k.data
    BY <1>6, <1>9, <2>5
  <2>9. Achieves(k, u, entry', file')
    BY <1>3, <2>7, <2>8 DEF Achieves, Puts
  <2> QED  BY <1>2, <1>9, <2>5, <2>9, HonestOn
<1> QED  BY <1>4, <1>8, <1>9

\* What is credited gets the latest time, or keeps one that is the latest.
LEMMA HonestCredit ==
  ASSUME NEW c \in Procs, Working(c), Credit(c)
  PROVE  Honest(call'[c], prog'[c], entry', file')
<1> DEFINE k == call[c]
           u == prog'[c]
<1>1. TypeOK /\ InOrder /\ OwnStep(k, First(c)) /\ Sensible(k) /\ Achieves(k, prog[c], entry, file)
      /\ prog[c] # <<>> /\ First(c) = prog[c][1] /\ First(c) \in Steps /\ Unchanged(k, entry, file)
  BY AtWork
<1>2. First(c).do = "credit" /\ First(c) = Arg(c) /\ UNCHANGED <<file, entry, call>>
  BY <1>1, FirstStep DEF Credit
<1>3. k.op \in Puts \cup {"get"} /\ First(c).path = k.path /\ k.path \in Paths
  BY <1>1, <1>2, DoesWhat DEF OwnStep, Sensible
<1> DEFINE old == First(c).entry
           e == IF First(c).touch THEN [old EXCEPT !.used = clock + 1] ELSE old
           x == [do |-> "set", path |-> k.path, entry |-> e]
<1>4. Continue(c, <<x>>)
  BY <1>2, <1>3 DEF Credit
<1>5. old \in Entry
  BY <1>1, <1>2, StepTypes
<1>t. clock + 1 \in Nat
  BY <1>1 DEF TypeOK
<1> HIDE DEF old
<1>6. e \in Entry /\ (First(c).touch => e.used = clock + 1) /\ (~First(c).touch => e.used = old.used)
  BY <1>t, <1>5 DEF Entry
<1> HIDE DEF e
<1>7. x \in Steps /\ x.do = "set" /\ x.path = k.path /\ x.entry = e
  BY <1>3, <1>6 DEF Steps
<1> HIDE DEF x
<1>8. OwnStep(k, x)
  BY <1>3, <1>7 DEF OwnStep, Does, Puts
<1>9. <<x>> \in Seq(Steps) /\ Joins(k, prog[c], <<x>>)
      /\ \A i \in 1..Len(<<x>>) : <<x>>[i].do = "evict" => Due(k, <<x>>[i].items, entry, file)
  BY <1>7, <1>8, OneJoins DEF Evicting
<1>10. u # <<>> /\ u[1] = x
  BY <1>1, <1>4, <1>7, GoesTo
<1>11. Latest(k, clock + 1, entry, file)
  <2> SUFFICES ASSUME NEW q \in Left(k, file) PROVE entry[q].used < clock + 1
    BY DEF Latest
  <2>1. q \in Paths /\ entry[q] # None
    BY <1>1 DEF Unchanged, Left
  <2>2. entry[q].used <= clock
    BY <2>1 DEF Working, ClockAhead, Present
  <2>3. entry[q].used \in Nat /\ clock \in Nat
    BY <1>1, <2>1 DEF TypeOK, Entry
  <2> QED  BY <2>2, <2>3
<1>12. Renews(k, prog[c], entry, file) => Renews(k, u, entry', file')
  <2>1. CASE First(c).touch
    BY <1>2, <1>6, <1>7, <1>10, <1>11, <2>1 DEF Renews
  <2>2. CASE ~First(c).touch
    <3>1. ~Fresh(First(c))
      BY <1>2, <2>2 DEF Fresh
    <3>2. (\E i \in 1..Len(prog[c]) : Fresh(prog[c][i])) => \E i \in 1..Len(u) : Fresh(u[i])
      BY <1>4, <1>9, <3>1, RestKept
    <3>3. Latest(k, prog[c][1].entry.used, entry, file) => Latest(k, u[1].entry.used, entry', file')
      BY <1>1, <1>2, <1>6, <1>7, <1>10, <2>2 DEF old
    <3> QED  BY <1>1, <1>2, <1>7, <1>10, <3>2, <3>3 DEF Renews
  <2> QED  BY <2>1, <2>2
<1>13. /\ (\E i \in 1..Len(prog[c]) : prog[c][i].do = "fill") => \E i \in 1..Len(u) : u[i].do = "fill"
       /\ (\E i \in 1..Len(prog[c]) : prog[c][i].do = "read") => \E i \in 1..Len(u) : u[i].do = "read"
  BY <1>2, <1>4, <1>9, RestKept
<1>14. Achieves(k, u, entry', file')
  BY <1>1, <1>2, <1>3, <1>7, <1>10, <1>12, <1>13 DEF Achieves, Puts
<1> QED  BY <1>2, <1>4, <1>9, <1>14, HonestOn

\* What is credited is written as the entry of the path.
LEMMA HonestSet ==
  ASSUME NEW c \in Procs, Working(c), SetEntry(c)
  PROVE  Honest(call'[c], prog'[c], entry', file')
<1> DEFINE k == call[c]
           u == prog'[c]
<1>1. TypeOK /\ InOrder /\ OwnStep(k, First(c)) /\ Sensible(k) /\ Achieves(k, prog[c], entry, file)
      /\ prog[c] # <<>> /\ First(c) = prog[c][1] /\ First(c) \in Steps
  BY AtWork
<1>2. First(c).do = "set" /\ First(c) = Arg(c) /\ UNCHANGED <<file, call>>
      /\ entry' = [entry EXCEPT ![First(c).path] = First(c).entry] /\ Continue(c, <<>>)
  BY <1>1, FirstStep DEF SetEntry
<1>3. k.op \in Puts \cup {"get"} /\ First(c).path = k.path /\ k.path \in Paths
  BY <1>1, <1>2, DoesWhat DEF OwnStep, Sensible
<1>4. First(c).entry # None
  BY <1>1, <1>2, StepTypes, ConstantsAssumption
<1>5. entry'[k.path] = First(c).entry /\ \A q \in Paths \ {k.path} : entry'[q] = entry[q]
  BY <1>1, <1>2, <1>3 DEF TypeOK
<1>6. Mine(k) = {k.path}
  BY <1>3 DEF Mine
<1>7. \A q \in Left(k, file) : entry'[q] = entry[q]
  BY <1>5, <1>6 DEF Left
<1>8. \A n : Latest(k, n, entry, file) => Latest(k, n, entry', file')
  <2>1. \A q \in Paths \ Mine(k) : file'[q].content = file[q].content
    BY <1>2
  <2> HIDE DEF k
  <2> QED  BY <1>7, <2>1, OthersSame
<1>9. u # <<>> => u[1].do \notin {"credit", "set"}
  BY <1>2, GoesOnIdle
<1>10. u # <<>> => u[1].do # "check"
  BY <1>2, NothingJoins, NotBack
<1>11. Renews(k, prog[c], entry, file) => Renews(k, u, entry', file')
  <2>1. ~Fresh(First(c))
    BY <1>2 DEF Fresh
  <2>2. (\E i \in 1..Len(prog[c]) : Fresh(prog[c][i])) => \E i \in 1..Len(u) : Fresh(u[i])
    BY <1>2, <2>1, RestKept, NothingJoins
  <2>3. Latest(k, prog[c][1].entry.used, entry, file) => Latest(k, entry'[k.path].used, entry', file')
    BY <1>1, <1>5, <1>8
  <2> QED  BY <1>1, <1>2, <1>4, <1>5, <1>9, <2>2, <2>3 DEF Renews
<1>12. /\ (\E i \in 1..Len(prog[c]) : prog[c][i].do = "fill") => \E i \in 1..Len(u) : u[i].do = "fill"
       /\ (\E i \in 1..Len(prog[c]) : prog[c][i].do = "read") => \E i \in 1..Len(u) : u[i].do = "read"
  BY <1>2, RestKept, NothingJoins
<1>13. Achieves(k, u, entry', file')
  BY <1>1, <1>2, <1>3, <1>10, <1>11, <1>12 DEF Achieves, Puts
<1> QED  BY <1>2, <1>7, <1>13, HonestOn, NothingJoins

\* An entry is deleted whose file is gone.
LEMMA HonestDrop ==
  ASSUME NEW c \in Procs, Working(c), Drop(c)
  PROVE  Honest(call'[c], prog'[c], entry', file')
<1> DEFINE k == call[c]
           u == prog'[c]
<1>1. TypeOK /\ InOrder /\ OwnStep(k, First(c)) /\ Achieves(k, prog[c], entry, file)
      /\ prog[c] # <<>> /\ First(c) = prog[c][1] /\ First(c) \in Steps /\ 1 \in 1..Len(prog[c])
      /\ Consistent(prog[c], entry, file)
  BY AtWork
<1>2. First(c).do = "drop" /\ First(c) = Arg(c) /\ UNCHANGED <<file, call>>
      /\ entry' = [entry EXCEPT ![First(c).path] = None] /\ Continue(c, <<>>)
  BY <1>1, FirstStep DEF Drop
<1>3. file[First(c).path].content = "absent"
  BY <1>1, <1>2 DEF Consistent, Gone
<1>4. \A q \in Left(k, file) : entry'[q] = entry[q]
  BY <1>1, <1>2, <1>3 DEF Left, TypeOK
<1>5. k.op # "get" /\ First(c).do \in Evicting
  BY <1>1, <1>2, DoesWhat DEF Evicting
<1> HIDE DEF u
<1>6. k.op \in Puts => (\E i \in 1..Len(u) : u[i].do = "fill") /\ (\E i \in 1..Len(u) : Fresh(u[i]))
  BY <1>2, <1>5, RestKept, NothingJoins DEF u
<1>7. (\E i \in 1..Len(prog[c]) : prog[c][i].do = "locate" \/ (prog[c][i].do = "evict" /\ prog[c][i].items # <<>>))
        => \E i \in 1..Len(u) : u[i].do = "locate" \/ (u[i].do = "evict" /\ u[i].items # <<>>)
  BY <1>2, RestKept, NothingJoins DEF u
<1>8. Achieves(k, u, entry', file')
  BY <1>1, <1>2, <1>5, <1>6, <1>7 DEF Achieves, Renews, Puts
<1> QED  BY <1>2, <1>4, <1>8, HonestOn, NothingJoins DEF u

\* A file that is cut is filled next, and its entry written later.
LEMMA HonestOpen ==
  ASSUME NEW c \in Procs, Working(c), Open(c)
  PROVE  Honest(call'[c], prog'[c], entry', file')
<1> DEFINE k == call[c]
           s == prog[c]
           u == prog'[c]
<1>1. /\ TypeOK /\ InOrder /\ OwnStep(k, First(c)) /\ Sensible(k) /\ First(c) = s[1] /\ First(c) \in Steps
      /\ Follows(k, s) /\ Unchanged(k, entry, file) /\ LeastGone(k, file) /\ Known(k)
      /\ AllDue(k, s, entry, file) /\ s \in Seq(Steps)
  BY AtWork
<1>2. First(c).do = "open" /\ First(c) = Arg(c) /\ UNCHANGED <<entry, call>>
      /\ file' = [file EXCEPT ![First(c).path].content = "empty"]
  BY <1>1, FirstStep DEF Open
<1>3. k.op \in Puts /\ First(c).path = k.path /\ k.path \in Paths
  BY <1>1, <1>2, DoesWhat DEF OwnStep, Sensible
<1>4. /\ Len(u) = Len(s) - 1 /\ Len(s) >= 2 /\ s[2].do = "fill"
      /\ u[1] = [s[2] EXCEPT !.gen = file[First(c).path].gen]
      /\ \A i \in 2..Len(u) : u[i] = s[i + 1]
  BY <1>1, OpenGoes
<1>5. u[1].do = "fill" /\ u[1].path = s[2].path /\ u[1].data = s[2].data
  <2>1. s[2] \in Steps
    BY <1>1, <1>4
  <2>2. s[2] \in [do : {"fill"}, path : Paths, data : Data, gen : Nat]
    BY <1>4, <2>1 DEF Steps
  <2> QED  BY <1>4, <2>2
<1>6. Len(s) \in Nat /\ Len(u) \in Nat /\ 1 \in 1..Len(u) /\ 1 \in 1..Len(s) /\ 2 \in 1..Len(s)
  BY <1>1, <1>4
<1>7. \A q \in Paths \ Mine(k) : file'[q].content = file[q].content
  <2>1. \A q \in Paths \ {k.path} : file'[q] = file[q]
    BY <1>1, <1>2, <1>3 DEF TypeOK
  <2> QED  BY <1>3, <2>1 DEF Mine
<1> HIDE DEF k, s, u
<1>8. /\ Unchanged(k, entry', file') /\ LeastGone(k, file')
      /\ \A x : Due(k, x, entry, file) => Due(k, x, entry', file')
  <2>1. \A q \in Left(k, file) : entry'[q] = entry[q]
    BY <1>2
  <2> QED  BY <1>1, <1>7, <2>1, OthersSame
<1>9. \A j \in 3..Len(s) : j - 1 \in 1..Len(u) /\ u[j - 1] = s[j]
  <2> SUFFICES ASSUME NEW j \in 3..Len(s) PROVE j - 1 \in 1..Len(u) /\ u[j - 1] = s[j]
    OBVIOUS
  <2>1. j - 1 \in 2..Len(u) /\ (j - 1) + 1 = j /\ j - 1 \in 1..Len(u)
    BY <1>4, <1>6
  <2> QED  BY <1>4, <2>1
<1>10. \A i \in 1..Len(s) : OwnStep(k, s[i]) /\ Ending(s, i) /\ Later(s, i)
  BY <1>1, <1>3 DEF Follows
<1>11. \E j \in 1..Len(u) : j > 1 /\ Fresh(u[j])
  <2>1. Later(s, 2)
    BY <1>6, <1>10
  <2>2. PICK j \in 1..Len(s) : j > 2 /\ Fresh(s[j])
    BY <1>4, <2>1 DEF Later
  <2>3. j \in 3..Len(s) /\ j - 1 > 1
    BY <1>6, <2>2
  <2> QED  BY <1>9, <2>2, <2>3
<1>12. OwnStep(k, u[1]) /\ Ending(u, 1) /\ Later(u, 1)
  <2>1. OwnStep(k, s[2])
    BY <1>6, <1>10
  <2>2. OwnStep(k, u[1])
    BY <1>4, <1>5, <2>1 DEF OwnStep
  <2> QED  BY <1>5, <1>11, <2>2 DEF Ending, Later, Evicting
<1>13. ASSUME NEW i \in 2..Len(u) PROVE OwnStep(k, u[i]) /\ Ending(u, i) /\ Later(u, i)
  <2>1. u[i] = s[i + 1] /\ i + 1 \in 1..Len(s) /\ i + 1 # 1 /\ (i + 1 = Len(s) => i = Len(u)) /\ Len(s) # 1
    BY <1>4, <1>6
  <2>2. OwnStep(k, s[i + 1]) /\ Ending(s, i + 1) /\ Later(s, i + 1)
    BY <1>10, <2>1
  <2>3. \A j \in 1..Len(s) : j > i + 1 => j - 1 \in 1..Len(u) /\ j - 1 > i /\ u[j - 1] = s[j]
    <3> SUFFICES ASSUME NEW j \in 1..Len(s), j > i + 1
                 PROVE  j - 1 \in 1..Len(u) /\ j - 1 > i /\ u[j - 1] = s[j]
      OBVIOUS
    <3>1. j \in 3..Len(s) /\ j - 1 > i
      BY <1>6
    <3> QED  BY <1>9, <3>1
  <2>4. Ending(u, i)
    BY <2>1, <2>2 DEF Ending
  <2>5. Later(u, i)
    <3>1. (\E j \in 1..Len(s) : j > i + 1 /\ s[j].do = "fill") => \E j \in 1..Len(u) : j > i /\ u[j].do = "fill"
      BY <2>3
    <3>2. (\E j \in 1..Len(s) : j > i + 1 /\ Fresh(s[j])) => \E j \in 1..Len(u) : j > i /\ Fresh(u[j])
      BY <2>3
    <3> QED  BY <2>1, <2>2, <3>1, <3>2 DEF Later
  <2> QED  BY <2>1, <2>2, <2>4, <2>5
<1>14. \A i \in 1..Len(u) : i = 1 \/ i \in 2..Len(u)
  BY <1>6
<1>15. Follows(k, u)
  BY <1>12, <1>13, <1>14 DEF Follows
<1>16. AllDue(k, u, entry', file')
  <2> SUFFICES ASSUME NEW i \in 1..Len(u), u[i].do = "evict" PROVE Due(k, u[i].items, entry', file')
    BY DEF AllDue
  <2>0. i \in 2..Len(u)
    BY <1>5, <1>14
  <2>1. u[i] = s[i + 1] /\ i + 1 \in 1..Len(s)
    BY <1>4, <1>6, <2>0
  <2> QED  BY <1>1, <1>8, <2>1 DEF AllDue
<1>17. Achieves(k, u, entry', file')
  BY <1>3, <1>5, <1>6, <1>11 DEF Achieves, Renews, Puts
<1> QED  BY <1>1, <1>2, <1>8, <1>15, <1>16, <1>17 DEF Honest, k, u

\* The bytes of a fill are the content of the call.
LEMMA HonestFill ==
  ASSUME NEW c \in Procs, Working(c), Fill(c)
  PROVE  Honest(call'[c], prog'[c], entry', file')
<1> DEFINE k == call[c]
           u == prog'[c]
<1>1. /\ TypeOK /\ InOrder /\ OwnStep(k, First(c)) /\ Sensible(k) /\ First(c) = prog[c][1] /\ First(c) \in Steps
      /\ Consistent(prog[c], entry, file) /\ prog[c] # <<>>
  BY AtWork
<1>2. First(c).do = "fill" /\ First(c) = Arg(c) /\ UNCHANGED <<entry, call>> /\ Continue(c, <<>>)
  BY <1>1, FirstStep DEF Fill
<1>3. k.op \in Puts /\ First(c).path = k.path /\ k.path \in Paths /\ First(c).data = k.data /\ k.data \in Data
  BY <1>1, <1>2, DoesWhat DEF OwnStep, Sensible
<1>4. file[k.path].content = "empty" /\ file[k.path].gen = First(c).gen
  BY <1>1, <1>2, <1>3 DEF Consistent, HeadFits
<1>5. ~(Length(file[k.path].content) > SizeOf[k.data])
  BY <1>3, <1>4, NoLength
<1>6. file' = [file EXCEPT ![k.path].content = k.data]
  BY <1>2, <1>3, <1>4, <1>5 DEF Fill
<1>7. file'[k.path].content = k.data /\ \A q \in Paths \ {k.path} : file'[q] = file[q]
  BY <1>1, <1>3, <1>6 DEF TypeOK
<1>8. \A q \in Paths \ Mine(k) : file'[q].content = file[q].content
  BY <1>3, <1>7 DEF Mine
<1>9. \E i \in 1..Len(u) : Fresh(u[i])
  BY <1>2, <1>3, RestKept, NothingJoins
<1>10. Achieves(k, u, entry', file')
  BY <1>3, <1>7, <1>9 DEF Achieves, Renews, Puts
<1> QED  BY <1>2, <1>8, <1>10, HonestOn, NothingJoins

\* What is read is what the path held when the call began.
LEMMA HonestRead ==
  ASSUME NEW c \in Procs, Working(c), Read(c)
  PROVE  Honest(call'[c], prog'[c], entry', file')
<1> DEFINE k == call[c]
           v == IF file[k.path].content = "absent" THEN None ELSE file[k.path].content
           k2 == [k EXCEPT !.answer = v]
<1>1. /\ TypeOK /\ InOrder /\ OwnStep(k, First(c)) /\ Sensible(k) /\ First(c) = prog[c][1]
      /\ prog[c] \in Seq(Steps) /\ prog[c] # <<>> /\ Ending(prog[c], 1) /\ Achieves(k, prog[c], entry, file)
      /\ Unchanged(k, entry, file) /\ LeastGone(k, file) /\ Known(k) /\ k \in Calls
  BY AtWork
<1>2. First(c).do = "read" /\ First(c) = Arg(c) /\ UNCHANGED <<entry, file>> /\ Continue(c, <<>>)
  BY <1>1, FirstStep DEF Read
<1>3. k.op = "get" /\ First(c).path = k.path /\ k.path \in Paths
  BY <1>1, <1>2, DoesWhat DEF OwnStep, Sensible
<1>4. call'[c] = k2
  BY <1>1, <1>2, <1>3 DEF Read, Absent, TypeOK
<1>5. /\ k2.op = k.op /\ k2.path = k.path /\ k2.data = k.data /\ k2.before = k.before
      /\ k2.older = k.older /\ k2.answer = v
  BY <1>1 DEF Calls
<1> HIDE DEF k2
<1>6. prog'[c] = <<>>
  <2>1. Len(prog[c]) = 1
    BY <1>1, <1>2 DEF Ending
  <2>2. 2 \notin 1..Len(prog[c])
    BY <2>1
  <2> QED  BY <1>1, <1>2, <2>2, Goes, NothingJoins
<1>7. Mine(k2) = Mine(k) /\ Left(k2, file) = Left(k, file)
  <2>1. Mine(k2) = Mine(k)
    BY <1>5 DEF Mine
  <2> QED  BY <2>1 DEF Left
<1>8. Unchanged(k2, entry, file) /\ LeastGone(k2, file) /\ Known(k2)
  <2>1. Unchanged(k2, entry, file)
    BY <1>1, <1>5, <1>7 DEF Unchanged
  <2>2. LeastGone(k2, file)
    BY <1>1, <1>5, <1>7 DEF LeastGone
  <2>3. Known(k2)
    BY <1>1, <1>5 DEF Known
  <2> QED  BY <2>1, <2>2, <2>3
<1>9. Renews(k, prog[c], entry, file) => Renews(k2, <<>>, entry, file)
  <2> SUFFICES ASSUME Renews(k, prog[c], entry, file) PROVE Renews(k2, <<>>, entry, file)
    OBVIOUS
  <2>1. ASSUME NEW i \in 1..Len(prog[c]) PROVE ~Fresh(prog[c][i])
    <3>0. Len(prog[c]) = 1
      BY <1>1, <1>2 DEF Ending
    <3>1. i = 1
      BY <3>0
    <3> QED  BY <1>1, <1>2, <3>1 DEF Fresh
  <2>2. entry[k.path] # None /\ Latest(k, entry[k.path].used, entry, file)
    BY <1>1, <1>2, <2>1 DEF Renews
  <2>3. Latest(k2, entry[k2.path].used, entry, file)
    BY <1>5, <1>7, <2>2 DEF Latest
  <2> QED  BY <1>5, <2>2, <2>3 DEF Renews
<1>10. Achieves(k2, <<>>, entry, file)
  <2>1. k.before[k.path] = v /\ (k.before[k.path] = None \/ Renews(k, prog[c], entry, file))
    BY <1>1, <1>3 DEF Achieves
  <2> QED  BY <1>3, <1>5, <1>9, <2>1 DEF Achieves, Puts
<1>11. 1..Len(<<>>) = {}
  OBVIOUS
<1>12. Follows(k2, <<>>) /\ AllDue(k2, <<>>, entry, file)
  BY <1>11 DEF Follows, AllDue
<1> QED  BY <1>2, <1>4, <1>6, <1>8, <1>10, <1>12 DEF Honest

\* Remove goes on to delete its path, which is not there or is all there.
LEMMA HonestLocate ==
  ASSUME NEW c \in Procs, Working(c), Locate(c)
  PROVE  Honest(call'[c], prog'[c], entry', file')
<1> DEFINE k == call[c]
           u == prog'[c]
           items == << [path |-> k.path, size |-> 0] >>
           x == [do |-> "evict", items |-> items, need |-> Everything, floor |-> -Everything,
                 after |-> {"removed", "missing"}]
<1>1. /\ TypeOK /\ InOrder /\ OwnStep(k, First(c)) /\ Sensible(k) /\ First(c) = prog[c][1]
      /\ prog[c] \in Seq(Steps) /\ prog[c] # <<>> /\ Ending(prog[c], 1) /\ Achieves(k, prog[c], entry, file)
      /\ Consistent(prog[c], entry, file)
  BY AtWork
<1>2. First(c).do = "locate" /\ First(c) = Arg(c) /\ UNCHANGED <<entry, file, call>>
  BY <1>1, FirstStep DEF Locate
<1>3. k.op = "remove" /\ First(c).path = k.path /\ k.path \in Paths
  BY <1>1, <1>2, DoesWhat DEF OwnStep, Sensible
<1>4. \/ entry[k.path] = None /\ Continue(c, <<>>)
      \/ Continue(c, <<x>>)
  BY <1>2, <1>3 DEF Locate
<1>5. CASE entry[k.path] = None /\ Continue(c, <<>>)
  <2>0. Len(prog[c]) = 1
    BY <1>1, <1>2 DEF Ending
  <2>1. \A i \in 1..Len(prog[c]) : prog[c][i] = prog[c][1]
    BY <2>0
  <2>2. ~Awaits(prog[c], k.path)
    BY <1>1, <1>2, <2>1 DEF Awaits
  <2>3. Agree(entry, file, k.path)
    BY <1>1, <1>3, <2>2 DEF Consistent
  <2>4. Achieves(k, u, entry', file')
    BY <1>2, <1>3, <1>5, <2>3 DEF Achieves, Agree, Puts
  <2> QED  BY <1>2, <1>5, <2>4, HonestOn, NothingJoins
<1>6. CASE Continue(c, <<x>>)
  <2>1. items \in Seq(Item) /\ Len(items) = 1 /\ items[1].path = k.path /\ items # <<>>
    BY <1>3 DEF Item
  <2> HIDE DEF items
  <2>2. /\ x \in Steps /\ x.do = "evict" /\ x.items = items
        /\ \A j \in 1..Len(items) : x.need > x.floor
    <3>1. Everything \in Int /\ -Everything \in Int /\ {"removed", "missing"} \in SUBSET Outcomes
          /\ Everything > -Everything
      BY DEF Everything, Outcomes
    <3> QED  BY <2>1, <3>1 DEF Steps
  <2> HIDE DEF x
  <2>3. \A j \in 1..Len(items) : items[j].path = k.path
    BY <2>1
  <2>a. x.do \in Does(k.op)
    BY <1>3, <2>2 DEF Does, Puts
  <2>b. Len(x.items) <= 1 /\ \A j \in 1..Len(x.items) : x.items[j].path = k.path /\ x.need > x.floor
    BY <2>1, <2>2, <2>3
  <2>4. OwnStep(k, x)
    BY <2>2, <2>a, <2>b DEF OwnStep
  <2>5. Due(k, x.items, entry, file)
    BY <1>3, <2>2, <2>3 DEF Due, Left, Mine
  <2>6. <<x>> \in Seq(Steps) /\ Joins(k, prog[c], <<x>>)
        /\ \A i \in 1..Len(<<x>>) : <<x>>[i].do = "evict" => Due(k, <<x>>[i].items, entry, file)
    BY <1>3, <2>2, <2>4, <2>5, OneJoins DEF Puts
  <2>7. \E i \in 1..Len(u) : u[i] = x
    BY <1>1, <1>6, <2>2, GoesTo
  <2>8. Achieves(k, u, entry', file')
    BY <1>3, <2>1, <2>2, <2>7 DEF Achieves, Puts
  <2> QED  BY <1>2, <1>6, <2>6, <2>8, HonestOn
<1> QED  BY <1>4, <1>5, <1>6

\* A sort by age has every path of the set, the older before the younger.
LEMMA SortedAll ==
  ASSUME TypeOK, NEW S \in SUBSET Present, NEW old \in AgeOrders(S)
  PROVE  /\ \A p \in S : \E i \in 1..Len(old) : old[i] = p
         /\ \A i, j \in 1..Len(old) : entry[old[i]].used < entry[old[j]].used => i < j
<1>1. S \in SUBSET Paths /\ \A p \in S : entry[p] \in Entry /\ entry[p].used \in Nat
  BY DEF Present, TypeOK, Entry
<1>2. IsFiniteSet(S) /\ Cardinality(S) \in Nat
  BY <1>1, ConstantsAssumption, FS_Subset, FS_CardinalityType
<1> DEFINE n == Cardinality(S)
<1>3. /\ old \in [1..n -> S] /\ Len(old) = n
      /\ \A i, j \in 1..n : i < j => old[i] # old[j] /\ entry[old[i]].used <= entry[old[j]].used
  BY <1>2 DEF AgeOrders, Sorted
<1> HIDE DEF n
<1>n. n \in Nat /\ Cardinality(S) = n
  BY <1>2 DEF n
<1>4. \A i, j \in 1..n : old[i] = old[j] => i = j
  <2> SUFFICES ASSUME NEW i \in 1..n, NEW j \in 1..n, i # j PROVE old[i] # old[j]
    OBVIOUS
  <2>1. i < j \/ j < i
    BY <1>n
  <2> QED  BY <1>3, <2>1
<1>5. old \in Injection(1..n, S)
  BY <1>3, <1>4 DEF Injection, IsInjective
<1>6. Cardinality(1..n) = n
  BY <1>n, FS_Interval
<1>7. old \in Surjection(1..n, S)
  BY <1>2, <1>5, <1>6, <1>n, FS_Injection
<1>8. \A p \in S : \E i \in 1..n : old[i] = p
  BY <1>7 DEF Surjection
<1>9. ASSUME NEW i \in 1..n, NEW j \in 1..n, entry[old[i]].used < entry[old[j]].used PROVE i < j
  <2>1. old[i] \in S /\ old[j] \in S
    BY <1>3
  <2>2. entry[old[i]].used \in Nat /\ entry[old[j]].used \in Nat
    BY <1>1, <2>1
  <2>3. ~(j < i)
    BY <1>3, <1>9, <2>2
  <2>4. j # i
    BY <1>9, <2>2
  <2> QED  BY <1>n, <2>3, <2>4
<1> QED  BY <1>3, <1>8, <1>9

\* What is listed is the oldest of what is there.
LEMMA HonestList ==
  ASSUME NEW c \in Procs, Working(c), List(c)
  PROVE  Honest(call'[c], prog'[c], entry', file')
<1> DEFINE k == call[c]
           a == First(c)
           S == {p \in Present : entry[p].used < a.cutoff}
<1>1. /\ TypeOK /\ InOrder /\ OwnStep(k, a) /\ a = prog[c][1] /\ a \in Steps
      /\ prog[c] \in Seq(Steps) /\ prog[c] # <<>> /\ Follows(k, prog[c])
      /\ Consistent(prog[c], entry, file)
  BY AtWork
<1>2. a.do = "pick" /\ a = Arg(c) /\ UNCHANGED <<entry, file, call>>
  BY <1>1, FirstStep DEF List
<1>3. k.op \notin {"get", "remove"}
  BY <1>1, <1>2, DoesWhat
<1>4. a.count \in Nat /\ a.need \in Int /\ a.floor \in Int /\ a.after \in SUBSET Outcomes /\ a.cutoff \in Nat
  BY <1>1, <1>2, StepTypes
<1>5. PICK old \in AgeOrders(S) :
        LET items == [i \in 1..Min({Len(old), a.count}) |->
                        [path |-> old[i], size |-> entry[old[i]].size]]
        IN  Continue(c, << [do |-> "evict", items |-> items, need |-> a.need,
                            floor |-> a.floor, after |-> a.after] >>)
  BY <1>2 DEF List
<1> DEFINE n == Min({Len(old), a.count})
           items == [i \in 1..n |-> [path |-> old[i], size |-> entry[old[i]].size]]
           x == [do |-> "evict", items |-> items, need |-> a.need,
                 floor |-> a.floor, after |-> a.after]
<1>6. items \in Seq(Item)
  BY <1>1, <1>4, Listed
<1>7. Continue(c, <<x>>)
  BY <1>5
<1>8. /\ S \in SUBSET Present /\ S \in SUBSET Paths
      /\ \A p \in S : entry[p].used < a.cutoff /\ entry[p] \in Entry
      /\ \A p \in Paths : entry[p] # None /\ entry[p].used < a.cutoff => p \in S
  BY <1>1 DEF Present, TypeOK
<1>9. /\ \A p \in S : \E i \in 1..Len(old) : old[i] = p
      /\ \A i, j \in 1..Len(old) : entry[old[i]].used < entry[old[j]].used => i < j
  BY <1>1, <1>8, SortedAll
<1>10. /\ Len(old) \in Nat /\ n \in Nat /\ n <= Len(old)
       /\ \A i \in 1..Len(old) : old[i] \in S
  <2>1. Len(old) \in Nat /\ \A i \in 1..Len(old) : old[i] \in S
    <3> HIDE DEF S
    <3> QED  BY <1>1, <1>8, Ordered
  <2> QED  BY <1>4, <2>1, MinOfTwo
<1> HIDE DEF S, n, k
<1>11. Len(items) = n /\ \A i \in 1..n : items[i].path = old[i]
  BY <1>10
<1> HIDE DEF items
<1>12. x \in Steps /\ x.do = "evict" /\ x.items = items
  BY <1>4, <1>6 DEF Steps
<1> HIDE DEF x
<1>13. ASSUME NEW q \in Left(k, file) PROVE entry[q] \in Entry /\ entry[q] # None /\ q \in Paths
  <2>1. q \in Paths /\ q \notin Mine(k) /\ file[q].content # "absent"
    BY DEF Left
  <2>2. \A i \in 1..Len(prog[c]) : prog[c][i].do \notin {"set", "find", "drop"}
    <3> SUFFICES ASSUME NEW i \in 1..Len(prog[c]) PROVE prog[c][i].do \notin {"set", "find", "drop"}
      OBVIOUS
    <3>1. prog[c][i].do = "set" => i = 1
      BY <1>1, FrontOnly
    <3>2. prog[c][i].do \notin {"find", "drop"}
      BY <1>1, <1>2, FrontOnly
    <3> QED  BY <1>1, <1>2, <3>1, <3>2
  <2>3. \A i \in 1..Len(prog[c]) : prog[c][i].do = "credit" => prog[c][i].path = k.path /\ k.op \in Puts
    <3> SUFFICES ASSUME NEW i \in 1..Len(prog[c]), prog[c][i].do = "credit"
                 PROVE  prog[c][i].path = k.path /\ k.op \in Puts
      OBVIOUS
    <3>1. OwnStep(k, prog[c][i])
      BY <1>1 DEF Follows
    <3> QED  BY <1>3, <3>1, DoesWhat DEF OwnStep
  <2>4. ~Awaits(prog[c], q)
    BY <2>1, <2>2, <2>3 DEF Awaits, Mine
  <2>5. entry[q] # None
    BY <1>1, <2>1, <2>4 DEF Consistent, Agree
  <2> QED  BY <1>1, <2>1, <2>5 DEF TypeOK
<1>14. Due(k, items, entry, file)
  <2> SUFFICES ASSUME NEW j \in 1..Len(items), items[j].path \in Left(k, file),
                      NEW r \in Left(k, file), entry[r].used < entry[items[j].path].used
               PROVE  \E l \in 1..Len(items) : l < j /\ items[l].path = r
    BY DEF Due
  <2>1. j \in 1..n /\ j \in 1..Len(old) /\ items[j].path = old[j]
    BY <1>10, <1>11
  <2>2. old[j] \in S /\ entry[old[j]].used < a.cutoff /\ entry[old[j]].used \in Nat
    BY <1>8, <1>10, <2>1 DEF Entry
  <2>3. entry[r] # None /\ entry[r].used \in Nat /\ r \in Paths
    BY <1>13 DEF Entry
  <2>4. entry[r].used < a.cutoff
    BY <1>4, <2>1, <2>2, <2>3
  <2>5. r \in S
    BY <1>8, <2>3, <2>4
  <2>6. PICK l \in 1..Len(old) : old[l] = r
    BY <1>9, <2>5
  <2>7. l < j
    BY <1>9, <2>1, <2>6
  <2>8. l \in 1..n
    BY <1>10, <2>1, <2>7
  <2> QED  BY <1>11, <2>6, <2>7, <2>8
<1>15. OwnStep(k, x)
  <2>1. x.do \in Does(k.op)
    BY <1>3, <1>12 DEF Does, Evicting, Puts
  <2> QED  BY <1>3, <1>12, <2>1 DEF OwnStep
<1>16. <<x>> \in Seq(Steps) /\ Joins(k, prog[c], <<x>>)
       /\ \A i \in 1..Len(<<x>>) : <<x>>[i].do = "evict" => Due(k, <<x>>[i].items, entry, file)
  <2>1. prog[c][1].do \in Evicting
    BY <1>1, <1>2 DEF Evicting
  <2> QED  BY <1>12, <1>14, <1>15, <2>1, OneJoins
<1> QED  BY <1>2, <1>7, <1>16, QuietOn DEF k

\* On a sound disk, a turn of a deleting loop leaves no file of the first item.
LEMMA Turns ==
  ASSUME TypeOK, NEW c \in Procs, Evict(c), disk = "sound"
  PROVE  LET a == First(c)
             p == a.items[1].path
         IN
         \/ (a.items = <<>> \/ a.need <= a.floor) /\ Continue(c, <<>>) /\ UNCHANGED file
         \/ /\ a.items # <<>> /\ p \in Paths
            /\ file'[p].content = "absent" /\ \A q \in Paths \ {p} : file'[q] = file[q]
            /\ \E x \in Steps :
                 /\ x.do = "evict" /\ x.items = Tail(a.items)
                 /\ Continue(c, << [do |-> "find", path |-> p] >> \o <<x>>) \/ Continue(c, <<x>>)
<1> DEFINE a == First(c)
           p == a.items[1].path
           next(need) == [a EXCEPT !.items = Tail(@), !.need = need]
<1>1. a \in Steps /\ a = Arg(c) /\ a.do = "evict"
  BY FirstStep DEF Evict
<1>2. /\ a.items \in Seq(Item) /\ a.need \in Int
      /\ a \in [do : {"evict"}, items : Seq(Item), need : Int, floor : Int, after : SUBSET Outcomes]
  BY <1>1 DEF Steps
<1>3. \/ (a.items = <<>> \/ a.need <= a.floor) /\ Continue(c, <<>>) /\ UNCHANGED file
      \/ /\ a.items # <<>>
         /\ \E outcome \in RemoveOutcomes(p) :
              /\ file' = IF outcome # "removed" THEN file
                         ELSE [file EXCEPT ![p] = [gen |-> @.gen + 1, content |-> "absent"]]
              /\ Continue(c, IF outcome \in a.after
                             THEN <<[do |-> "find", path |-> p]>> \o << next(a.need - a.items[1].size) >>
                             ELSE << next(a.need) >>)
  BY <1>1 DEF Evict, DeleteCacheEntry
<1>4. ASSUME a.items # <<>>, NEW need \in Int
      PROVE  next(need) \in Steps /\ next(need).do = "evict" /\ next(need).items = Tail(a.items)
  <2>1. Tail(a.items) \in Seq(Item)
    BY <1>2, <1>4
  <2>2. /\ next(need) \in
             [do : {"evict"}, items : Seq(Item), need : Int, floor : Int, after : SUBSET Outcomes]
        /\ next(need).items = Tail(a.items) /\ next(need).do = "evict"
    BY <1>2, <2>1
  <2> QED  BY <2>2 DEF Steps
<1>5. ASSUME a.items # <<>>, NEW outcome \in RemoveOutcomes(p),
             file' = IF outcome # "removed" THEN file
                     ELSE [file EXCEPT ![p] = [gen |-> @.gen + 1, content |-> "absent"]],
             Continue(c, IF outcome \in a.after
                         THEN <<[do |-> "find", path |-> p]>> \o << next(a.need - a.items[1].size) >>
                         ELSE << next(a.need) >>)
      PROVE  /\ p \in Paths /\ file'[p].content = "absent" /\ \A q \in Paths \ {p} : file'[q] = file[q]
             /\ \E x \in Steps :
                  /\ x.do = "evict" /\ x.items = Tail(a.items)
                  /\ Continue(c, << [do |-> "find", path |-> p] >> \o <<x>>) \/ Continue(c, <<x>>)
  <2>1. a.items[1] \in Item
    BY <1>2, <1>5
  <2>2. p \in Paths /\ a.need - a.items[1].size \in Int
    BY <1>2, <2>1 DEF Item
  <2>3. outcome = IF Absent(p) THEN "missing" ELSE "removed"
    BY DEF RemoveOutcomes
  <2>4. file'[p].content = "absent" /\ \A q \in Paths \ {p} : file'[q] = file[q]
    BY <1>5, <2>2, <2>3 DEF TypeOK, Absent
  <2> DEFINE x == next(IF outcome \in a.after THEN a.need - a.items[1].size ELSE a.need)
  <2>5. x \in Steps /\ x.do = "evict" /\ x.items = Tail(a.items)
    BY <1>2, <1>4, <1>5, <2>2
  <2>6. Continue(c, << [do |-> "find", path |-> p] >> \o <<x>>) \/ Continue(c, <<x>>)
    BY <1>5
  <2> HIDE DEF x, p, a
  <2> QED  BY <2>2, <2>4, <2>5, <2>6
<1> HIDE DEF next
<1> QED  BY <1>3, <1>5

\* The rest of a list.
LEMMA TailItems ==
  ASSUME NEW x \in Seq(Item), x # <<>>
  PROVE  /\ Tail(x) \in Seq(Item) /\ Len(x) \in Nat /\ Len(Tail(x)) = Len(x) - 1 /\ 1 \in 1..Len(x)
         /\ \A j \in 1..Len(Tail(x)) : j + 1 \in 1..Len(x) /\ Tail(x)[j] = x[j + 1]
OBVIOUS

\* What is listed behind the first stays due when the file of the first is gone.
LEMMA DueRest ==
  ASSUME NEW k, NEW e, NEW f, NEW f2, NEW x \in Seq(Item), NEW y \in Seq(Item), x # <<>>,
         x[1].path \notin Left(k, f2), Left(k, f2) \subseteq Left(k, f)
  PROVE  /\ Due(k, y, e, f) => Due(k, y, e, f2)
         /\ Due(k, x, e, f) => Due(k, Tail(x), e, f2)
<1>1. Due(k, y, e, f) => Due(k, y, e, f2)
  BY DEF Due
<1>2. ASSUME Due(k, x, e, f) PROVE Due(k, Tail(x), e, f2)
  <2> SUFFICES ASSUME NEW j \in 1..Len(Tail(x)), Tail(x)[j].path \in Left(k, f2),
                      NEW r \in Left(k, f2), e[r].used < e[Tail(x)[j].path].used
               PROVE  \E l \in 1..Len(Tail(x)) : l < j /\ Tail(x)[l].path = r
    BY DEF Due
  <2>1. j + 1 \in 1..Len(x) /\ Tail(x)[j] = x[j + 1]
    BY TailItems
  <2>2. PICK l \in 1..Len(x) : l < j + 1 /\ x[l].path = r
    BY <1>2, <2>1 DEF Due
  <2>3. l # 1
    BY <2>2
  <2>4. l - 1 \in 1..Len(Tail(x)) /\ l - 1 < j /\ (l - 1) + 1 = l
    BY <2>2, <2>3, TailItems
  <2>5. Tail(x)[l - 1] = x[l]
    BY <2>4, TailItems
  <2> QED  BY <2>2, <2>4, <2>5
<1> QED  BY <1>1, <1>2

\* The oldest is deleted, or what is no longer there, or the path of the call.
LEMMA HonestEvict ==
  ASSUME NEW c \in Procs, Working(c), Evict(c)
  PROVE  Honest(call'[c], prog'[c], entry', file')
<1> DEFINE k == call[c]
           a == First(c)
           s == prog[c]
           u == prog'[c]
           p == a.items[1].path
<1>1. /\ TypeOK /\ InOrder /\ OwnStep(k, a) /\ a = s[1] /\ a \in Steps /\ 1 \in 1..Len(s)
      /\ s \in Seq(Steps) /\ s # <<>> /\ Follows(k, s)
      /\ Unchanged(k, entry, file) /\ LeastGone(k, file) /\ Known(k)
      /\ AllDue(k, s, entry, file) /\ Achieves(k, s, entry, file)
  BY AtWork
<1>2. a.do = "evict" /\ a = Arg(c) /\ UNCHANGED <<entry, call>> /\ disk = "sound"
  BY <1>1, FirstStep DEF Evict, Working
<1>3. k.op # "get" /\ a.do \in Evicting
  BY <1>1, <1>2, DoesWhat DEF Evicting
<1>4. a.items \in Seq(Item) /\ a.need \in Int /\ a.floor \in Int
  BY <1>1, <1>2, StepTypes
<1>5. Due(k, a.items, entry, file)
  BY <1>1, <1>2 DEF AllDue
<1>6. ASSUME NEW t \in Seq(Steps), Continue(c, t), k.op \in Puts PROVE Achieves(k, u, entry', file')
  <2>1. (\E i \in 1..Len(u) : u[i].do = "fill") /\ (\E i \in 1..Len(u) : Fresh(u[i]))
    BY <1>3, <1>6, RestKept
  <2> QED  BY <1>6, <2>1 DEF Achieves, Renews, Puts
<1>7. k.op \notin Puts \cup {"remove"} => Achieves(k, u, entry', file')
  BY <1>3 DEF Achieves
<1>8. CASE (a.items = <<>> \/ a.need <= a.floor) /\ Continue(c, <<>>) /\ UNCHANGED file
  <2>1. ASSUME k.op = "remove" PROVE Achieves(k, u, entry', file')
    <3>1. a.items = <<>>
      <4>1. Len(a.items) \in Nat /\ \A j \in 1..Len(a.items) : a.need > a.floor
        BY <1>1, <1>2, <1>4, <2>1 DEF OwnStep
      <4>2. a.items # <<>> => 1 \in 1..Len(a.items)
        BY <1>4
      <4> QED  BY <1>4, <1>8, <4>1, <4>2
    <3>2. \A j \in 2..Len(s) : \E i \in 1..Len(u) : u[i] = s[j]
      BY <1>1, <1>8, NothingJoins, GoesKeeps
    <3>3. \A j \in 1..Len(s) : j = 1 \/ j \in 2..Len(s)
      OBVIOUS
    <3>4. \/ file[k.path].content = "absent"
          \/ \E j \in 1..Len(s) : s[j].do = "locate" \/ (s[j].do = "evict" /\ s[j].items # <<>>)
      BY <1>1, <2>1 DEF Achieves
    <3> HIDE DEF k, s, u, a
    <3>5. \/ file[k.path].content = "absent"
          \/ \E i \in 1..Len(u) : u[i].do = "locate" \/ (u[i].do = "evict" /\ u[i].items # <<>>)
      BY <1>1, <1>2, <3>1, <3>2, <3>3, <3>4
    <3> QED  BY <1>8, <2>1, <3>5 DEF Achieves, Puts
  <2>2. Achieves(k, u, entry', file')
    BY <1>6, <1>7, <1>8, <2>1, NothingJoins
  <2> QED  BY <1>2, <1>8, <2>2, HonestOn, NothingJoins
<1>9. ASSUME a.items # <<>>, p \in Paths,
             file'[p].content = "absent", \A q \in Paths \ {p} : file'[q] = file[q],
             NEW x \in Steps, x.do = "evict", x.items = Tail(a.items),
             Continue(c, << [do |-> "find", path |-> p] >> \o <<x>>) \/ Continue(c, <<x>>)
      PROVE  Honest(call'[c], u, entry', file')
  <2> HIDE DEF k, s, u, a, p
  <2>1. p = a.items[1].path /\ 1 \in 1..Len(a.items) /\ Tail(a.items) \in Seq(Item)
        /\ Len(Tail(a.items)) = Len(a.items) - 1 /\ Len(a.items) \in Nat
    BY <1>4, <1>9, TailItems DEF p
  <2>2. k.op = "remove" => p = k.path
    BY <1>1, <1>2, <2>1 DEF OwnStep
  <2>3. OwnStep(k, x)
    <3>1. k.op = "remove" => 1..Len(x.items) = {} /\ Len(x.items) <= 1
      <4>1. k.op = "remove" => Len(a.items) <= 1
        BY <1>1, <1>2 DEF OwnStep
      <4> QED  BY <1>9, <2>1, <4>1
    <3> QED  BY <1>1, <1>2, <1>9, <3>1 DEF OwnStep
  <2> DEFINE y == [do |-> "find", path |-> p]
  <2>4. y \in Steps /\ y.do = "find"
    BY <1>9 DEF Steps
  <2>5. OwnStep(k, y)
    <3>1. "find" \in Does(k.op)
      BY <1>3 DEF Does, Evicting, Puts
    <3> QED  BY <2>4, <3>1 DEF OwnStep
  <2>6. PICK t \in {<<x>>, <<y>> \o <<x>>} : Continue(c, t)
    BY <1>9
  <2> HIDE DEF y
  <2>7. /\ Left(k, file') \subseteq Left(k, file) /\ p \notin Left(k, file')
        /\ \A q \in Left(k, file) : q # p => q \in Left(k, file')
        /\ \A q \in Left(k, file') : file'[q] = file[q]
    BY <1>9 DEF Left
  <2>8. /\ t \in Seq(Steps) /\ Joins(k, s, t)
        /\ \A i \in 1..Len(t) : t[i].do = "evict" => Due(k, t[i].items, entry, file')
    <3>1. Due(k, x.items, entry, file')
      BY <1>4, <1>5, <1>9, <2>1, <2>7, DueRest
    <3>2. s[1].do \in Evicting \cup {"room"}
      BY <1>1, <1>3
    <3>3. CASE t = <<x>>
      BY <1>9, <2>3, <3>1, <3>2, <3>3, OneJoins
    <3>4. CASE t = <<y>> \o <<x>>
      BY <1>9, <2>3, <2>4, <2>5, <3>1, <3>2, <3>4, TwoJoin
    <3> QED  BY <2>6, <3>3, <3>4
  <2>9. Achieves(k, u, entry', file')
    <3>1. k.op = "remove" => Achieves(k, u, entry', file')
      BY <1>9, <2>2 DEF Achieves, Puts
    <3> QED  BY <1>6, <1>7, <2>6, <2>8, <3>1
  <2>10. u = t \o Tail(s)
    BY <1>1, <2>6, <2>8, Goes DEF s, u
  <2>11. Follows(k, u)
    BY <1>1, <2>8, <2>10, FollowsOn
  <2>12. AllDue(k, s, entry, file')
    <3> SUFFICES ASSUME NEW i \in 1..Len(s), s[i].do = "evict" PROVE Due(k, s[i].items, entry, file')
      BY DEF AllDue
    <3>1. Due(k, s[i].items, entry, file)
      BY <1>1 DEF AllDue
    <3>2. s[i] \in Steps
      BY <1>1
    <3>3. s[i].items \in Seq(Item)
      BY <3>2, StepTypes
    <3> QED  BY <1>4, <1>9, <2>1, <2>7, <3>1, <3>3, DueRest
  <2>13. AllDue(k, u, entry, file')
    BY <1>1, <2>8, <2>10, <2>12, DueOn
  <2>14. Unchanged(k, entry, file')
    BY <1>1, <2>7 DEF Unchanged
  <2>15. LeastGone(k, file')
    <3> SUFFICES ASSUME NEW q \in Paths \ Mine(k), k.before[q] # None, q \notin Left(k, file')
                 PROVE  /\ k.op \notin {"get", "remove"}
                        /\ \A r \in Left(k, file') : <<r, q>> \notin k.older
      BY DEF LeastGone
    <3>1. CASE q \notin Left(k, file)
      BY <1>1, <2>7, <3>1 DEF LeastGone
    <3>2. CASE q \in Left(k, file)
      <4>1. q = p
        BY <2>7, <3>2
      <4>2. k.op # "remove"
        BY <2>2, <4>1 DEF Mine
      <4>3. ASSUME NEW r \in Left(k, file') PROVE <<r, q>> \notin k.older
        <5>1. r \in Left(k, file)
          BY <2>7
        <5>2. ~(entry[r].used < entry[q].used)
          <6> SUFFICES ASSUME entry[r].used < entry[q].used PROVE FALSE
            OBVIOUS
          <6>1. \E l \in 1..Len(a.items) : l < 1 /\ a.items[l].path = r
            BY <1>5, <2>1, <3>2, <4>1, <5>1 DEF Due
          <6> QED  BY <2>1, <6>1
        <5> QED  BY <1>1, <3>2, <5>1, <5>2 DEF Unchanged
      <4> QED  BY <1>3, <4>2, <4>3
    <3> QED  BY <3>1, <3>2
  <2>16. call'[c] = k
    BY <1>2 DEF k
  <2>17. entry' = entry
    BY <1>2
  <2> QED  BY <1>1, <2>9, <2>11, <2>13, <2>14, <2>15, <2>16, <2>17 DEF Honest
<1>10. \/ (a.items = <<>> \/ a.need <= a.floor) /\ Continue(c, <<>>) /\ UNCHANGED file
       \/ /\ a.items # <<>> /\ p \in Paths
          /\ file'[p].content = "absent" /\ \A q \in Paths \ {p} : file'[q] = file[q]
          /\ \E x \in Steps :
               /\ x.do = "evict" /\ x.items = Tail(a.items)
               /\ Continue(c, << [do |-> "find", path |-> p] >> \o <<x>>) \/ Continue(c, <<x>>)
  BY <1>1, <1>2, Turns
<1> HIDE DEF k, s, a, p, u
<1>11. Honest(call'[c], u, entry', file')
  BY <1>8, <1>9, <1>10 DEF u
<1> QED  BY <1>11 DEF u

\* A step of a call changes nothing of it but its answer.
LEMMA CallKept ==
  ASSUME TypeOK, NEW c \in Procs, call[c] \in Calls, ProcStep(c)
  PROVE  /\ call'[c].op = call[c].op /\ call'[c].path = call[c].path /\ call'[c].data = call[c].data
         /\ call'[c].before = call[c].before /\ call'[c].older = call[c].older
<1>1. CASE UNCHANGED call
  BY <1>1
<1>2. CASE Read(c)
  <2>1. PICK v : call' = [call EXCEPT ![c].answer = v]
    BY <1>2 DEF Read
  <2>2. call'[c] = [call[c] EXCEPT !.answer = v]
    BY <2>1 DEF TypeOK
  <2> QED  BY <2>2 DEF Calls
<1>3. ASSUME FileStep(c), ~Read(c) PROVE UNCHANGED call
  BY <1>3 DEF FileStep, Open, Fill, FillFails, Evict
<1>4. ASSUME EntryStep(c) PROVE UNCHANGED call
  <2>1. CASE Credit(c) \/ SetEntry(c) \/ Find(c)
    BY <2>1 DEF Credit, SetEntry, Find
  <2>2. CASE Debit(c) \/ Drop(c) \/ Check(c)
    BY <2>2 DEF Debit, Drop, Check
  <2>3. CASE Hit(c) \/ Expire(c) \/ Locate(c)
    BY <2>3 DEF Hit, Expire, Locate
  <2> QED  BY <1>4, <2>1, <2>2, <2>3 DEF EntryStep
<1>5. ASSUME SizeStep(c) PROVE UNCHANGED call
  BY <1>5 DEF SizeStep, Room, Overfull, List, Persist
<1> QED  BY <1>1, <1>2, <1>3, <1>4, <1>5 DEF ProcStep

\* Every step of a call that is alone, on a sound disk.
LEMMA HonestStep ==
  ASSUME NEW c \in Procs, Working(c), ProcStep(c)
  PROVE  Sensible(call'[c]) /\ Honest(call'[c], prog'[c], entry', file')
<1> DEFINE H == Honest(call'[c], prog'[c], entry', file')
<1>1. TypeOK /\ ~FillFails(c)
  BY AtWork DEF Working, FillFails
<1>2. Sensible(call'[c])
  <2>1. Sensible(call[c]) /\ call[c] \in Calls
    BY AtWork
  <2> QED  BY <1>1, <2>1, CallKept DEF Sensible
<1>3. (Open(c) => H) /\ (Fill(c) => H) /\ (Read(c) => H) /\ (Evict(c) => H)
  BY HonestOpen, HonestFill, HonestRead, HonestEvict
<1>4. /\ (Credit(c) => H) /\ (SetEntry(c) => H) /\ (Find(c) => H)
      /\ (Debit(c) \/ Persist(c) => H) /\ (Drop(c) => H)
  BY HonestCredit, HonestSet, HonestFind, HonestDebit, HonestDrop
<1>5. (Check(c) => H) /\ (Hit(c) => H) /\ (Expire(c) => H) /\ (Locate(c) => H)
  BY HonestCheck, HonestHit, HonestExpire, HonestLocate
<1>6. (Room(c) \/ Overfull(c) => H) /\ (List(c) => H)
  BY HonestRoom, HonestList
<1> HIDE DEF H
<1>7. FileStep(c) => H
  BY <1>1, <1>3 DEF FileStep
<1>8. EntryStep(c) => H
  BY <1>4, <1>5 DEF EntryStep
<1>9. SizeStep(c) => H
  BY <1>4, <1>6 DEF SizeStep
<1>10. H
  BY <1>7, <1>8, <1>9 DEF ProcStep
<1> QED  BY <1>2, <1>10 DEF H

\* How a call starts: what it has to do, and that it has done nothing.
Starting(k, s) ==
  /\ k \in Calls /\ s \in Seq(Steps) /\ Sensible(k) /\ Follows(k, s)
  /\ \A i \in 1..Len(s) : /\ s[i].do \notin {"set", "evict"}
                          /\ s[i].do = "credit" => s[i].entry.used = 0
  /\ k.op \in Puts => \E i \in 1..Len(s) : s[i].do = "fill"
  /\ k.op \in Puts \cup {"get"} => \E i \in 1..Len(s) : Fresh(s[i])
  /\ k.op = "get" => \E i \in 1..Len(s) : s[i].do = "read"
  /\ k.op = "remove" => \E i \in 1..Len(s) : s[i].do = "locate"

\* The first six steps of a Put.
LEMMA AddFollows ==
  ASSUME NEW p \in Paths, NEW d \in Data, NEW k, k.op \in Puts, k.path = p, k.data = d,
         NEW s \in Seq(Steps), Len(s) \in {6, 7}, \A i \in 1..6 : s[i] = Add(p, d)[i]
  PROVE  /\ \A i \in 1..6 : /\ OwnStep(k, s[i]) /\ Ending(s, i) /\ Later(s, i)
                            /\ s[i].do \notin {"set", "evict"}
                            /\ s[i].do = "credit" => s[i].entry.used = 0
         /\ 5 \in 1..Len(s) /\ s[5].do = "fill" /\ 6 \in 1..Len(s) /\ Fresh(s[6])
<1>1. 1..6 = {1, 2, 3, 4, 5, 6}
  OBVIOUS
<1>2. 1..6 \subseteq 1..Len(s) /\ Len(s) # 1
  OBVIOUS
<1>3. /\ s[1].do = "open" /\ s[1].path = p
      /\ s[2].do = "fill" /\ s[2].path = p /\ s[2].data = d
      /\ s[3].do = "room"
      /\ s[4].do = "open" /\ s[4].path = p
      /\ s[5].do = "fill" /\ s[5].path = p /\ s[5].data = d
      /\ s[6].do = "credit" /\ s[6].path = p /\ s[6].entry.used = 0 /\ s[6].touch
  BY <1>1, AddSteps
<1>4. Does(k.op) = Evicting \cup {"open", "fill", "room", "credit", "set", "expire"}
  BY DEF Does, Puts
<1>5. k.op # "remove"
  BY DEF Puts
<1>6. \A i \in 1..6 : OwnStep(k, s[i])
  BY <1>1, <1>3, <1>4, <1>5 DEF OwnStep
<1>7. \A i \in 1..6 : Ending(s, i)
  BY <1>1, <1>3 DEF Ending
<1>8. Fresh(s[6])
  BY <1>3 DEF Fresh
<1>9. \A i \in 1..6 : Later(s, i)
  BY <1>1, <1>2, <1>3, <1>8 DEF Later, Evicting
<1> QED  BY <1>1, <1>2, <1>3, <1>6, <1>7, <1>8, <1>9

\* A Put writes its file and its entry.
LEMMA PutStarts ==
  ASSUME NEW p \in Paths, NEW d \in Data, NEW k \in Calls, k.op \in Puts, k.path = p, k.data = d
  PROVE  Starting(k, Add(p, d)) /\ Starting(k, PutWithExpiration(p, d))
<1>1. Sensible(k)
  BY DEF Sensible
<1>2. k.op \notin {"get", "remove"}
  BY DEF Puts
<1>3. Starting(k, Add(p, d))
  <2> DEFINE s == Add(p, d)
  <2>1. s \in Seq(Steps) /\ Len(s) = 6 /\ \A i \in 1..6 : s[i] = Add(p, d)[i]
    BY AddSteps
  <2> HIDE DEF s
  <2>2. /\ \A i \in 1..6 : /\ OwnStep(k, s[i]) /\ Ending(s, i) /\ Later(s, i)
                           /\ s[i].do \notin {"set", "evict"}
                           /\ s[i].do = "credit" => s[i].entry.used = 0
        /\ 5 \in 1..Len(s) /\ s[5].do = "fill" /\ 6 \in 1..Len(s) /\ Fresh(s[6])
    BY <2>1, AddFollows
  <2>3. Starting(k, s)
    BY <1>1, <1>2, <2>1, <2>2 DEF Starting, Follows
  <2> QED  BY <2>3 DEF s
<1>4. Starting(k, PutWithExpiration(p, d))
  <2> DEFINE s == PutWithExpiration(p, d)
  <2>1. /\ s \in Seq(Steps) /\ Len(s) = 7 /\ \A i \in 1..6 : s[i] = Add(p, d)[i]
        /\ s[7].do = "expire" /\ s[7].path = p
    BY PutWithExpirationInOrder
  <2> HIDE DEF s
  <2>2. /\ \A i \in 1..6 : /\ OwnStep(k, s[i]) /\ Ending(s, i) /\ Later(s, i)
                           /\ s[i].do \notin {"set", "evict"}
                           /\ s[i].do = "credit" => s[i].entry.used = 0
        /\ 5 \in 1..Len(s) /\ s[5].do = "fill" /\ 6 \in 1..Len(s) /\ Fresh(s[6])
    BY <2>1, AddFollows
  <2>3. Does(k.op) = Evicting \cup {"open", "fill", "room", "credit", "set", "expire"}
    BY DEF Does, Puts
  <2>4. OwnStep(k, s[7]) /\ Ending(s, 7) /\ Later(s, 7) /\ s[7].do \notin {"set", "evict", "credit"}
    BY <1>2, <2>1, <2>3 DEF OwnStep, Ending, Later, Evicting
  <2>5. \A i \in 1..Len(s) : i \in 1..6 \/ i = 7
    BY <2>1
  <2>6. \A i \in 1..Len(s) : /\ OwnStep(k, s[i]) /\ Ending(s, i) /\ Later(s, i)
                             /\ s[i].do \notin {"set", "evict"}
                             /\ s[i].do = "credit" => s[i].entry.used = 0
    BY <2>2, <2>4, <2>5
  <2>7. Starting(k, s)
    BY <1>1, <1>2, <2>1, <2>2, <2>6 DEF Starting, Follows
  <2> QED  BY <2>7 DEF s
<1> QED  BY <1>3, <1>4

\* A Get records the hit and reads; Remove looks its path up.
LEMMA GetStarts ==
  ASSUME NEW p \in Paths, NEW k \in Calls, k.path = p
  PROVE  /\ k.op = "get" => Starting(k, Get(p))
         /\ k.op = "remove" => Starting(k, RemovePath(p))
<1>1. ASSUME k.op = "get" PROVE Starting(k, Get(p))
  <2> DEFINE s == Get(p)
  <2>1. /\ s \in Seq(Steps) /\ Len(s) = 3 /\ s[1].do = "check" /\ s[2].do = "hit" /\ s[3].do = "read"
        /\ s[1].path = p /\ s[2].path = p /\ s[3].path = p
    BY GetInOrder
  <2> HIDE DEF s
  <2>2. 1..Len(s) = {1, 2, 3}
    BY <2>1
  <2>3. Does(k.op) = {"check", "hit", "credit", "set", "read"}
    BY <1>1 DEF Does, Puts
  <2>4. \A i \in 1..Len(s) : OwnStep(k, s[i])
    BY <1>1, <2>1, <2>2, <2>3 DEF OwnStep
  <2>5. \A i \in 1..Len(s) : Ending(s, i)
    BY <2>1, <2>2 DEF Ending
  <2>6. Follows(k, s) /\ Sensible(k)
    BY <1>1, <2>4, <2>5 DEF Follows, Sensible, Puts
  <2>7. Starting(k, s)
    BY <1>1, <2>1, <2>2, <2>6 DEF Starting, Fresh, Puts
  <2> QED  BY <2>7 DEF s
<1>2. ASSUME k.op = "remove" PROVE Starting(k, RemovePath(p))
  <2> DEFINE x == [do |-> "locate", path |-> p]
             s == <<x>>
  <2>1. x \in Steps /\ x.do = "locate" /\ x.path = p /\ RemovePath(p) = s
    BY DEF Steps, RemovePath
  <2> HIDE DEF x
  <2>2. s \in Seq(Steps) /\ Len(s) = 1 /\ s[1] = x
    BY <2>1
  <2> HIDE DEF s
  <2>3. 1..Len(s) = {1}
    BY <2>2
  <2>4. Does(k.op) = {"locate", "evict", "find", "debit", "drop"}
    BY <1>2 DEF Does, Puts
  <2>5. OwnStep(k, s[1]) /\ Ending(s, 1)
    BY <2>1, <2>2, <2>4 DEF OwnStep, Ending
  <2>6. Follows(k, s) /\ Sensible(k)
    BY <1>2, <2>3, <2>5 DEF Follows, Sensible, Puts
  <2>7. Starting(k, s)
    BY <1>2, <2>1, <2>2, <2>3, <2>6 DEF Starting, Puts
  <2> QED  BY <2>1, <2>7
<1> QED  BY <1>1, <1>2

\* A sweep lists first; the maintenance looks at the size first.
LEMMA SweepStarts ==
  ASSUME NEW k \in Calls, k.op \notin Puts \cup {"get", "remove"},
         NEW s \in Seq(Steps), \A i \in 1..Len(s) : s[i].do \in {"pick", "overfull", "persist"}
  PROVE  Starting(k, s)
<1>1. Does(k.op) = Evicting \cup {"overfull", "persist"}
  BY DEF Does, Puts
<1>2. \A i \in 1..Len(s) : OwnStep(k, s[i]) /\ Ending(s, i)
  BY <1>1 DEF OwnStep, Ending, Evicting
<1> QED  BY <1>2 DEF Starting, Follows, Sensible

\* A call starts, and nothing else happens.
Starts(c, k, s) ==
  /\ UNCHANGED <<disk, file, entry, saved, mem, clock, reply, restarts, crashes>>
  /\ call[c] = NoCall /\ (Serial => Quiet)
  /\ call' = [call EXCEPT ![c] = k] /\ prog' = [prog EXCEPT ![c] = s]
  /\ k.answer = None /\ k.before = Visible /\ k.older = Older
  /\ k.op = "get" => c \in Clients
  /\ Starting(k, s)

\* Every call starts like that.
LEMMA CallsStart ==
  ASSUME TypeOK,
         \/ \E c \in Clients, p \in Paths :
              \/ CallGet(c, p) \/ CallRemove(c, p)
              \/ \E d \in Data : CallPut(c, p, d) \/ CallPutTTL(c, p, d)
         \/ \E c \in Clients : CallSweep(c) \/ CallClear(c)
         \/ CallMaintain
  PROVE  \E c \in Procs : \E k, s : Starts(c, k, s)
<1> USE ClientIsProc
<1> DEFINE K(op, p, d) == [op |-> op, path |-> p, data |-> d, answer |-> None,
                           before |-> Visible, older |-> Older]
<1>1. ASSUME NEW op \in AllOps, NEW p \in Paths \cup {None}, NEW d \in Data \cup {None}
      PROVE  /\ K(op, p, d) \in Calls
             /\ K(op, p, d).op = op /\ K(op, p, d).path = p /\ K(op, p, d).data = d
             /\ K(op, p, d).answer = None /\ K(op, p, d).before = Visible /\ K(op, p, d).older = Older
  <2>1. Visible \in [Paths -> Contents \cup {None}]
    BY DEF Visible, TypeOK
  <2>2. Older \in SUBSET (Paths \X Paths)
    BY DEF Older, Readable, Present
  <2> QED  BY <2>1, <2>2 DEF Calls
<1> HIDE DEF K
<1>2. ASSUME NEW c \in Procs, NEW op \in AllOps, NEW p \in Paths \cup {None}, NEW d \in Data \cup {None},
             NEW s, Begin(c, op, p, d, s), Starting(K(op, p, d), s), op = "get" => c \in Clients
      PROVE  \E e \in Procs : \E k, t : Starts(e, k, t)
  <2>1. call' = [call EXCEPT ![c] = K(op, p, d)]
    BY <1>2 DEF Begin, K
  <2>a. /\ UNCHANGED <<disk, file, entry, saved, mem, clock, reply, restarts, crashes>>
        /\ call[c] = NoCall /\ (Serial => Quiet) /\ prog' = [prog EXCEPT ![c] = s]
    BY <1>2 DEF Begin
  <2>b. K(op, p, d).answer = None /\ K(op, p, d).before = Visible /\ K(op, p, d).older = Older
    BY <1>1
  <2>d. K(op, p, d).op = "get" => c \in Clients
    BY <1>1, <1>2
  <2>2. Starts(c, K(op, p, d), s)
    BY <1>2, <2>1, <2>a, <2>b, <2>d, Zenon DEF Starts
  <2> QED  BY <2>2
<1>3. \A op \in AllOps : op \in {"get", "put", "putTTL", "remove", "sweep", "clear", "maintain"}
  BY DEF AllOps
<1>4. ASSUME NEW c \in Clients, NEW p \in Paths, CallGet(c, p) \/ CallRemove(c, p)
      PROVE  \E e \in Procs : \E k, s : Starts(e, k, s)
  <2>1. "get" \in AllOps /\ "remove" \in AllOps
    BY DEF AllOps
  <2>2. Starting(K("get", p, None), Get(p)) /\ Starting(K("remove", p, None), RemovePath(p))
    BY <1>1, <2>1, GetStarts
  <2> QED  BY <1>2, <1>4, <2>1, <2>2 DEF CallGet, CallRemove
<1>5. ASSUME NEW c \in Clients, NEW p \in Paths, NEW d \in Data, CallPut(c, p, d) \/ CallPutTTL(c, p, d)
      PROVE  \E e \in Procs : \E k, s : Starts(e, k, s)
  <2>1. "put" \in AllOps /\ "putTTL" \in AllOps /\ {"put", "putTTL"} = Puts
    BY DEF AllOps, Puts
  <2>2. Starting(K("put", p, d), Add(p, d)) /\ Starting(K("putTTL", p, d), PutWithExpiration(p, d))
    BY <1>1, <2>1, PutStarts
  <2> QED  BY <1>2, <1>5, <2>1, <2>2 DEF CallPut, CallPutTTL
<1>6. "sweep" \in AllOps /\ "clear" \in AllOps /\ "maintain" \in AllOps
      /\ \A op \in {"sweep", "clear", "maintain"} : op \notin Puts \cup {"get", "remove"}
  BY DEF AllOps, Puts
<1>7. Cardinality(Paths) \in Nat /\ Everything \in Int /\ -Everything \in Int
  BY ConstantsAssumption, FS_CardinalityType DEF Everything
<1>8. ASSUME NEW cutoff \in Nat, NEW after \in SUBSET Outcomes, "removed" \in after,
             NEW k \in Calls, k.op \in {"sweep", "clear"}
      PROVE  Starting(k, Pick(cutoff, Cardinality(Paths), Everything, -Everything, after))
  <2> DEFINE s == Pick(cutoff, Cardinality(Paths), Everything, -Everything, after)
  <2>1. s \in Seq(Steps) /\ Len(s) = 1 /\ s[1].do = "pick"
    BY <1>7, <1>8, PickInOrder
  <2> HIDE DEF s
  <2>2. \A i \in 1..Len(s) : s[i].do \in {"pick", "overfull", "persist"}
    BY <2>1
  <2>3. Starting(k, s)
    BY <1>6, <1>8, <2>1, <2>2, SweepStarts
  <2> QED  BY <2>3 DEF s
<1>9. ASSUME NEW c \in Clients, CallSweep(c) PROVE \E e \in Procs : \E k, s : Starts(e, k, s)
  <2>1. PICK cutoff \in 1..clock : Begin(c, "sweep", None, None, Sweep(cutoff))
    BY <1>9 DEF CallSweep
  <2>2. cutoff \in Nat
    BY <2>1 DEF TypeOK
  <2>3. Starting(K("sweep", None, None), Sweep(cutoff))
    BY <1>1, <1>6, <1>8, <2>2 DEF Sweep, Outcomes
  <2> QED  BY <1>2, <1>6, <2>1, <2>3
<1>10. ASSUME NEW c \in Clients, CallClear(c) PROVE \E e \in Procs : \E k, s : Starts(e, k, s)
  <2>1. clock + 1 \in Nat
    BY DEF TypeOK
  <2>2. Starting(K("clear", None, None), Clear)
    BY <1>1, <1>6, <1>8, <2>1 DEF Clear, Outcomes
  <2> QED  BY <1>2, <1>6, <1>10, <2>2 DEF CallClear
<1>11. ASSUME CallMaintain PROVE \E e \in Procs : \E k, s : Starts(e, k, s)
  <2> DEFINE s == Maintain
  <2>1. s \in Seq(Steps) /\ Len(s) = 2 /\ s[1].do = "overfull" /\ s[2].do = "persist"
    BY MaintainInOrder
  <2> HIDE DEF s
  <2>2. 1..Len(s) = {1, 2}
    BY <2>1
  <2>3. Starting(K("maintain", None, None), s)
    BY <1>1, <1>6, <2>1, <2>2, SweepStarts
  <2>4. Keeper \in Procs
    BY DEF Procs
  <2> QED  BY <1>2, <1>6, <1>11, <2>3, <2>4 DEF CallMaintain, s
<1> QED  BY <1>4, <1>5, <1>9, <1>10, <1>11

\* One step of the system, by the calls that start.
LEMMA StartCases ==
  ASSUME TypeOK, [Next]_vars
  PROVE  \/ \E c \in Procs : (\E k, s : Starts(c, k, s)) \/ ProcStep(c) \/ Return(c)
         \/ Restart \/ Crash \/ UNCHANGED vars
BY CallsStart DEF Next, ProcStep

\* Times stay behind the clock when a step brings no time that is ahead of it.
Timely(x, n) == x.do \in {"credit", "set"} => x.entry.used <= n

\* No step comes, and no entry changes, but with a time that has passed.
LEMMA ClockOn ==
  ASSUME TypeOK, TypeOK', ClockAhead, NEW c \in Procs, clock <= clock',
         \A p \in Paths : entry'[p] \in {None, entry[p]} \/ entry'[p].used <= clock',
         \A d \in Procs \ {c} : prog'[d] = prog[d],
         \A i \in 1..Len(prog'[c]) :
           Timely(prog'[c][i], clock') \/ \E j \in 1..Len(prog[c]) : prog'[c][i] = prog[c][j]
  PROVE  ClockAhead'
<1>1. clock \in Nat /\ clock' \in Nat
  BY DEF TypeOK
<1>2. ASSUME NEW p \in Paths, entry'[p] # None PROVE entry'[p].used <= clock'
  <2>1. CASE entry'[p] = entry[p]
    <3>1. entry[p] \in Entry /\ entry[p].used <= clock
      BY <1>2, <2>1 DEF TypeOK, ClockAhead, Present
    <3>2. entry[p].used \in Nat
      BY <3>1 DEF Entry
    <3> QED  BY <1>1, <2>1, <3>1, <3>2
  <2> QED  BY <1>2, <2>1
<1>3. ASSUME NEW d \in Procs, NEW j \in 1..Len(prog[d]) PROVE Timely(prog[d][j], clock')
  <2>1. Timely(prog[d][j], clock)
    BY DEF ClockAhead, Timely
  <2>0. prog[d] \in Seq(Steps)
    BY DEF TypeOK
  <2>2. prog[d][j] \in Steps
    BY <2>0
  <2>3. prog[d][j].do \in {"credit", "set"} => prog[d][j].entry.used \in Nat
    BY <2>2, StepTypes DEF Entry
  <2> QED  BY <1>1, <2>1, <2>3 DEF Timely
<1>4. ASSUME NEW d \in Procs, NEW i \in 1..Len(prog'[d]) PROVE Timely(prog'[d][i], clock')
  <2>1. CASE d = c
    BY <1>3, <1>4, <2>1
  <2>2. CASE d # c
    <3>1. prog'[d] = prog[d]
      BY <2>2
    <3> QED  BY <1>3, <1>4, <3>1
  <2> QED  BY <2>1, <2>2
<1> QED  BY <1>2, <1>4 DEF ClockAhead, Timely, Present

\* A step that puts others in front, none of which is ahead of the clock.
LEMMA ClockGoes ==
  ASSUME TypeOK, TypeOK', ClockAhead, NEW c \in Procs, prog[c] # <<>>, clock <= clock',
         \A p \in Paths : entry'[p] \in {None, entry[p]} \/ entry'[p].used <= clock',
         NEW t \in Seq(Steps), Continue(c, t), \A i \in 1..Len(t) : Timely(t[i], clock')
  PROVE  ClockAhead'
<1>1. /\ \A d \in Procs \ {c} : prog'[d] = prog[d]
      /\ \A i \in 1..Len(prog'[c]) :
           \/ \E j \in 1..Len(t) : prog'[c][i] = t[j]
           \/ \E j \in 2..Len(prog[c]) : prog'[c][i] = prog[c][j]
  BY Goes
<1>2. \A j \in 2..Len(prog[c]) : j \in 1..Len(prog[c])
  OBVIOUS
<1>3. \A i \in 1..Len(prog'[c]) :
        Timely(prog'[c][i], clock') \/ \E j \in 1..Len(prog[c]) : prog'[c][i] = prog[c][j]
  BY <1>1, <1>2
<1> QED  BY <1>1, <1>3, ClockOn

\* No step in front, one, or two.
LEMMA ClockGoesOn ==
  ASSUME TypeOK, TypeOK', ClockAhead, NEW c \in Procs, prog[c] # <<>>, clock <= clock',
         \A p \in Paths : entry'[p] \in {None, entry[p]} \/ entry'[p].used <= clock',
         \/ Continue(c, <<>>)
         \/ \E x \in Steps : Timely(x, clock') /\ Continue(c, <<x>>)
         \/ \E x, y \in Steps : Timely(x, clock') /\ Timely(y, clock') /\ Continue(c, <<y>> \o <<x>>)
  PROVE  ClockAhead'
<1>1. CASE Continue(c, <<>>)
  <2>1. <<>> \in Seq(Steps) /\ \A i \in 1..Len(<<>>) : Timely(<<>>[i], clock')
    OBVIOUS
  <2> QED  BY <1>1, <2>1, ClockGoes
<1>2. ASSUME NEW x \in Steps, Timely(x, clock'), Continue(c, <<x>>) PROVE ClockAhead'
  <2> DEFINE t == <<x>>
  <2>1. t \in Seq(Steps) /\ Len(t) = 1 /\ t[1] = x /\ Continue(c, t)
    BY <1>2
  <2> HIDE DEF t
  <2>2. \A i \in 1..Len(t) : Timely(t[i], clock')
    BY <1>2, <2>1
  <2> QED  BY <2>1, <2>2, ClockGoes
<1>3. ASSUME NEW x \in Steps, NEW y \in Steps, Timely(x, clock'), Timely(y, clock'),
             Continue(c, <<y>> \o <<x>>)
      PROVE  ClockAhead'
  <2> DEFINE t == <<y>> \o <<x>>
  <2>1. t \in Seq(Steps) /\ Len(t) = 2 /\ t[1] = y /\ t[2] = x /\ Continue(c, t)
    BY <1>3
  <2> HIDE DEF t
  <2>2. \A i \in 1..Len(t) : i = 1 \/ i = 2
    BY <2>1
  <2>3. \A i \in 1..Len(t) : Timely(t[i], clock')
    BY <1>3, <2>1, <2>2
  <2> QED  BY <2>1, <2>3, ClockGoes
<1> QED  BY <1>1, <1>2, <1>3

\* An entry gets the time the clock comes to, or keeps one that it had.
LEMMA ClockEntry ==
  ASSUME TypeOK, TypeOK', InOrder, ClockAhead, NEW c \in Procs, EntryStep(c)
  PROVE  ClockAhead'
<1>0. clock \in Nat /\ clock <= clock
  BY DEF TypeOK
<1>t. \A x : x.do \notin {"credit", "set"} => Timely(x, clock')
  BY DEF Timely
<1>1. CASE Credit(c)
  <2>1. PICK x \in Steps : x.do = "set" /\ x.entry.used \in {First(c).entry.used, clock'} /\ Continue(c, <<x>>)
    BY <1>1, CreditSets
  <2>2. First(c).do = "credit" /\ 1 \in 1..Len(prog[c]) /\ prog[c] # <<>> /\ First(c) \in Steps
    BY <1>1, FirstStep DEF Credit
  <2>3. First(c).entry.used <= clock /\ First(c).entry.used \in Nat
    BY <2>2, StepTypes DEF ClockAhead, First, Entry
  <2>4. clock <= clock' /\ clock' \in Nat /\ UNCHANGED entry
    BY <1>1, CreditSets DEF Credit
  <2>5. Timely(x, clock')
    BY <1>0, <2>1, <2>3, <2>4 DEF Timely
  <2> QED  BY <2>1, <2>2, <2>4, <2>5, ClockGoesOn
<1>2. CASE SetEntry(c)
  <2>1. First(c).do = "set" /\ 1 \in 1..Len(prog[c]) /\ prog[c] # <<>> /\ First(c) = Arg(c)
    BY <1>2, FirstStep DEF SetEntry
  <2>2. First(c).entry.used <= clock
    BY <2>1 DEF ClockAhead, First
  <2>3. entry' = [entry EXCEPT ![First(c).path] = First(c).entry] /\ Continue(c, <<>>) /\ UNCHANGED clock
    BY <1>2, <2>1 DEF SetEntry
  <2>4. \A p \in Paths : entry'[p] = entry[p] \/ entry'[p] = First(c).entry
    BY <2>3 DEF TypeOK
  <2>5. \A p \in Paths : entry'[p] \in {None, entry[p]} \/ entry'[p].used <= clock'
    BY <2>2, <2>3, <2>4
  <2>6. clock <= clock'
    BY <1>0, <2>3
  <2> QED  BY <2>1, <2>3, <2>5, <2>6, ClockGoesOn
<1>3. CASE Find(c)
  <2>1. prog[c] # <<>> /\ UNCHANGED <<entry, clock>>
    BY <1>3, FirstStep DEF Find
  <2>2. \/ \E x \in Steps : x.do = "drop" /\ Continue(c, <<x>>)
        \/ \E x, y \in Steps : x.do = "drop" /\ y.do = "debit" /\ Continue(c, <<y>> \o <<x>>)
    BY <1>3, FindDrops
  <2>3. \/ \E x \in Steps : Timely(x, clock') /\ Continue(c, <<x>>)
        \/ \E x, y \in Steps : Timely(x, clock') /\ Timely(y, clock') /\ Continue(c, <<y>> \o <<x>>)
    BY <1>t, <2>2
  <2> QED  BY <1>0, <2>1, <2>3, ClockGoesOn
<1>4. CASE Debit(c) \/ Drop(c)
  <2>1. prog[c] # <<>> /\ UNCHANGED clock /\ Continue(c, <<>>)
    BY <1>4, FirstStep DEF Debit, Drop
  <2>2. \A p \in Paths : entry'[p] \in {None, entry[p]}
    BY <1>4 DEF Debit, Drop, TypeOK
  <2> QED  BY <1>0, <2>1, <2>2, ClockGoesOn
<1>5. CASE Check(c)
  <2>1. prog[c] # <<>> /\ UNCHANGED <<entry, clock>>
    BY <1>5, FirstStep DEF Check
  <2>2. CASE Continue(c, <<>>)
    BY <1>0, <2>1, <2>2, ClockGoesOn
  <2>3. CASE Abort(c)
    <3>1. prog'[c] = <<>> /\ \A d \in Procs \ {c} : prog'[d] = prog[d]
      BY <2>3, StepAborts
    <3>2. 1..Len(prog'[c]) = {}
      BY <3>1
    <3> QED  BY <1>0, <2>1, <3>1, <3>2, ClockOn
  <2> QED  BY <1>5, <2>2, <2>3 DEF Check
<1>6. CASE Hit(c) \/ Expire(c)
  <2>1. prog[c] # <<>> /\ UNCHANGED <<entry, clock>>
    BY <1>6, FirstStep DEF Hit, Expire
  <2>2. CASE Continue(c, <<>>)
    BY <1>0, <2>1, <2>2, ClockGoesOn
  <2>3. ASSUME NEW x \in Steps, x.do = "credit", entry[x.path] # None,
               x.entry.used = entry[x.path].used, Continue(c, <<x>>)
        PROVE  ClockAhead'
    <3>1. x.path \in Paths
      BY <2>3, StepTypes
    <3>2. Timely(x, clock')
      BY <2>1, <2>3, <3>1 DEF Timely, ClockAhead, Present
    <3> QED  BY <1>0, <2>1, <2>3, <3>2, ClockGoesOn
  <2> QED  BY <1>6, <2>2, <2>3, WritesBack
<1>7. CASE Locate(c)
  <2>1. prog[c] # <<>> /\ UNCHANGED <<entry, clock>>
    BY <1>7, FirstStep DEF Locate
  <2>2. Continue(c, <<>>) \/ \E x \in Steps : x.do = "evict" /\ Continue(c, <<x>>)
    BY <1>7, LocateDeletes
  <2>3. Continue(c, <<>>) \/ \E x \in Steps : Timely(x, clock') /\ Continue(c, <<x>>)
    BY <1>t, <2>2
  <2> QED  BY <1>0, <2>1, <2>3, ClockGoesOn
<1> QED  BY <1>1, <1>2, <1>3, <1>4, <1>5, <1>6, <1>7 DEF EntryStep

\* The steps on files and on the size bring no time.
LEMMA ClockOther ==
  ASSUME TypeOK, TypeOK', InOrder, ClockAhead, NEW c \in Procs, FileStep(c) \/ SizeStep(c)
  PROVE  ClockAhead'
<1>0. clock \in Nat /\ clock <= clock
  BY DEF TypeOK
<1>t. \A x : x.do \notin {"credit", "set"} => Timely(x, clock')
  BY DEF Timely
<1>1. UNCHANGED <<entry, clock>>
  <2>1. FileStep(c) => UNCHANGED <<entry, clock>>
    BY DEF FileStep, Open, Fill, FillFails, Read, Evict
  <2>2. SizeStep(c) => UNCHANGED <<entry, clock>>
    BY DEF SizeStep, Room, Overfull, List, Persist
  <2> QED  BY <2>1, <2>2
<1>2. \A p \in Paths : entry'[p] \in {None, entry[p]}
  BY <1>1
<1>3. clock <= clock' /\ prog[c] # <<>>
  <2>1. prog[c] # <<>>
    BY HeadAfter DEF ProcStep
  <2> QED  BY <1>0, <1>1, <2>1
<1>4. CASE Open(c)
  <2>1. /\ \A d \in Procs \ {c} : prog'[d] = prog[d]
        /\ Len(prog'[c]) = Len(prog[c]) - 1 /\ prog[c][2].do = "fill"
        /\ prog'[c][1] = [prog[c][2] EXCEPT !.gen = file[First(c).path].gen]
        /\ \A i \in 2..Len(prog'[c]) : prog'[c][i] = prog[c][i + 1]
    BY <1>4, OpenGoes
  <2>0. prog[c] \in Seq(Steps) /\ Len(prog[c]) >= 2
    BY <1>4, OpenGoes DEF TypeOK
  <2>2. Len(prog[c]) \in Nat /\ prog[c] \in Seq(Steps) /\ Len(prog[c]) >= 2
    BY <2>0
  <2>3. prog'[c][1].do = "fill"
    <3>1. prog[c][2] \in Steps
      BY <2>2
    <3>2. prog[c][2] \in [do : {"fill"}, path : Paths, data : Data, gen : Nat]
      BY <2>1, <3>1 DEF Steps
    <3> QED  BY <2>1, <3>2
  <2>4. \A i \in 1..Len(prog'[c]) : i = 1 \/ (i \in 2..Len(prog'[c]) /\ i + 1 \in 1..Len(prog[c]))
    BY <2>1, <2>2
  <2>5. \A i \in 1..Len(prog'[c]) :
          Timely(prog'[c][i], clock') \/ \E j \in 1..Len(prog[c]) : prog'[c][i] = prog[c][j]
    BY <1>t, <2>1, <2>3, <2>4
  <2> QED  BY <1>2, <1>3, <2>1, <2>5, ClockOn
<1>5. CASE FillFails(c)
  <2>1. prog'[c] = <<>> /\ \A d \in Procs \ {c} : prog'[d] = prog[d]
    BY <1>5, StepAborts DEF FillFails
  <2>2. 1..Len(prog'[c]) = {}
    BY <2>1
  <2> QED  BY <1>2, <1>3, <2>1, <2>2, ClockOn
<1>6. CASE Continue(c, <<>>)
  BY <1>2, <1>3, <1>6, ClockGoesOn
<1>7. ASSUME NEW x \in Steps, x.do \in {"pick", "evict"}, Continue(c, <<x>>) PROVE ClockAhead'
  BY <1>2, <1>3, <1>t, <1>7, ClockGoesOn
<1>8. CASE Evict(c)
  <2>1. ASSUME NEW p \in Paths, NEW x \in Steps, x.do = "evict",
               Continue(c, <<[do |-> "find", path |-> p]>> \o <<x>>)
        PROVE  ClockAhead'
    <3> DEFINE y == [do |-> "find", path |-> p]
    <3>1. y \in Steps /\ y.do = "find"
      BY DEF Steps
    <3>2. Timely(x, clock') /\ Timely(y, clock') /\ Continue(c, <<y>> \o <<x>>)
      BY <1>t, <2>1, <3>1
    <3> HIDE DEF y
    <3> QED  BY <1>2, <1>3, <2>1, <3>1, <3>2, ClockGoesOn
  <2>2. \/ Continue(c, <<>>)
        \/ \E p \in Paths, x \in Steps :
             /\ x.do = "evict"
             /\ Continue(c, <<x>>) \/ Continue(c, <<[do |-> "find", path |-> p]>> \o <<x>>)
    BY <1>8, Evicts
  <2> QED  BY <1>6, <1>7, <2>1, <2>2
<1>9. CASE Room(c) \/ Overfull(c)
  BY <1>6, <1>7, <1>9, PrunesOrNot
<1>10. CASE List(c)
  BY <1>7, <1>10, ListEvicts
<1>11. Fill(c) \/ Read(c) \/ Persist(c) => Continue(c, <<>>)
  BY DEF Fill, Read, Persist
<1> QED  BY <1>4, <1>5, <1>6, <1>8, <1>9, <1>10, <1>11 DEF FileStep, SizeStep

\* Every step of the system.
LEMMA ClockAheadStep ==
  ASSUME TypeOK, TypeOK', InOrder, ClockAhead, [Next]_vars
  PROVE  ClockAhead'
<1>1. ASSUME NEW c \in Procs, ProcStep(c) PROVE ClockAhead'
  BY <1>1, ClockEntry, ClockOther DEF ProcStep
<1>2. ASSUME NEW c \in Procs, NEW k, NEW s, Starts(c, k, s) PROVE ClockAhead'
  <2>1. /\ UNCHANGED <<entry, clock>> /\ prog' = [prog EXCEPT ![c] = s]
        /\ \A i \in 1..Len(s) : s[i].do # "set" /\ (s[i].do = "credit" => s[i].entry.used = 0)
    BY <1>2 DEF Starts, Starting
  <2>2. prog'[c] = s /\ \A d \in Procs \ {c} : prog'[d] = prog[d]
    BY <2>1 DEF TypeOK
  <2>3. clock' \in Nat /\ 0 <= clock' /\ clock <= clock'
    BY <2>1 DEF TypeOK
  <2>4. \A i \in 1..Len(prog'[c]) : Timely(prog'[c][i], clock')
    BY <2>1, <2>2, <2>3 DEF Timely
  <2> QED  BY <2>1, <2>2, <2>3, <2>4, ClockOn
<1>3. CASE UNCHANGED <<prog, entry, clock>>
  BY <1>3 DEF ClockAhead, Present
<1>4. CASE Crash
  <2>1. UNCHANGED <<entry, clock>> /\ \A d \in Procs : 1..Len(prog'[d]) = {}
    BY <1>4 DEF Crash
  <2> QED  BY <2>1 DEF ClockAhead, Present
<1>5. (\E c \in Procs : Return(c)) \/ Restart \/ UNCHANGED vars => UNCHANGED <<prog, entry, clock>>
  BY DEF Return, Restart, vars
<1> QED  BY <1>1, <1>2, <1>3, <1>4, <1>5, StartCases

\* A call that starts has changed nothing yet.
LEMMA HonestStart ==
  ASSUME TypeOK, Alone, Serial, SerialMatch, disk = "sound",
         NEW c \in Procs, NEW k, NEW s, Starts(c, k, s)
  PROVE  Honest(k, s, entry, file)
<1>1. \A q \in Paths : Agree(entry, file, q)
  <2>1. \A d \in Procs : prog[d] = <<>>
    BY DEF Starts, Quiet, Alone
  <2> QED  BY <2>1 DEF SerialMatch, Awaits
<1>2. \A q \in Paths :
        /\ k.before[q] = IF file[q].content = "absent" THEN None ELSE file[q].content
        /\ file[q].content # "absent" => entry[q] # None /\ k.before[q] # None
  <2>1. k.before = Visible
    BY DEF Starts
  <2> QED  BY <1>1, <2>1, ConstantsAssumption DEF Visible, Absent, Agree
<1>3. \A q, r \in Paths : <<q, r>> \in k.older <=>
        /\ file[q].content # "absent" /\ file[r].content # "absent"
        /\ entry[q].used < entry[r].used
  <2>1. k.older = Older
    BY DEF Starts
  <2>2. \A q \in Paths : q \in Readable <=> file[q].content # "absent"
    BY <1>2 DEF Readable, Present, Absent
  <2> QED  BY <2>1, <2>2 DEF Older
<1>4. Unchanged(k, entry, file)
  BY <1>2, <1>3 DEF Unchanged, Left
<1>5. LeastGone(k, file)
  BY <1>2 DEF LeastGone, Left
<1>6. Known(k)
  <2>1. k.older \subseteq Paths \X Paths
    BY DEF Starts, Starting, Calls
  <2>2. ASSUME NEW r \in k.older PROVE k.before[r[1]] # None /\ k.before[r[2]] # None
    <3>1. r[1] \in Paths /\ r[2] \in Paths /\ <<r[1], r[2]>> \in k.older
      BY <2>1
    <3> QED  BY <1>2, <1>3, <3>1
  <2> QED  BY <2>2 DEF Known
<1>7. Follows(k, s) /\ AllDue(k, s, entry, file)
  BY DEF Starts, Starting, AllDue
<1>8. Achieves(k, s, entry, file)
  <2>1. Starting(k, s) /\ Sensible(k) /\ k.answer = None
    BY DEF Starts, Starting
  <2>2. k.op \in Puts \cup {"get"} => Renews(k, s, entry, file)
    BY <2>1 DEF Starting, Renews
  <2>3. k.op = "get" =>
          k.before[k.path] = IF file[k.path].content = "absent" THEN None ELSE file[k.path].content
    BY <1>2, <2>1 DEF Sensible
  <2> QED  BY <2>1, <2>2, <2>3 DEF Achieves, Starting
<1> QED  BY <1>4, <1>5, <1>6, <1>7, <1>8 DEF Honest

\* A step of a call, when there is no other.
LEMMA HonestAlone ==
  ASSUME TypeOK, InOrder, Alone, Serial, SerialMatch, ClockAhead, SerialHonest, disk = "sound",
         NEW c \in Procs, ProcStep(c)
  PROVE  /\ call[c] # NoCall /\ call'[c] # NoCall /\ \A d \in Procs \ {c} : call'[d] = NoCall
         /\ Sensible(call'[c]) /\ Honest(call'[c], prog'[c], entry', file')
         /\ call'[c].op = "get" => c \in Clients
<1>1. prog[c] # <<>> /\ call[c] # NoCall
  BY HeadAfter DEF Alone
<1>2. /\ Sensible(call[c]) /\ (call[c].op = "get" => c \in Clients)
      /\ Honest(call[c], prog[c], entry, file)
  BY <1>1 DEF SerialHonest
<1>3. Working(c)
  BY <1>1, <1>2 DEF Working
<1>4. call[c] \in Calls
  BY <1>1 DEF TypeOK
<1>5. call'[c] # NoCall /\ \A d \in Procs \ {c} : call'[d] = call[d]
  BY <1>1, CallsAfter
<1>6. \A d \in Procs \ {c} : call'[d] = NoCall
  BY <1>1, <1>5 DEF Alone
<1>7. call'[c].op = call[c].op
  BY <1>4, CallKept
<1> QED  BY <1>1, <1>2, <1>3, <1>5, <1>6, <1>7, HonestStep

\* Every step of the system.
LEMMA SerialHonestStep ==
  ASSUME TypeOK, InOrder, Alone, Serial, SerialMatch, ClockAhead, SerialHonest, ~Crash, [Next]_vars
  PROVE  SerialHonest'
<1> DEFINE Good(d) ==
      /\ Sensible(call'[d]) /\ (call'[d].op = "get" => d \in Clients)
      /\ Honest(call'[d], prog'[d], entry', file')
<1> SUFFICES ASSUME disk = "sound" PROVE \A d \in Procs : call'[d] # NoCall => Good(d)
  BY Touches DEF SerialHonest
<1>1. ASSUME NEW c \in Procs, ProcStep(c) PROVE \A d \in Procs : call'[d] # NoCall => Good(d)
  BY <1>1, HonestAlone
<1>2. ASSUME NEW c \in Procs, NEW k, NEW s, Starts(c, k, s)
      PROVE  \A d \in Procs : call'[d] # NoCall => Good(d)
  <2>1. call' = [call EXCEPT ![c] = k] /\ prog' = [prog EXCEPT ![c] = s] /\ UNCHANGED <<entry, file>>
    BY <1>2 DEF Starts
  <2>2. call'[c] = k /\ prog'[c] = s /\ \A d \in Procs \ {c} : call'[d] = call[d]
    BY <2>1 DEF TypeOK
  <2>3. \A d \in Procs \ {c} : call'[d] = NoCall
    BY <1>2, <2>2 DEF Starts, Quiet
  <2>4. Sensible(k) /\ (k.op = "get" => c \in Clients) /\ Honest(k, s, entry, file)
    BY <1>2, HonestStart DEF Starts, Starting
  <2>5. Good(c)
    BY <2>1, <2>2, <2>4
  <2> QED  BY <2>3, <2>5
<1>3. ASSUME NEW c \in Procs, Return(c) PROVE \A d \in Procs : call'[d] # NoCall => Good(d)
  <2>1. call[c] # NoCall /\ call'[c] = NoCall /\ \A d \in Procs \ {c} : call'[d] = call[d]
    BY <1>3 DEF Return, TypeOK
  <2> QED  BY <2>1 DEF Alone
<1>4. CASE UNCHANGED <<prog, call, entry, file>>
  BY <1>4 DEF SerialHonest
<1>5. Restart \/ UNCHANGED vars => UNCHANGED <<prog, call, entry, file>>
  BY DEF Restart, vars
<1> HIDE DEF Good
<1> QED  BY <1>1, <1>2, <1>3, <1>4, <1>5, StartCases

\* A call that has come to its end: what it leaves is what a Get would find.
Settled(k) ==
  /\ TypeOK /\ k \in Calls /\ Sensible(k) /\ Honest(k, <<>>, entry, file)
  /\ \A p \in Paths : Agree(entry, file, p)

\* Visible and Older, when entries and files agree.
LEMMA SettledSees ==
  ASSUME NEW k, Settled(k)
  PROVE  /\ Visible \in [Paths -> Contents \cup {None}]
         /\ \A q \in Paths : /\ Visible[q] # None <=> file[q].content # "absent"
                             /\ file[q].content # "absent" => Visible[q] = file[q].content
                             /\ q \in Readable <=> file[q].content # "absent"
         /\ \A q \in Left(k, file) : k.before[q] # None /\ k.before[q] = Visible[q]
         /\ \A q, r \in Left(k, file) : <<q, r>> \in Older <=> <<q, r>> \in k.older
         /\ \A q, r \in Paths : <<q, r>> \in Older <=>
              q \in Readable /\ r \in Readable /\ entry[q].used < entry[r].used
         /\ \A q \in Readable : entry[q].used \in Nat
         /\ Readable \subseteq Paths /\ Older \subseteq Readable \X Readable
         /\ k.older \subseteq Paths \X Paths /\ k.before \in [Paths -> Contents \cup {None}]
<1>1. TypeOK /\ k \in Calls /\ Unchanged(k, entry, file) /\ \A p \in Paths : Agree(entry, file, p)
  BY DEF Settled, Honest
<1>2. Visible \in [Paths -> Contents \cup {None}]
  BY <1>1 DEF Visible, TypeOK
<1>3. ASSUME NEW q \in Paths
      PROVE  /\ Visible[q] # None <=> file[q].content # "absent"
             /\ file[q].content # "absent" => Visible[q] = file[q].content
             /\ q \in Readable <=> file[q].content # "absent"
  BY <1>1, ConstantsAssumption DEF Visible, Readable, Present, Absent, Agree
<1>4. \A q \in Left(k, file) : k.before[q] # None /\ k.before[q] = Visible[q]
  BY <1>1, <1>3 DEF Unchanged, Left
<1>5. \A q, r \in Paths : <<q, r>> \in Older <=>
        q \in Readable /\ r \in Readable /\ entry[q].used < entry[r].used
  BY DEF Older
<1>6. \A q, r \in Left(k, file) : <<q, r>> \in Older <=> <<q, r>> \in k.older
  BY <1>1, <1>3, <1>5 DEF Unchanged, Left
<1>7. Readable \subseteq Paths /\ Older \subseteq Readable \X Readable
  BY DEF Readable, Present, Older
<1>8. \A q \in Readable : entry[q].used \in Nat
  BY <1>1 DEF Readable, Present, TypeOK, Entry
<1>9. k.older \subseteq Paths \X Paths /\ k.before \in [Paths -> Contents \cup {None}]
  BY <1>1 DEF Calls
<1> QED  BY <1>2, <1>3, <1>4, <1>5, <1>6, <1>7, <1>8, <1>9

\* The path of a call that renewed its entry is the most recently used.
LEMMA OlderTouched ==
  ASSUME NEW k, Settled(k), NEW p \in Paths, Mine(k) = {p}, file[p].content # "absent",
         Latest(k, entry[p].used, entry, file)
  PROVE  LET L == Left(k, file) IN Older = (k.older \cap (L \X L)) \cup (L \X {p})
<1> DEFINE L == Left(k, file)
<1>1. L \subseteq Paths \ {p} /\ \A q \in Paths : q \in Readable <=> q \in L \/ q = p
  BY SettledSees DEF Left
<1>2. p \in Readable /\ \A q \in L : entry[q].used < entry[p].used
  BY SettledSees DEF Latest
<1>3. \A q \in Paths, r \in Paths :
        <<q, r>> \in Older <=> (q \in L /\ r \in L /\ <<q, r>> \in k.older) \/ (q \in L /\ r = p)
  <2> SUFFICES ASSUME NEW q \in Paths, NEW r \in Paths
               PROVE  <<q, r>> \in Older <=>
                        (q \in L /\ r \in L /\ <<q, r>> \in k.older) \/ (q \in L /\ r = p)
    OBVIOUS
  <2>1. CASE q \in L /\ r \in L
    BY <1>1, <2>1, SettledSees
  <2>2. CASE q \in L /\ r = p
    <3>1. q \in Readable /\ r \in Readable /\ entry[q].used < entry[r].used
      BY <1>1, <1>2, <2>2
    <3> QED  BY <2>2, <3>1, SettledSees
  <2>3. CASE q = p
    <3>1. q \notin L
      BY <1>1, <2>3
    <3>2. ASSUME r \in Readable PROVE ~(entry[q].used < entry[r].used)
      <4>1. entry[q].used \in Nat /\ entry[r].used \in Nat
        BY <1>2, <2>3, <3>2, SettledSees
      <4>2. r \in L \/ r = p
        BY <1>1, <3>2
      <4>3. entry[r].used < entry[q].used \/ entry[r].used = entry[q].used
        BY <1>2, <2>3, <4>2
      <4> QED  BY <4>1, <4>3
    <3>3. <<q, r>> \notin Older
      BY <3>2, SettledSees
    <3> QED  BY <3>1, <3>3
  <2>4. CASE q \notin L /\ q # p
    <3>1. q \notin Readable
      BY <1>1, <2>4
    <3> QED  BY <2>4, <3>1, SettledSees
  <2>5. CASE q \in L /\ r \notin L /\ r # p
    <3>1. r \notin Readable
      BY <1>1, <2>5
    <3> QED  BY <2>5, <3>1, SettledSees
  <2> QED  BY <2>1, <2>2, <2>3, <2>4, <2>5
<1>4. Older \subseteq Paths \X Paths
  BY SettledSees
<1> HIDE DEF L
<1>5. Older = (k.older \cap (L \X L)) \cup (L \X {p})
  <2>1. ASSUME NEW x \in Older PROVE x \in (k.older \cap (L \X L)) \cup (L \X {p})
    <3>1. PICK q \in Paths, r \in Paths : x = <<q, r>>
      BY <1>4, <2>1
    <3> QED  BY <1>3, <2>1, <3>1
  <2>2. ASSUME NEW x \in (k.older \cap (L \X L)) \cup (L \X {p}) PROVE x \in Older
    <3>1. PICK q \in Paths, r \in Paths : x = <<q, r>> /\ q \in L /\ (r \in L \/ r = p)
      BY <1>1, <2>2
    <3>2. <<q, r>> \in k.older \/ r = p
      BY <1>1, <2>2, <3>1
    <3> QED  BY <1>3, <3>1, <3>2
  <2> QED  BY <2>1, <2>2
<1> QED  BY <1>5 DEF L

\* A call that leaves no file of its own leaves the order of the others.
LEMMA OlderKept ==
  ASSUME NEW k, Settled(k), \A p \in Mine(k) \cap Paths : file[p].content = "absent"
  PROVE  LET L == Left(k, file) IN Readable = L /\ Older = k.older \cap (L \X L)
<1> DEFINE L == Left(k, file)
<1>1. \A q \in Paths : q \in Readable <=> q \in L
  BY SettledSees DEF Left
<1>2. Readable = L /\ L \subseteq Paths
  <2>1. Readable \subseteq Paths
    BY SettledSees
  <2>2. L \subseteq Paths
    BY DEF Left
  <2> QED  BY <1>1, <2>1, <2>2
<1>3. \A q, r \in L : <<q, r>> \in Older <=> <<q, r>> \in k.older
  BY SettledSees
<1>4. Older \subseteq L \X L
  BY <1>2, SettledSees
<1> HIDE DEF L
<1>5. Older = k.older \cap (L \X L)
  <2>1. ASSUME NEW x \in L \X L PROVE x \in Older <=> x \in k.older
    <3>1. PICK q \in L, r \in L : x = <<q, r>>
      BY <2>1
    <3> QED  BY <1>3, <3>1
  <2> QED  BY <1>4, <2>1
<1> QED  BY <1>2, <1>5 DEF L

\* What a call deleted of the other paths, and what it left.
Victims(k) == {q \in Paths \ Mine(k) : k.before[q] # None /\ q \notin Left(k, file)}

\* The victims were used before the others, and are all that is gone.
LEMMA VictimsGone ==
  ASSUME NEW k, Settled(k)
  PROVE  LET C == {q \in Paths : k.before[q] # None}
             V == Victims(k)
         IN  /\ V \subseteq C /\ C \ (V \cup Mine(k)) = Left(k, file)
             /\ \A q \in V : k.op \notin {"get", "remove"} /\ q \notin Mine(k)
             /\ \A q \in V, r \in C \ Mine(k) : <<r, q>> \in k.older => r \in V
             /\ \A q \in Paths \ Mine(k) : Visible[q] = IF q \in V THEN None ELSE k.before[q]
<1> DEFINE C == {q \in Paths : k.before[q] # None}
           V == Victims(k)
<1>1. /\ V \subseteq C /\ \A q \in V : q \notin Mine(k)
      /\ \A q \in Paths \ Mine(k) : q \in V <=> q \in C /\ q \notin Left(k, file)
  BY DEF Victims
<1>2. Left(k, file) \subseteq C /\ Left(k, file) \subseteq Paths \ Mine(k)
  BY SettledSees DEF Left
<1>3. C \ (V \cup Mine(k)) = Left(k, file)
  BY <1>1, <1>2
<1>4. LeastGone(k, file)
  BY DEF Settled, Honest
<1>5. \A q \in V : k.op \notin {"get", "remove"} /\ \A r \in Left(k, file) : <<r, q>> \notin k.older
  BY <1>4 DEF LeastGone, Victims
<1>6. \A q \in V, r \in C \ Mine(k) : <<r, q>> \in k.older => r \in V
  BY <1>3, <1>5
<1>7. ASSUME NEW q \in Paths \ Mine(k) PROVE Visible[q] = IF q \in V THEN None ELSE k.before[q]
  <2>1. CASE q \in Left(k, file)
    BY <1>1, <2>1, SettledSees
  <2>2. CASE q \notin Left(k, file)
    <3>1. Visible[q] = None
      BY <2>2, SettledSees DEF Left
    <3>2. q \notin V => k.before[q] = None
      BY <1>1, <2>2
    <3> QED  BY <3>1, <3>2
  <2> QED  BY <2>1, <2>2
<1> HIDE DEF C, V
<1>8. /\ V \subseteq C /\ C \ (V \cup Mine(k)) = Left(k, file)
      /\ \A q \in V : k.op \notin {"get", "remove"} /\ q \notin Mine(k)
      /\ \A q \in V, r \in C \ Mine(k) : <<r, q>> \in k.older => r \in V
      /\ \A q \in Paths \ Mine(k) : Visible[q] = IF q \in V THEN None ELSE k.before[q]
  BY <1>1, <1>3, <1>5, <1>6, <1>7
<1> QED  BY <1>8 DEF C, V

\* What the map shows before and after the return of the call k.
Shows(k) ==
  /\ SeenContent = k.before /\ SeenOlder = k.older
  /\ SeenContent' = Visible /\ SeenOlder' = Older

\* Of the paths the map holds, those that the call deleted, and those it left.
LEMMA MapVictims ==
  ASSUME NEW k, Settled(k), Shows(k)
  PROVE  LET V == Victims(k)
             L == Left(k, file)
         IN  /\ LRUMap!Cached = {p \in Paths : k.before[p] # None}
             /\ V \in SUBSET LRUMap!Cached /\ \A q \in V : q \notin Mine(k)
             /\ LRUMap!Cached \ (V \cup Mine(k)) = L
             /\ LRUMap!LeastUsed(V, LRUMap!Cached \ Mine(k))
             /\ k.op \in {"get", "remove"} => V = {}
             /\ \A S : LRUMap!Among(S) = k.older \cap (S \X S)
<1> DEFINE V == Victims(k)
<1>1. SeenContent = k.before /\ SeenOlder = k.older
  BY DEF Shows
<1>2. LRUMap!Cached = {p \in Paths : k.before[p] # None}
  BY <1>1 DEF LRUMap!Cached
<1>3. /\ V \in SUBSET LRUMap!Cached /\ \A q \in V : q \notin Mine(k)
      /\ LRUMap!Cached \ (V \cup Mine(k)) = Left(k, file)
      /\ k.op \in {"get", "remove"} => V = {}
      /\ \A q \in V, r \in LRUMap!Cached \ Mine(k) : <<r, q>> \in k.older => r \in V
  BY <1>2, VictimsGone
<1> HIDE DEF V
<1>4. LRUMap!LeastUsed(V, LRUMap!Cached \ Mine(k))
  BY <1>1, <1>3 DEF LRUMap!LeastUsed
<1>5. \A S : LRUMap!Among(S) = k.older \cap (S \X S)
  BY <1>1 DEF LRUMap!Among
<1> QED  BY <1>2, <1>3, <1>4, <1>5 DEF V

\* A Put that returns is a Put of the map.
LEMMA PutMaps ==
  ASSUME NEW k, Settled(k), Shows(k), k.op \in Puts, UNCHANGED SeenReply
  PROVE  LRUMap!Put(k.path, k.data)
<1> DEFINE p == k.path
           V == Victims(k)
           L == Left(k, file)
           C == LRUMap!Cached
<1>1. p \in Paths /\ k.data \in Data /\ Mine(k) = {p}
  BY DEF Settled, Sensible, Mine
<1>2. file[p].content = k.data /\ Renews(k, <<>>, entry, file)
  BY DEF Settled, Honest, Achieves
<1>3. file[p].content # "absent" /\ k.data # None /\ Latest(k, entry[p].used, entry, file)
  BY <1>1, <1>2, ConstantsAssumption DEF Renews
<1>4. /\ V \in SUBSET C /\ C \ (V \cup {p}) = L /\ p \notin V
      /\ LRUMap!LeastUsed(V, C \ {p})
  BY <1>1, MapVictims
<1>5. SeenContent' = [LRUMap!Without(V) EXCEPT ![p] = k.data]
  <2>1. Visible \in [Paths -> Contents \cup {None}] /\ Visible[p] = k.data
    BY <1>1, <1>2, <1>3, SettledSees
  <2>2. \A q \in Paths \ {p} : Visible[q] = IF q \in V THEN None ELSE k.before[q]
    BY <1>1, VictimsGone
  <2>3. LRUMap!Without(V) = [q \in Paths |-> IF q \in V THEN None ELSE k.before[q]]
    BY DEF LRUMap!Without, Shows
  <2> HIDE DEF p, V
  <2>4. Visible = [LRUMap!Without(V) EXCEPT ![p] = k.data]
    BY <2>1, <2>2, <2>3
  <2> QED  BY <2>4 DEF Shows
<1>6. SeenOlder' = LRUMap!Touched(C \ V, p)
  <2>1. Older = (k.older \cap (L \X L)) \cup (L \X {p})
    BY <1>1, <1>3, OlderTouched
  <2>2. (C \ V) \ {p} = L
    BY <1>4
  <2>3. LRUMap!Among(L) = k.older \cap (L \X L)
    BY MapVictims
  <2> HIDE DEF p, V, L, C
  <2> QED  BY <2>1, <2>2, <2>3 DEF LRUMap!Touched, Shows
<1> HIDE DEF p, V, C
<1>7. LRUMap!Put(p, k.data)
  BY <1>4, <1>5, <1>6 DEF LRUMap!Put, C
<1> QED  BY <1>7 DEF p

\* A Get that returns is a Get of the map.
LEMMA GetMaps ==
  ASSUME NEW k, Settled(k), Shows(k), k.op = "get", NEW c,
         SeenReply' = [SeenReply EXCEPT ![c] = k.answer]
  PROVE  LRUMap!Get(c, k.path)
<1> DEFINE p == k.path
           V == Victims(k)
           L == Left(k, file)
           C == LRUMap!Cached
<1>1. p \in Paths /\ Mine(k) = {p}
  BY DEF Settled, Sensible, Mine
<1>2. /\ k.before[p] = IF file[p].content = "absent" THEN None ELSE file[p].content
      /\ k.before[p] = None \/ Renews(k, <<>>, entry, file)
      /\ k.answer = k.before[p]
  BY DEF Settled, Honest, Achieves
<1>3. V = {} /\ C = {q \in Paths : k.before[q] # None} /\ C \ {p} = L
  BY <1>1, MapVictims
<1>4. SeenReply' = [SeenReply EXCEPT ![c] = SeenContent[p]]
  BY <1>2 DEF Shows
<1>5. SeenContent' = SeenContent
  <2>1. Visible \in [Paths -> Contents \cup {None}] /\ k.before \in [Paths -> Contents \cup {None}]
    BY SettledSees
  <2>2. \A q \in Paths \ {p} : Visible[q] = k.before[q]
    BY <1>1, <1>3, VictimsGone
  <2>3. Visible[p] = k.before[p]
    BY <1>1, <1>2, SettledSees
  <2> HIDE DEF p
  <2>4. Visible = k.before
    BY <2>1, <2>2, <2>3
  <2> QED  BY <2>4 DEF Shows
<1>6. \A S : LRUMap!Among(S) = k.older \cap (S \X S)
  BY MapVictims
<1>7. ASSUME p \in C PROVE SeenOlder' = LRUMap!Touched(C, p)
  <2>1. k.before[p] # None
    BY <1>3, <1>7
  <2>2. file[p].content # "absent" /\ Latest(k, entry[p].used, entry, file)
    BY <1>2, <2>1 DEF Renews
  <2>3. Older = (k.older \cap (L \X L)) \cup (L \X {p})
    BY <1>1, <2>2, OlderTouched
  <2> HIDE DEF p, V, L, C
  <2> QED  BY <1>3, <1>6, <2>3 DEF LRUMap!Touched, Shows
<1>8. ASSUME p \notin C PROVE SeenOlder' = SeenOlder
  <2>1. k.before[p] = None
    BY <1>1, <1>3, <1>8
  <2>2. file[p].content = "absent"
    BY <1>1, <1>2, <2>1, SettledSees
  <2>3. Older = k.older \cap (L \X L)
    BY <1>1, <2>2, OlderKept
  <2>4. Known(k) /\ k.older \subseteq Paths \X Paths
    BY SettledSees DEF Settled, Honest
  <2>5. C = L
    BY <1>3, <1>8
  <2>6. \A r \in k.older : r[1] \in L /\ r[2] \in L
    BY <1>3, <2>4, <2>5 DEF Known
  <2> HIDE DEF L
  <2>7. k.older \subseteq L \X L
    BY <2>4, <2>6
  <2> QED  BY <2>3, <2>7 DEF Shows
<1> HIDE DEF p, V, C
<1>9. LRUMap!Get(c, p)
  BY <1>4, <1>5, <1>7, <1>8 DEF LRUMap!Get, C
<1> QED  BY <1>9 DEF p

\* A Remove that returns forgets its path.
LEMMA ForgetMaps ==
  ASSUME NEW k, Settled(k), Shows(k), k.op = "remove", UNCHANGED SeenReply
  PROVE  LRUMap!Forget(k.path)
<1> DEFINE p == k.path
           V == Victims(k)
           L == Left(k, file)
           C == LRUMap!Cached
<1>1. p \in Paths /\ Mine(k) = {p}
  BY DEF Settled, Sensible, Mine
<1>2. file[p].content = "absent"
  BY DEF Settled, Honest, Achieves
<1>3. V = {} /\ C \ {p} = L
  BY <1>1, MapVictims
<1>4. SeenContent' = LRUMap!Without({p})
  <2>1. Visible \in [Paths -> Contents \cup {None}] /\ Visible[p] = None
    BY <1>1, <1>2, SettledSees
  <2>2. \A q \in Paths \ {p} : Visible[q] = k.before[q]
    BY <1>1, <1>3, VictimsGone
  <2>3. LRUMap!Without({p}) = [q \in Paths |-> IF q \in {p} THEN None ELSE k.before[q]]
    BY DEF LRUMap!Without, Shows
  <2> HIDE DEF p, V
  <2>4. Visible = LRUMap!Without({p})
    BY <2>1, <2>2, <2>3
  <2> QED  BY <2>4 DEF Shows
<1>5. SeenOlder' = LRUMap!Among(C \ {p})
  <2>1. Older = k.older \cap (L \X L)
    BY <1>1, <1>2, OlderKept
  <2> HIDE DEF p, L, C
  <2> QED  BY <1>3, <2>1, MapVictims DEF Shows
<1> HIDE DEF p, V, C
<1>6. LRUMap!Forget(p)
  BY <1>4, <1>5 DEF LRUMap!Forget, C
<1> QED  BY <1>6 DEF p

\* A sweep or a maintenance that returns is an eviction.
LEMMA EvictMaps ==
  ASSUME NEW k, Settled(k), Shows(k), k.op \notin Puts \cup {"get", "remove"}, UNCHANGED SeenReply
  PROVE  LRUMap!Evict
<1> DEFINE V == Victims(k)
           L == Left(k, file)
           C == LRUMap!Cached
<1>1. Mine(k) = {}
  BY DEF Mine
<1>2. V \in SUBSET C /\ C \ V = L /\ LRUMap!LeastUsed(V, C)
  <2>1. /\ V \in SUBSET C /\ C \ (V \cup Mine(k)) = L
        /\ LRUMap!LeastUsed(V, C \ Mine(k))
    BY MapVictims
  <2> HIDE DEF V, L, C
  <2>2. C \ Mine(k) = C /\ V \cup Mine(k) = V
    BY <1>1
  <2> QED  BY <2>1, <2>2
<1>3. SeenContent' = LRUMap!Without(V)
  <2>1. Visible \in [Paths -> Contents \cup {None}]
    BY SettledSees
  <2>2. \A q \in Paths : Visible[q] = IF q \in V THEN None ELSE k.before[q]
    BY <1>1, VictimsGone
  <2>3. LRUMap!Without(V) = [q \in Paths |-> IF q \in V THEN None ELSE k.before[q]]
    BY DEF LRUMap!Without, Shows
  <2> HIDE DEF V
  <2>4. Visible = LRUMap!Without(V)
    BY <2>1, <2>2, <2>3
  <2> QED  BY <2>4 DEF Shows
<1>4. SeenOlder' = LRUMap!Among(C \ V)
  <2>1. Older = k.older \cap (L \X L)
    BY <1>1, OlderKept
  <2> HIDE DEF V, L, C
  <2> QED  BY <1>2, <2>1, MapVictims DEF Shows
<1> HIDE DEF V, C
<1> QED  BY <1>2, <1>3, <1>4 DEF LRUMap!Evict, C

\* The state in which the refinement is a map of calls.
MapInv == TypeOK /\ InOrder /\ Alone /\ SerialMatch /\ ClockAhead /\ SerialHonest
mapVars == <<SeenContent, SeenOlder, SeenReply>>

\* With one call at work, it is the one Busy names.
LEMMA OnlyOne ==
  ASSUME NEW f, NEW c \in Procs, f[c] # NoCall, \A d \in Procs \ {c} : f[d] = NoCall
  PROVE  (CHOOSE d \in Procs : f[d] # NoCall) = c
OBVIOUS

\* What a client sees of a sound disk, before a step and after it.
LEMMA Seen ==
  ASSUME disk = "sound", disk' = "sound"
  PROVE  /\ Quiet => SeenContent = Visible /\ SeenOlder = Older
         /\ Quiet' => SeenContent' = Visible' /\ SeenOlder' = Older'
         /\ \A c \in Procs : call[c] # NoCall /\ (\A d \in Procs \ {c} : call[d] = NoCall) =>
              ~Quiet /\ SeenContent = call[c].before /\ SeenOlder = call[c].older
         /\ \A c \in Procs : call'[c] # NoCall /\ (\A d \in Procs \ {c} : call'[d] = NoCall) =>
              ~Quiet' /\ SeenContent' = call'[c].before /\ SeenOlder' = call'[c].older
         /\ SeenReply = [c \in Clients |-> reply[c]] /\ SeenReply' = [c \in Clients |-> reply'[c]]
<1>1. /\ Quiet => SeenContent = Visible /\ SeenOlder = Older
      /\ Quiet' => SeenContent' = Visible' /\ SeenOlder' = Older'
      /\ ~Quiet => SeenContent = call[Busy].before /\ SeenOlder = call[Busy].older
      /\ ~Quiet' => SeenContent' = call'[Busy'].before /\ SeenOlder' = call'[Busy'].older
      /\ SeenReply = [c \in Clients |-> reply[c]] /\ SeenReply' = [c \in Clients |-> reply'[c]]
  BY DEF SeenContent, SeenOlder, SeenReply, Sound
<1>2. ASSUME NEW c \in Procs, call[c] # NoCall, \A d \in Procs \ {c} : call[d] = NoCall
      PROVE  ~Quiet /\ Busy = c
  BY <1>2, OnlyOne DEF Quiet, Busy
<1>3. ASSUME NEW c \in Procs, call'[c] # NoCall, \A d \in Procs \ {c} : call'[d] = NoCall
      PROVE  ~Quiet' /\ Busy' = c
  BY <1>3, OnlyOne DEF Quiet, Busy
<1> QED  BY <1>1, <1>2, <1>3

\* A call is one step of the map, when it returns.
LEMMA ReturnMaps ==
  ASSUME MapInv, Serial, disk = "sound", NEW c \in Procs, Return(c)
  PROVE  LRUMap!Next
<1> DEFINE k == call[c]
<1>1. /\ k # NoCall /\ k \in Calls /\ prog[c] = <<>> /\ \A d \in Procs \ {c} : call[d] = NoCall
      /\ call'[c] = NoCall /\ \A d \in Procs \ {c} : call'[d] = call[d]
      /\ UNCHANGED <<disk, file, entry>>
  BY DEF Return, MapInv, TypeOK, Alone
<1>2. /\ Sensible(k) /\ Honest(k, <<>>, entry, file) /\ (k.op = "get" => c \in Clients)
  BY <1>1 DEF MapInv, SerialHonest
<1>3. \A p \in Paths : Agree(entry, file, p)
  <2>1. \A d \in Procs : prog[d] = <<>>
    BY <1>1 DEF MapInv, Alone
  <2> QED  BY <2>1 DEF MapInv, SerialMatch, Awaits
<1>4. Settled(k)
  BY <1>1, <1>2, <1>3 DEF Settled, MapInv
<1>5. Shows(k)
  <2>1. Quiet'
    BY <1>1 DEF Quiet
  <2>2. Visible' = Visible /\ Older' = Older
    BY <1>1 DEF Visible, Older, Readable, Present, Absent
  <2> QED  BY <1>1, <2>1, <2>2, Seen DEF Shows
<1>6. SeenReply = [d \in Clients |-> reply[d]] /\ SeenReply' = [d \in Clients |-> reply'[d]]
  BY <1>1, Seen
<1>7. reply' = [reply EXCEPT ![c] = IF k.op = "get" THEN k.answer ELSE @] /\ reply \in [Procs -> Contents \cup {None}]
  BY DEF Return, MapInv, TypeOK
<1> HIDE DEF k
<1>8. k.op = "get" => SeenReply' = [SeenReply EXCEPT ![c] = k.answer]
  BY <1>2, <1>6, <1>7, ClientIsProc
<1>9. k.op # "get" => UNCHANGED SeenReply
  <2>1. k.op # "get" => reply' = reply
    BY <1>7
  <2> QED  BY <1>6, <2>1
<1>10. CASE k.op \in Puts
  <2>1. k.op # "get" /\ k.path \in Paths /\ k.data \in Data
    BY <1>2, <1>10 DEF Puts, Sensible
  <2>2. LRUMap!Put(k.path, k.data)
    BY <1>4, <1>5, <1>9, <1>10, <2>1, PutMaps
  <2> QED  BY <2>1, <2>2 DEF LRUMap!Next
<1>11. CASE k.op = "get"
  <2>1. k.path \in Paths /\ c \in Clients
    BY <1>2, <1>11 DEF Sensible
  <2>2. LRUMap!Get(c, k.path)
    BY <1>4, <1>5, <1>8, <1>11, GetMaps
  <2> QED  BY <2>1, <2>2 DEF LRUMap!Next
<1>12. CASE k.op = "remove"
  <2>1. k.path \in Paths
    BY <1>2, <1>12 DEF Sensible
  <2>2. LRUMap!Forget(k.path)
    BY <1>4, <1>5, <1>9, <1>12, ForgetMaps
  <2> QED  BY <2>1, <2>2 DEF LRUMap!Next
<1>13. CASE k.op \notin Puts \cup {"get", "remove"}
  BY <1>4, <1>5, <1>9, <1>13, EvictMaps DEF LRUMap!Next
<1> QED  BY <1>10, <1>11, <1>12, <1>13

\* Until it returns, the map has not moved.
LEMMA StepStutters ==
  ASSUME MapInv, Serial, disk = "sound", NEW c \in Procs, ProcStep(c)
  PROVE  UNCHANGED mapVars
<1>1. /\ call[c] # NoCall /\ call'[c] # NoCall /\ \A d \in Procs \ {c} : call'[d] = NoCall
  BY HonestAlone DEF MapInv
<1>2. call[c] \in Calls /\ \A d \in Procs \ {c} : call[d] = NoCall
  BY <1>1 DEF MapInv, TypeOK, Alone
<1>3. call'[c].before = call[c].before /\ call'[c].older = call[c].older
  BY <1>2, CallKept DEF MapInv
<1>4. UNCHANGED <<disk, reply>>
  <2>1. FileStep(c) => UNCHANGED <<disk, reply>>
    BY DEF FileStep, Open, Fill, FillFails, Read, Evict
  <2>2. Credit(c) \/ SetEntry(c) \/ Find(c) \/ Debit(c) \/ Drop(c) => UNCHANGED <<disk, reply>>
    BY DEF Credit, SetEntry, Find, Debit, Drop
  <2>3. Check(c) \/ Hit(c) \/ Expire(c) \/ Locate(c) => UNCHANGED <<disk, reply>>
    BY DEF Check, Hit, Expire, Locate
  <2>4. SizeStep(c) => UNCHANGED <<disk, reply>>
    BY DEF SizeStep, Room, Overfull, List, Persist
  <2> QED  BY <2>1, <2>2, <2>3, <2>4 DEF ProcStep, EntryStep
<1>5. disk' = "sound" /\ reply' = reply
  BY <1>4
<1>6. SeenReply' = SeenReply
  BY <1>5, Seen
<1>7. SeenContent' = SeenContent /\ SeenOlder' = SeenOlder
  BY <1>1, <1>2, <1>3, <1>5, Seen
<1> QED  BY <1>6, <1>7 DEF mapVars

\* A call records what the map shows when it starts.
LEMMA StartStutters ==
  ASSUME MapInv, Serial, disk = "sound", NEW c \in Procs, NEW k, NEW s, Starts(c, k, s)
  PROVE  UNCHANGED mapVars
<1>1. /\ Quiet /\ call' = [call EXCEPT ![c] = k] /\ UNCHANGED <<disk, reply>>
      /\ k \in Calls /\ k.before = Visible /\ k.older = Older
  BY DEF Starts, Starting
<1>2. call'[c] = k /\ \A d \in Procs \ {c} : call'[d] = NoCall
  BY <1>1 DEF MapInv, TypeOK, Quiet
<1>3. k # NoCall
  BY <1>1 DEF Calls, NoCall, AllOps
<1>4. disk' = "sound" /\ reply' = reply
  BY <1>1
<1>5. SeenReply' = SeenReply
  BY <1>4, Seen
<1>6. SeenContent' = SeenContent /\ SeenOlder' = SeenOlder
  BY <1>1, <1>2, <1>3, <1>4, Seen
<1> QED  BY <1>5, <1>6 DEF mapVars

\* Every step of the system is a step of the map, or none.
LEMMA MapNext ==
  ASSUME MapInv, Serial, ~Crash, [Next]_vars
  PROVE  [LRUMap!Next]_mapVars
<1>1. TypeOK /\ UNCHANGED disk
  BY Touches DEF MapInv
<1>2. CASE disk # "sound"
  BY <1>1, <1>2 DEF mapVars, SeenContent, SeenOlder, SeenReply, Sound
<1>3. CASE disk = "sound"
  <2>1. ASSUME UNCHANGED <<disk, file, entry, call, reply>> PROVE UNCHANGED mapVars
    <3>1. Quiet' = Quiet /\ Busy' = Busy
      BY <2>1 DEF Quiet, Busy
    <3>2. Visible' = Visible /\ Older' = Older
      BY <2>1 DEF Visible, Older, Readable, Present, Absent
    <3> QED  BY <2>1, <3>1, <3>2 DEF mapVars, SeenContent, SeenOlder, SeenReply, Sound
  <2>2. Restart \/ UNCHANGED vars => UNCHANGED <<disk, file, entry, call, reply>>
    BY DEF Restart, vars
  <2>3. ASSUME NEW c \in Procs, Return(c) PROVE LRUMap!Next
    BY <1>3, <2>3, ReturnMaps
  <2>4. ASSUME NEW c \in Procs, ProcStep(c) PROVE UNCHANGED mapVars
    BY <1>3, <2>4, StepStutters
  <2>5. ASSUME NEW c \in Procs, NEW k, NEW s, Starts(c, k, s) PROVE UNCHANGED mapVars
    BY <1>3, <2>5, StartStutters
  <2> QED  BY <1>1, <2>1, <2>2, <2>3, <2>4, <2>5, StartCases
<1> QED  BY <1>2, <1>3

\* An empty cache is an empty map.
LEMMA MapInit == Init => LRUMap!Init
<1> SUFFICES ASSUME Init PROVE LRUMap!Init
  OBVIOUS
<1>1. Quiet /\ Visible = [p \in Paths |-> None]
  BY DEF Init, Quiet, Visible
<1>2. Older = {}
  BY DEF Init, Older, Readable, Present
<1>3. SeenContent = [p \in Paths |-> None] /\ SeenOlder = {}
  BY <1>1, <1>2 DEF SeenContent, SeenOlder, Sound
<1>4. SeenReply = [c \in Clients |-> None]
  BY ClientIsProc DEF Init, SeenReply, Sound
<1> QED  BY <1>3, <1>4 DEF LRUMap!Init

\* The invariant of calls that take turns, as long as the process lives.
LEMMA MapInvAlways ==
  ASSUME Serial, MaxCrashes = 0
  PROVE  Spec => []MapInv
<1> DEFINE I == Alone /\ SerialMatch /\ ClockAhead /\ SerialHonest
<1>1. Init => I
  BY DEF Init, Alone, SerialMatch, HeadFits, Gone, Agree, ClockAhead, Present, SerialHonest
<1>2. TypeOK /\ InOrder /\ TypeOK' /\ InOrder' /\ [Next]_vars /\ I => I'
  <2> SUFFICES ASSUME TypeOK, InOrder, TypeOK', InOrder', [Next]_vars, I PROVE I'
    OBVIOUS
  <2>1. ~Crash
    BY DEF Crash, TypeOK
  <2> QED  BY <2>1, AloneStep, SerialMatchStep, ClockAheadStep, SerialHonestStep
<1>3. TypeOK /\ InOrder /\ I => MapInv
  BY DEF MapInv
<1> HIDE DEF I
<1> QED  BY <1>1, <1>2, <1>3, Structure, PTL DEF Spec

\* On a sound disk, for one user at a time and until the process dies, the cache
\* is a least-recently-used map: a Put makes its path readable with what was put
\* and deletes others from the least recently used on, a Get answers with what
\* was put last, and a deletion takes nothing but what it was asked for, or the
\* least recently used.
THEOREM CacheIsLRUMap ==
  ASSUME Serial, MaxCrashes = 0
  PROVE  Spec => ImplementsLRUMap
<1>1. MapInv /\ [Next]_vars => [LRUMap!Next]_(LRUMap!vars)
  <2> SUFFICES ASSUME MapInv, [Next]_vars PROVE [LRUMap!Next]_mapVars
    BY DEF LRUMap!vars, mapVars
  <2>1. ~Crash
    BY DEF Crash, MapInv, TypeOK
  <2> QED  BY <2>1, MapNext
<1> QED  BY <1>1, MapInit, MapInvAlways, PTL DEF Spec, ImplementsLRUMap, LRUMap!Spec

=============================================================================
