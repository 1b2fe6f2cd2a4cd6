---------------------------- MODULE WorklistsProof ----------------------------
(***************************************************************************)
(* The loops work off lists that are out of date by the time they get to   *)
(* an entry.  That each POST is still for an open row, and that no two     *)
(* ticks POST one row, holds for any number of items, keys, ticks, sweeps  *)
(* and restarts because of the lock: OpenWhenSent needs to know that a     *)
(* worker in line is in line, and that one that POSTs stands first.        *)
(***************************************************************************)
EXTENDS Worklists, FiniteSetTheorems, SequenceTheorems, TLAPS

\* A key whose lock a hung POST keeps; nobody gets it any more.
Lost(k) == hung[k] # Nothing

KeyAt(w) == on[Entry(w)]

Types ==
  /\ on \in [Items -> Keys]
  /\ state \in [Items -> {"undecided", "syncing", "closed"}]
  /\ rows \in Seq(Items)
  /\ expired \subseteq Items
  /\ IsFiniteSet(expired)
  /\ todo \in [Workers -> Seq(Items)]
  /\ at \in [Workers -> {"idle", "next", "queued", "posting"}]
  /\ DOMAIN line = Keys
  /\ hung \in [Keys -> Items \cup {Nothing}]

InLine(w) ==
  at[w] \in {"queued", "posting"} =>
    /\ todo[w] # <<>>
    /\ ~Lost(KeyAt(w)) => \E n \in DOMAIN line[KeyAt(w)] : line[KeyAt(w)][n] = w

Posts(w) ==
  at[w] = "posting" =>
    /\ ~Lost(KeyAt(w))
    /\ Head(line[KeyAt(w)]) = w
    /\ state[Entry(w)] = "syncing"

Inv ==
  /\ Types
  /\ \A k \in Keys : ~Lost(k) => line[k] \in Seq(Workers)
  /\ \A w \in Workers : InLine(w) /\ Posts(w)
-----------------------------------------------------------------------------
LEMMA EntryTypes ==
  ASSUME Inv, NEW w \in Workers, todo[w] # <<>>
  PROVE  Entry(w) \in Items /\ KeyAt(w) \in Keys /\ Tail(todo[w]) \in Seq(Items)
<1>1. todo[w] \in Seq(Items)
  BY DEF Inv, Types
<1>2. Head(todo[w]) \in Items /\ Tail(todo[w]) \in Seq(Items)
  BY <1>1, HeadTailProperties
<1> QED
  BY <1>2 DEF Inv, Types, Entry, KeyAt

\* SetToSeqs lists a finite set.
LEMMA ListTypes ==
  ASSUME NEW S, IsFiniteSet(S), NEW list \in SetToSeqs(S)
  PROVE  list \in Seq(S)
<1>1. Cardinality(S) \in Nat
  BY FS_CardinalityType
<1>2. list \in [1 .. Cardinality(S) -> S]
  BY DEF SetToSeqs
<1> QED
  BY <1>1, <1>2

LEMMA OpenRowsFinite ==
  ASSUME Types
  PROVE  IsFiniteSet(OpenRows) /\ OpenRows \subseteq Items
<1>1. rows \in [1 .. Len(rows) -> Items] /\ Len(rows) \in Nat
  BY DEF Types
<1>2. rows \in Surjection(1 .. Len(rows), Range(rows))
  BY <1>1 DEF Surjection, Range
<1>3. IsFiniteSet(Range(rows))
  BY <1>1, <1>2, FS_Interval, FS_Surjection
<1>4. OpenRows \in SUBSET Range(rows)
  BY DEF OpenRows
<1> QED
  BY <1>1, <1>3, <1>4, FS_Subset DEF Range

\* Who does not stand first moves up by one.
LEMMA TailIndex ==
  ASSUME NEW S, NEW s \in Seq(S), s # <<>>, NEW v, v # Head(s),
         NEW n \in DOMAIN s, s[n] = v
  PROVE  n - 1 \in DOMAIN Tail(s) /\ Tail(s)[n - 1] = v
<1>1. n # 1 /\ n \in 1 .. Len(s)
  OBVIOUS
<1>2. n - 1 \in DOMAIN Tail(s) /\ Tail(s)[n - 1] = s[n]
  BY <1>1
<1> QED
  BY <1>2

LEMMA SubList ==
  ASSUME NEW S, NEW T, S \subseteq T, NEW s \in Seq(S)
  PROVE  s \in Seq(T)
BY SeqMonotonic
-----------------------------------------------------------------------------
(* Steps of a worker that leave the lines alone *)

\* One worker moves outside the lock.
LEMMA OutsideKeeps ==
  ASSUME Inv, NEW w \in Workers, NEW list \in Seq(Items), NEW p \in {"idle", "next"},
         todo' = [todo EXCEPT ![w] = list], at' = [at EXCEPT ![w] = p],
         UNCHANGED <<itemVars, line, hung>>
  PROVE  Inv'
<1>1. Types'
  BY DEF Inv, Types, itemVars
<1>2. /\ at'[w] = p
      /\ \A v \in Workers \ {w} : at'[v] = at[v] /\ todo'[v] = todo[v]
  BY DEF Inv, Types
<1>3. \A v \in Workers : InLine(v)' /\ Posts(v)'
  BY <1>2 DEF Inv, InLine, Posts, Lost, KeyAt, Entry, itemVars
<1> QED
  BY <1>1, <1>3 DEF Inv, Lost

LEMMA BeginsKeeps ==
  ASSUME Inv, NEW w \in Workers, TickBegins(w) \/ SweepBegins(w)
  PROVE  Inv'
<1>1. UNCHANGED <<itemVars, line, hung>>
  BY DEF TickBegins, SweepBegins
<1>2. \E list \in Seq(Items) : Enlist(w, list)
  <2>1. CASE TickBegins(w)
    <3>1. PICK list \in SetToSeqs(OpenRows) : Enlist(w, list)
      BY <2>1 DEF TickBegins
    <3>2. list \in Seq(Items)
      BY OpenRowsFinite, ListTypes, SubList DEF Inv
    <3> QED
      BY <3>1, <3>2
  <2>2. CASE SweepBegins(w)
    <3> DEFINE S == {i \in expired : Open(i)}
    <3>1. PICK list \in SetToSeqs(S) : Enlist(w, list)
      BY <2>2 DEF SweepBegins
    <3>2. IsFiniteSet(S) /\ S \subseteq Items
      BY FS_Subset DEF Inv, Types
    <3>3. list \in Seq(S)
      BY <3>2, ListTypes
    <3> QED
      BY <3>1, <3>2, <3>3, SubList
  <2> QED
    BY <2>1, <2>2
<1> QED
  BY <1>1, <1>2, OutsideKeeps DEF Enlist

\* The entry is skipped, or the list is done.
LEMMA SkipKeeps ==
  ASSUME Inv, NEW w \in Workers, at[w] = "next",
         \/ /\ todo[w] # <<>>
            /\ todo' = [todo EXCEPT ![w] = Tail(@)] /\ UNCHANGED at
         \/ at' = [at EXCEPT ![w] = "idle"] /\ UNCHANGED todo,
         UNCHANGED <<itemVars, line, hung>>
  PROVE  Inv'
<1>1. at = [at EXCEPT ![w] = "next"] /\ todo = [todo EXCEPT ![w] = todo[w]]
  BY DEF Inv, Types
<1>2. todo[w] \in Seq(Items)
  BY DEF Inv, Types
<1>3. CASE todo[w] # <<>> /\ todo' = [todo EXCEPT ![w] = Tail(@)] /\ UNCHANGED at
  <2>1. Tail(todo[w]) \in Seq(Items)
    BY <1>3, EntryTypes
  <2> QED
    BY <1>1, <1>3, <2>1, OutsideKeeps
<1>4. CASE at' = [at EXCEPT ![w] = "idle"] /\ UNCHANGED todo
  BY <1>1, <1>2, <1>4, OutsideKeeps
<1> QED
  BY <1>3, <1>4
-----------------------------------------------------------------------------
(* Steps in line *)

LEMMA QueueKeeps ==
  ASSUME Inv, NEW w \in Workers, at[w] = "next", todo[w] # <<>>, Queue(w),
         UNCHANGED itemVars
  PROVE  Inv'
<1> DEFINE k == KeyAt(w)
<1>1. k \in Keys
  BY EntryTypes
<1>2. /\ at' = [at EXCEPT ![w] = "queued"]
      /\ line' = [line EXCEPT ![k] = Append(line[k], w)]
      /\ UNCHANGED <<todo, hung, itemVars>>
  BY DEF Queue, KeyAt
<1> HIDE DEF k
<1>3. Types'
  BY <1>2 DEF Inv, Types, itemVars
<1>4. /\ at'[w] = "queued"
      /\ \A v \in Workers \ {w} : at'[v] = at[v]
      /\ line'[k] = Append(line[k], w)
      /\ \A j \in Keys \ {k} : line'[j] = line[j]
      /\ \A v : Entry(v)' = Entry(v) /\ KeyAt(v)' = KeyAt(v)
      /\ \A j : Lost(j)' = Lost(j)
  BY <1>1, <1>2 DEF Inv, Types, Entry, KeyAt, Lost, itemVars
<1>5. ASSUME ~Lost(k)
      PROVE  /\ line'[k] \in Seq(Workers)
             /\ \E n \in DOMAIN line'[k] : line'[k][n] = w
             /\ \A n \in DOMAIN line[k] : n \in DOMAIN line'[k] /\ line'[k][n] = line[k][n]
             /\ \A v : (\E n \in DOMAIN line[k] : line[k][n] = v) /\ Head(line[k]) = v
                         => Head(line'[k]) = v
  <2>1. line[k] \in Seq(Workers)
    BY <1>1, <1>5 DEF Inv
  <2>2. /\ line'[k] \in Seq(Workers)
        /\ Len(line'[k]) = Len(line[k]) + 1
        /\ \A n \in 1 .. Len(line[k]) : line'[k][n] = line[k][n]
        /\ line'[k][Len(line[k]) + 1] = w
    BY <1>4, <2>1, AppendProperties
  <2>3. Len(line[k]) \in Nat /\ DOMAIN line[k] = 1 .. Len(line[k])
        /\ DOMAIN line'[k] = 1 .. Len(line'[k])
    BY <2>1, <2>2
  <2>4. \A n \in DOMAIN line[k] : 1 \in DOMAIN line[k]
    BY <2>3
  <2>5. \A n \in DOMAIN line[k] : Head(line'[k]) = Head(line[k])
    BY <2>1, <2>2, <2>3, <2>4
  <2> QED
    BY <2>2, <2>3, <2>5
<1>6. \A v \in Workers : InLine(v)'
  <2> SUFFICES ASSUME NEW v \in Workers, at'[v] \in {"queued", "posting"}
               PROVE  /\ todo'[v] # <<>>
                      /\ ~Lost(KeyAt(v))' =>
                           \E n \in DOMAIN line'[KeyAt(v)] : line'[KeyAt(v)][n] = v
    BY <1>4 DEF InLine
  <2>1. CASE v = w
    BY <1>2, <1>4, <1>5, <2>1 DEF k
  <2>2. CASE v # w
    <3>1. InLine(v) /\ at[v] \in {"queued", "posting"}
      BY <1>4, <2>2 DEF Inv
    <3>2. todo[v] # <<>>
      BY <3>1 DEF InLine
    <3>3. KeyAt(v) \in Keys
      BY <3>2, EntryTypes
    <3> QED
      BY <1>2, <1>4, <1>5, <3>1, <3>2, <3>3 DEF InLine
  <2> QED
    BY <2>1, <2>2
<1>7. \A v \in Workers : Posts(v)'
  <2> SUFFICES ASSUME NEW v \in Workers, at'[v] = "posting"
               PROVE  /\ ~Lost(KeyAt(v))
                      /\ Head(line'[KeyAt(v)]) = v
                      /\ state[Entry(v)] = "syncing"
    BY <1>2, <1>4 DEF Posts, itemVars
  <2>1. at[v] = "posting" /\ InLine(v) /\ Posts(v)
    BY <1>4 DEF Inv
  <2>2. /\ todo[v] # <<>>
        /\ ~Lost(KeyAt(v))
        /\ \E n \in DOMAIN line[KeyAt(v)] : line[KeyAt(v)][n] = v
        /\ Head(line[KeyAt(v)]) = v
        /\ state[Entry(v)] = "syncing"
    BY <2>1 DEF InLine, Posts
  <2>3. KeyAt(v) \in Keys
    BY <2>2, EntryTypes
  <2> QED
    BY <1>4, <1>5, <2>2, <2>3
<1>8. \A j \in Keys : ~Lost(j)' => line'[j] \in Seq(Workers)
  BY <1>4, <1>5 DEF Inv
<1> QED
  BY <1>3, <1>6, <1>7, <1>8 DEF Inv

\* Who holds a lock stands first in its line, and is the only one to POST.
LEMMA FirstInLine ==
  ASSUME Inv, NEW w \in Workers, Holds(w) \/ at[w] = "posting"
  PROVE  /\ todo[w] # <<>> /\ Entry(w) \in Items /\ KeyAt(w) \in Keys /\ ~Lost(KeyAt(w))
         /\ line[KeyAt(w)] \in Seq(Workers) /\ line[KeyAt(w)] # <<>>
         /\ Head(line[KeyAt(w)]) = w
         /\ \A v \in Workers : at[v] = "posting" /\ KeyAt(v) = KeyAt(w) => v = w
<1>1. at[w] \in {"queued", "posting"} /\ ~Lost(KeyAt(w)) /\ Head(line[KeyAt(w)]) = w
  BY DEF Holds, Inv, Posts, Lost, KeyAt
<1>2. todo[w] # <<>> /\ \E n \in DOMAIN line[KeyAt(w)] : line[KeyAt(w)][n] = w
  BY <1>1 DEF Inv, InLine
<1>3. Entry(w) \in Items /\ KeyAt(w) \in Keys
  BY <1>2, EntryTypes
<1>4. line[KeyAt(w)] \in Seq(Workers) /\ line[KeyAt(w)] # <<>>
  BY <1>1, <1>2, <1>3 DEF Inv
<1>5. \A v \in Workers : at[v] = "posting" /\ KeyAt(v) = KeyAt(w) => v = w
  BY <1>1 DEF Inv, Posts
<1> QED
  BY <1>1, <1>2, <1>3, <1>4, <1>5

\* The first in line leaves, after closing its entry or not; the POST it waits
\* for may keep the lock in its stead.
LEMMA LeaveKeeps ==
  ASSUME Inv, NEW w \in Workers, Holds(w) \/ at[w] = "posting",
         NEW list \in Seq(Items), NEW p \in {"idle", "next"},
         todo' = [todo EXCEPT ![w] = list], at' = [at EXCEPT ![w] = p],
         line' = [line EXCEPT ![KeyAt(w)] = Tail(@)],
         UNCHANGED hung \/ hung' = [hung EXCEPT ![KeyAt(w)] = Entry(w)],
         UNCHANGED state \/ Close(Entry(w)),
         UNCHANGED <<on, rows, expired>>
  PROVE  Inv'
<1> DEFINE k == KeyAt(w)
<1>1. /\ Entry(w) \in Items /\ k \in Keys /\ ~Lost(k)
      /\ line[k] \in Seq(Workers) /\ line[k] # <<>> /\ Head(line[k]) = w
      /\ \A v \in Workers : at[v] = "posting" /\ KeyAt(v) = k => v = w
  BY FirstInLine
<1>2. Types'
  <2>1. state' \in [Items -> {"undecided", "syncing", "closed"}]
    BY <1>1 DEF Inv, Types, Close
  <2>2. hung' \in [Keys -> Items \cup {Nothing}]
    BY <1>1 DEF Inv, Types
  <2>3. at' \in [Workers -> {"idle", "next", "queued", "posting"}]
    BY DEF Inv, Types
  <2> QED
    BY <2>1, <2>2, <2>3 DEF Inv, Types
<1>3. /\ at'[w] = p
      /\ \A v \in Workers \ {w} : at'[v] = at[v] /\ todo'[v] = todo[v]
      /\ line'[k] = Tail(line[k])
      /\ \A j \in Keys \ {k} : line'[j] = line[j] /\ hung'[j] = hung[j]
      /\ \A i \in Items \ {Entry(w)} : state'[i] = state[i]
  BY <1>1 DEF Inv, Types, Close
<1> HIDE DEF k
<1>4. /\ line'[k] \in Seq(Workers)
      /\ \A v : v # w /\ (\E n \in DOMAIN line[k] : line[k][n] = v)
                  => \E n \in DOMAIN line'[k] : line'[k][n] = v
  <2>1. line'[k] \in Seq(Workers)
    BY <1>1, <1>3
  <2>2. ASSUME NEW v, v # w, NEW n \in DOMAIN line[k], line[k][n] = v
        PROVE  n - 1 \in DOMAIN line'[k] /\ line'[k][n - 1] = v
    <3>1. v # Head(line[k]) /\ line[k] # <<>> /\ line[k] \in Seq(Workers)
      BY <1>1, <2>2
    <3>2. n - 1 \in DOMAIN Tail(line[k]) /\ Tail(line[k])[n - 1] = v
      BY <2>2, <3>1, TailIndex
    <3> QED
      BY <1>3, <3>2
  <2> QED
    BY <2>1, <2>2
<1>5. ASSUME NEW v \in Workers \ {w}, at[v] \in {"queued", "posting"}
      PROVE  InLine(v)' /\ Posts(v)'
  <2>1. /\ InLine(v) /\ Posts(v)
        /\ todo[v] # <<>> /\ Entry(v) \in Items /\ KeyAt(v) \in Keys
    BY <1>5, EntryTypes DEF Inv, InLine
  <2>2. at'[v] = at[v] /\ todo'[v] = todo[v] /\ Entry(v)' = Entry(v) /\ KeyAt(v)' = KeyAt(v)
    BY <1>3, <1>5 DEF Entry, KeyAt
  <2>3. hung[KeyAt(v)] # Nothing => hung'[KeyAt(v)] # Nothing
    BY <1>1, <1>3, <2>1 DEF Lost
  <2>4. InLine(v)'
    <3>1. hung'[KeyAt(v)] = Nothing => \E n \in DOMAIN line[KeyAt(v)] : line[KeyAt(v)][n] = v
      BY <1>5, <2>1, <2>3 DEF InLine, Lost
    <3>2. hung'[KeyAt(v)] = Nothing => \E n \in DOMAIN line'[KeyAt(v)] : line'[KeyAt(v)][n] = v
      <4>1. CASE KeyAt(v) = k
        BY <1>4, <1>5, <3>1, <4>1
      <4>2. CASE KeyAt(v) # k
        BY <1>3, <2>1, <3>1, <4>2
      <4> QED
        BY <4>1, <4>2
    <3> QED
      BY <2>1, <2>2, <3>2 DEF InLine, Lost
  <2>5. ASSUME at[v] = "posting"
        PROVE  Posts(v)'
    <3>1. KeyAt(v) # k
      BY <1>1, <1>5, <2>5
    <3>2. Entry(v) # Entry(w)
      BY <3>1 DEF k, KeyAt
    <3>3. ~Lost(KeyAt(v)) /\ Head(line[KeyAt(v)]) = v /\ state[Entry(v)] = "syncing"
      BY <2>1, <2>5 DEF Posts
    <3>4. /\ line'[KeyAt(v)] = line[KeyAt(v)] /\ hung'[KeyAt(v)] = hung[KeyAt(v)]
          /\ state'[Entry(v)] = state[Entry(v)]
      BY <1>3, <2>1, <3>1, <3>2
    <3> QED
      BY <2>2, <3>3, <3>4 DEF Posts, Lost
  <2> QED
    BY <2>2, <2>4, <2>5 DEF Posts
<1>6. \A v \in Workers : InLine(v)' /\ Posts(v)'
  <2>1. ASSUME NEW v \in Workers, ~(v # w /\ at[v] \in {"queued", "posting"})
        PROVE  InLine(v)' /\ Posts(v)'
    BY <1>3, <2>1 DEF InLine, Posts
  <2> QED
    BY <1>5, <2>1
<1>7. \A j \in Keys : ~Lost(j)' => line'[j] \in Seq(Workers)
  BY <1>3, <1>4 DEF Inv, Lost
<1> QED
  BY <1>2, <1>6, <1>7 DEF Inv

\* A worker goes on after its entry.
LEMMA GoOnKeeps ==
  ASSUME Inv, NEW w \in Workers, Holds(w) \/ at[w] = "posting", GoOn(w),
         UNCHANGED state \/ Close(Entry(w)), UNCHANGED <<on, rows, expired>>
  PROVE  Inv'
<1>1. Tail(todo[w]) \in Seq(Items)
  BY FirstInLine, EntryTypes
<1> QED
  BY <1>1, LeaveKeeps DEF GoOn, KeyAt

LEMMA PostsKeeps ==
  ASSUME Inv, NEW w \in Workers, TickPosts(w)
  PROVE  Inv'
<1>1. Holds(w) /\ UNCHANGED <<on, state, rows, expired>>
  BY DEF TickPosts
<1>2. CASE state[Entry(w)] = "syncing"
  <2>1. at' = [at EXCEPT ![w] = "posting"] /\ UNCHANGED <<todo, line, hung>>
    BY <1>2 DEF TickPosts
  <2>2. Types'
    BY <1>1, <2>1 DEF Inv, Types
  <2>3. at'[w] = "posting" /\ at[w] = "queued" /\ \A v \in Workers \ {w} : at'[v] = at[v]
    BY <1>1, <2>1 DEF Inv, Types, Holds
  <2>4. \A v : /\ Entry(v)' = Entry(v) /\ KeyAt(v)' = KeyAt(v)
               /\ Lost(KeyAt(v))' = Lost(KeyAt(v))
    BY <1>1, <2>1 DEF Entry, KeyAt, Lost
  <2>5. ~Lost(KeyAt(w)) /\ Head(line[KeyAt(w)]) = w
    BY <1>1, FirstInLine
  <2>6. \A v \in Workers : InLine(v)' /\ Posts(v)'
    BY <1>1, <1>2, <2>1, <2>3, <2>4, <2>5 DEF Inv, InLine, Posts
  <2> QED
    BY <2>1, <2>2, <2>6 DEF Inv, Lost
<1>3. CASE state[Entry(w)] # "syncing"
  BY <1>1, <1>3, GoOnKeeps DEF TickPosts
<1> QED
  BY <1>2, <1>3

\* The rest of the list is left undone.
LEMMA AbandonKeeps ==
  ASSUME Inv, NEW w \in Workers, TickThrows(w) \/ TickHangs(w)
  PROVE  Inv'
<1>1. <<>> \in Seq(Items)
  OBVIOUS
<1> QED
  BY <1>1, LeaveKeeps DEF TickThrows, TickHangs, KeyAt, itemVars

\* Leaving the line of a lost lock touches nobody who could still get one.
LEMMA StuckKeeps ==
  ASSUME Inv, NEW w \in Workers, Stuck(w)
  PROVE  Inv'
<1>1. /\ at[w] = "queued" /\ Lost(KeyAt(w))
      /\ todo' = [todo EXCEPT ![w] = <<>>] /\ at' = [at EXCEPT ![w] = "idle"]
      /\ line' = [line EXCEPT ![KeyAt(w)] = Remove(@, w)]
      /\ UNCHANGED <<itemVars, hung>>
  BY DEF Stuck, Lost, KeyAt
<1>2. Types'
  BY <1>1 DEF Inv, Types, itemVars
<1>3. /\ at'[w] = "idle"
      /\ \A v \in Workers \ {w} : at'[v] = at[v] /\ todo'[v] = todo[v]
      /\ \A j \in Keys : ~Lost(j) => line'[j] = line[j]
      /\ \A j : Lost(j)' = Lost(j)
  BY <1>1 DEF Inv, Types, Lost
<1>4. ASSUME NEW v \in Workers \ {w}, at[v] \in {"queued", "posting"}
      PROVE  InLine(v)' /\ Posts(v)'
  <2>1. /\ InLine(v) /\ Posts(v)
        /\ todo[v] # <<>> /\ KeyAt(v) \in Keys
    BY <1>4, EntryTypes DEF Inv, InLine
  <2>2. /\ at'[v] = at[v] /\ todo'[v] = todo[v] /\ Entry(v)' = Entry(v)
        /\ KeyAt(v)' = KeyAt(v) /\ UNCHANGED state
        /\ Lost(KeyAt(v))' <=> Lost(KeyAt(v))
        /\ ~Lost(KeyAt(v)) => line'[KeyAt(v)] = line[KeyAt(v)]
    BY <1>1, <1>3, <1>4, <2>1 DEF Entry, KeyAt, Lost, itemVars
  <2> QED
    BY <2>1, <2>2 DEF InLine, Posts
<1>5. \A v \in Workers : InLine(v)' /\ Posts(v)'
  <2>1. ASSUME NEW v \in Workers, ~(v # w /\ at[v] \in {"queued", "posting"})
        PROVE  InLine(v)' /\ Posts(v)'
    BY <1>3, <2>1 DEF InLine, Posts
  <2> QED
    BY <1>4, <2>1
<1> QED
  BY <1>2, <1>3, <1>5 DEF Inv
-----------------------------------------------------------------------------
(* Steps of requests, and restarts *)

\* Approve needs the lock of the item's key, so nobody is POSTing for it; what
\* counts is that it does not touch a row that is being sent.
LEMMA ItemKeeps ==
  ASSUME Inv, NEW i \in Items, Approve(i) \/ TtlPasses(i)
  PROVE  Inv'
<1>1. UNCHANGED <<on, workerVars>>
  BY DEF Approve, TtlPasses
<1>2. /\ state' \in [Items -> {"undecided", "syncing", "closed"}]
      /\ \A j \in Items : state[j] = "syncing" => state'[j] = "syncing"
      /\ rows' \in Seq(Items)
  <2>1. /\ state' \in [Items -> {"undecided", "syncing", "closed"}]
        /\ \A j \in Items : state[j] = "syncing" => state'[j] = "syncing"
    BY DEF Approve, TtlPasses, Inv, Types
  <2>2. rows' = rows \/ rows' = Append(rows, i)
    BY DEF Approve, TtlPasses
  <2>3. rows \in Seq(Items)
    BY DEF Inv, Types
  <2>4. rows' \in Seq(Items)
    BY <2>2, <2>3, AppendProperties
  <2> QED
    BY <2>1, <2>4
<1>3. expired' \subseteq Items /\ IsFiniteSet(expired')
  BY FS_AddElement DEF Approve, TtlPasses, Inv, Types
<1>4. Types'
  BY <1>1, <1>2, <1>3 DEF Inv, Types, workerVars
<1>5. \A w \in Workers : InLine(w)' /\ Posts(w)'
  <2> SUFFICES ASSUME NEW w \in Workers PROVE InLine(w)' /\ Posts(w)'
    OBVIOUS
  <2>1. InLine(w)'
    BY <1>1 DEF Inv, InLine, Lost, KeyAt, Entry, workerVars
  <2>2. at[w] = "posting" => Entry(w) \in Items
    BY FirstInLine
  <2>3. Posts(w)'
    BY <1>1, <1>2, <2>2 DEF Inv, Posts, Lost, KeyAt, Entry, workerVars
  <2> QED
    BY <2>1, <2>3
<1> QED
  BY <1>1, <1>4, <1>5 DEF Inv, Lost, workerVars

LEMMA RestartKeeps ==
  ASSUME Inv, Restart
  PROVE  Inv'
<1>1. <<>> \in Seq(Items) /\ <<>> \in Seq(Workers)
  OBVIOUS
<1>2. Types'
  BY <1>1 DEF Inv, Types, Restart, itemVars
<1>3. \A w \in Workers : at'[w] = "idle"
  BY DEF Restart
<1> QED
  BY <1>1, <1>2, <1>3 DEF Inv, InLine, Posts, Restart

LEMMA InvInit == Init => Inv
<1> SUFFICES ASSUME Init PROVE Inv
  OBVIOUS
<1>1. <<>> \in Seq(Items) /\ <<>> \in Seq(Workers) /\ IsFiniteSet({})
  BY FS_EmptySet
<1>2. Types
  BY <1>1 DEF Init, Types
<1> QED
  BY <1>1, <1>2 DEF Init, Inv, InLine, Posts

LEMMA InvStep ==
  ASSUME Inv, [Next]_vars
  PROVE  Inv'
<1>1. CASE \E i \in Items : Approve(i) \/ TtlPasses(i)
  BY <1>1, ItemKeeps
<1>2. ASSUME NEW w \in Workers, TickBegins(w) \/ SweepBegins(w)
      PROVE  Inv'
  BY <1>2, BeginsKeeps
<1>3. ASSUME NEW w \in Workers, TickNext(w) \/ SweepNext(w) \/ Ends(w)
      PROVE  Inv'
  BY <1>3, SkipKeeps, QueueKeeps DEF TickNext, SweepNext, Ends
<1>4. ASSUME NEW w \in Workers, TickPosts(w)
      PROVE  Inv'
  BY <1>4, PostsKeeps
<1>5. ASSUME NEW w \in Workers, TickRecords(w) \/ SweepExpires(w)
      PROVE  Inv'
  BY <1>5, GoOnKeeps DEF TickRecords, SweepExpires
<1>6. ASSUME NEW w \in Workers, TickThrows(w) \/ TickHangs(w)
      PROVE  Inv'
  BY <1>6, AbandonKeeps
<1>7. ASSUME NEW w \in Workers, Stuck(w)
      PROVE  Inv'
  BY <1>7, StuckKeeps
<1>8. CASE UNCHANGED vars
  BY <1>8 DEF Inv, Types, InLine, Posts, Lost, KeyAt, Entry, vars, itemVars, workerVars
<1>9. Ticks \subseteq Workers /\ Sweeps \subseteq Workers
  BY DEF Workers
<1> QED
  BY <1>1, <1>2, <1>3, <1>4, <1>5, <1>6, <1>7, <1>8, <1>9, RestartKeeps
  DEF Next, TickStep, SweepStep

LEMMA InvAlways == Spec => []Inv
<1> QED
  BY InvInit, InvStep, PTL DEF Spec

\* outbox-dispatcher.service.ts 69-130, reservation-reaper.service.ts 63-85:
\* for any number of overlapping ticks and sweeps over lists read before, only
\* an open row is POSTed, and by one tick at a time.
THEOREM OnlyOpenIsSent == Spec => []OpenWhenSent
<1>1. ASSUME Inv
      PROVE  OpenWhenSent
  <2>1. Ticks \subseteq Workers
    BY DEF Workers
  <2>2. \A w \in Ticks : at[w] = "posting" => state[Entry(w)] = "syncing"
    BY <1>1, <2>1 DEF Inv, Posts
  <2>3. ASSUME NEW v \in Ticks, NEW w \in Ticks,
               at[v] = "posting", at[w] = "posting", Entry(v) = Entry(w)
        PROVE  v = w
    BY <1>1, <2>1, <2>3, FirstInLine DEF KeyAt
  <2> QED
    BY <2>2, <2>3 DEF OpenWhenSent
<1> QED
  BY <1>1, InvAlways, PTL
=============================================================================
