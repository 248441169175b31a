--------------------------- MODULE CoverageProofs ---------------------------
(* Interception and coverage, for every map of edges, whatever its hooks      *)
(* compute and however counts wrap, for every page, server and number of      *)
(* failing calls.                                                             *)
EXTENDS Coverage, SequenceTheorems, WellFoundedInduction, TLAPS

-----------------------------------------------------------------------------
(* Numbers *)

LEMMA Remains ==
    ASSUME NEW m \in Nat \ {0}, NEW q \in Nat, NEW r \in 0..(m - 1)
    PROVE  (m * q + r) % m = r
OBVIOUS

(* A count that wraps is the number of hits, as far as it goes.               *)
LEMMA CountsWrap ==
    ASSUME NEW m \in Nat \ {0}, NEW n \in Nat
    PROVE  /\ n % m \in 0..(m - 1)
           /\ ((n % m) + 1) % m = (n + 1) % m
<1> DEFINE q == n \div m
           r == n % m
<1>1. q \in Nat /\ r \in 0..(m - 1) /\ n = m * q + r
  OBVIOUS
<1>2. CASE r + 1 < m
  <2>1. n + 1 = m * q + (r + 1) /\ r + 1 \in 0..(m - 1)
    BY <1>1, <1>2
  <2>2. (n + 1) % m = r + 1
    BY <1>1, <2>1, Remains
  <2>3. (r + 1) % m = r + 1
    <3>1. r + 1 = m * 0 + (r + 1)
      BY <1>1
    <3> QED
      BY <2>1, <3>1, Remains
  <2> QED
    BY <1>1, <2>2, <2>3
<1>3. CASE r + 1 = m
  <2>1. n + 1 = m * (q + 1) + 0 /\ r + 1 = m * 1 + 0 /\ 0 \in 0..(m - 1)
    BY <1>1, <1>3
  <2>2. (n + 1) % m = 0
    <3>1. q + 1 \in Nat
      BY <1>1
    <3>2. (m * (q + 1) + 0) % m = 0
      BY <2>1, <3>1, Remains
    <3> QED
      BY <2>1, <3>2
  <2>3. (r + 1) % m = 0
    BY <1>1, <2>1, Remains
  <2> QED
    BY <1>1, <2>2, <2>3
<1> QED
  BY <1>1, <1>2, <1>3

(* Every set of naturals that has an element has a least one.                 *)
LEMMA LeastNumber ==
    ASSUME NEW T \in SUBSET Nat, T # {}
    PROVE  \E least \in T : \A n \in T : least <= n
<1>1. PICK x \in T : \A y \in T : ~ (<<y, x>> \in OpToRel(<, Nat))
  BY NatLessThanWellFounded, WFMin
<1>2. ASSUME NEW y \in T PROVE x <= y
  <2>1. x \in Nat /\ y \in Nat
    OBVIOUS
  <2>2. ~(y < x)
    BY <1>1, <2>1 DEF OpToRel
  <2> QED
    BY <2>1, <2>2
<1> QED
  BY <1>2

(* What holds of 0 and is passed on holds up to n; the set of places where it *)
(* does stands for it.                                                        *)
LEMMA HoldsUpTo ==
    ASSUME NEW n \in Nat, NEW H, 0 \in H,
           \A i \in Nat : i < n /\ i \in H => i + 1 \in H
    PROVE  n \in H
<1> DEFINE T == {i \in 0..n : i \notin H}
<1> SUFFICES ASSUME n \notin H PROVE FALSE
  OBVIOUS
<1>1. n \in T /\ T \in SUBSET Nat
  OBVIOUS
<1>2. PICK least \in T : \A i \in T : least <= i
  BY <1>1, LeastNumber
<1>3. least # 0 /\ least \in 0..n
  BY <1>2
<1>4. least - 1 \in 0..n /\ ~(least <= least - 1)
  BY <1>3
<1>5. least - 1 \in H
  BY <1>2, <1>4
<1>6. (least - 1) + 1 \in H /\ (least - 1) + 1 = least
  BY <1>3, <1>4, <1>5
<1> QED
  BY <1>2, <1>6

-----------------------------------------------------------------------------
(* A run of a script *)
Hits == [AllIndices -> Nat]
Buckets == [Indices -> 0..8]
Open == [exists : {TRUE}, current : [Indices -> Counts], previous : Buckets,
         location : Locations]

(* The counts of a window are the hits, as far as a count goes.               *)
Counted(w, h) == \A i \in Indices : w.current[i] = h[i] % CountLimit

Ran(previous) ==
    {r \in [window : Open, hits : Hits] :
        Counted(r.window, r.hits) /\ r.window.previous = previous}

LEMMA VisitKeeps ==
    ASSUME NEW p, NEW r \in Ran(p), NEW id \in Ids PROVE Visit(r, id) \in Ran(p)
<1> DEFINE index == IndexOf(id, r.window.location)
           w == [r.window EXCEPT !.current = Increment(@, index),
                                 !.location = LocationOf(id)]
           h == [r.hits EXCEPT ![index] = @ + 1]
<1>1. /\ r.window \in Open /\ r.hits \in Hits /\ Counted(r.window, r.hits)
      /\ r.window.previous = p
  BY DEF Ran
<1>2. index \in AllIndices /\ LocationOf(id) \in Locations
  BY <1>1, EdgesAssumption DEF Open, Locations
<1>3. h \in Hits
  BY <1>1, <1>2 DEF Hits
<1>4. Indices \subseteq AllIndices
  BY EdgesAssumption DEF Indices, AllIndices
<1>5. ASSUME NEW i \in Indices
      PROVE  /\ Increment(r.window.current, index)[i] = h[i] % CountLimit
             /\ Increment(r.window.current, index)[i] \in Counts
  <2>1. /\ r.window.current \in [Indices -> Counts]
        /\ r.window.current[i] = r.hits[i] % CountLimit
        /\ r.hits[i] \in Nat /\ h[i] \in Nat
    BY <1>1, <1>3, <1>4 DEF Open, Counted, Hits
  <2>2. CASE i = index
    <3>1. h[i] = r.hits[i] + 1
      BY <1>1, <1>2, <2>2 DEF Hits
    <3>2. Increment(r.window.current, index)[i] =
             (r.window.current[i] + 1) % CountLimit
      BY <2>1, <2>2 DEF Increment
    <3>3. CountLimit \in Nat \ {0}
      BY EdgesAssumption
    <3>4. ((r.hits[i] % CountLimit) + 1) % CountLimit =
             (r.hits[i] + 1) % CountLimit
      BY <2>1, <3>3, CountsWrap
    <3>5. h[i] % CountLimit \in 0..(CountLimit - 1)
      BY <2>1, <3>3, CountsWrap
    <3> QED
      BY <2>1, <3>1, <3>2, <3>4, <3>5 DEF Counts
  <2>3. CASE i # index
    <3>1. h[i] = r.hits[i]
      BY <1>1, <1>4, <2>3 DEF Hits
    <3>2. Increment(r.window.current, index)[i] = r.window.current[i]
      BY <2>1, <2>3 DEF Increment
    <3> QED
      BY <2>1, <3>1, <3>2
  <2> QED
    BY <2>2, <2>3
<1>6. Increment(r.window.current, index) \in [Indices -> Counts]
  <2>1. /\ r.window.current \in [Indices -> Counts]
        /\ DOMAIN Increment(r.window.current, index) = Indices
    BY <1>1 DEF Open, Increment
  <2>2. \/ Increment(r.window.current, index) = r.window.current
        \/ Increment(r.window.current, index) =
              [r.window.current EXCEPT
                  ![index] = (r.window.current[index] + 1) % CountLimit]
    BY DEF Increment
  <2> QED
    BY <1>5, <2>1, <2>2
<1>7. /\ w \in Open /\ w.previous = p
      /\ w.current = Increment(r.window.current, index)
  BY <1>1, <1>2, <1>6 DEF Open
<1>8. Counted(w, h)
  BY <1>5, <1>7 DEF Counted
<1> HIDE DEF w, h
<1>9. [window |-> w, hits |-> h] \in Ran(p)
  BY <1>3, <1>7, <1>8 DEF Ran
<1> QED
  BY <1>9 DEF Visit, w, h

(* The recursion of RanThrough is well founded: some function satisfies it.   *)
Goes(ran, n, first, path) ==
    ran = [i \in 0..n |-> IF i = 0 THEN first ELSE Visit(ran[i - 1], path[i])]

LEMMA SomeRun ==
    ASSUME NEW first, NEW path, NEW n \in Nat
    PROVE  \E ran : Goes(ran, n, first, path)
<1> DEFINE H == {k \in Nat : \E ran : Goes(ran, k, first, path)}
<1>1. 0 \in H
  <2> DEFINE ran == [i \in 0..0 |-> first]
  <2>1. Goes(ran, 0, first, path)
    BY DEF Goes
  <2> QED
    BY <2>1
<1>2. ASSUME NEW k \in Nat, k \in H PROVE k + 1 \in H
  <2>1. PICK ran : Goes(ran, k, first, path)
    BY <1>2
  <2> DEFINE next == [i \in 0..(k + 1) |->
                         IF i <= k THEN ran[i] ELSE Visit(ran[k], path[k + 1])]
  <2>2. ASSUME NEW i \in 0..(k + 1)
        PROVE  next[i] =
                  IF i = 0 THEN first ELSE Visit(next[i - 1], path[i])
    <3>1. CASE i = 0
      BY <2>1, <3>1 DEF Goes
    <3>2. CASE i \in 1..k
      <4>1. i - 1 \in 0..k /\ i - 1 \in 0..(k + 1) /\ i \in 0..k
        BY <3>2
      <4>2. next[i - 1] = ran[i - 1] /\ next[i] = ran[i]
        BY <4>1
      <4>3. ran[i] = Visit(ran[i - 1], path[i])
        BY <2>1, <3>2, <4>1 DEF Goes
      <4> QED
        BY <3>2, <4>2, <4>3
    <3>3. CASE i = k + 1
      <4>1. i - 1 = k /\ k \in 0..(k + 1) /\ ~(i <= k) /\ i # 0
        BY <3>3
      <4>2. next[i - 1] = ran[k]
        BY <4>1
      <4>3. next[i] = Visit(ran[k], path[i])
        BY <3>3, <4>1
      <4> QED
        BY <4>1, <4>2, <4>3
    <3> QED
      BY <3>1, <3>2, <3>3
  <2>3. Goes(next, k + 1, first, path)
    BY <2>2 DEF Goes
  <2> QED
    BY <2>3
<1> HIDE DEF H
<1>3. n \in H
  BY <1>1, <1>2, HoldsUpTo
<1> QED
  BY <1>3 DEF H

LEMMA RunKeeps ==
    ASSUME NEW p, NEW first \in Ran(p), NEW path \in Seq(Ids)
    PROVE  RanThrough(first, path) \in Ran(p)
<1> DEFINE ran == CHOOSE r : Goes(r, Len(path), first, path)
<1>1. Len(path) \in Nat /\ \A i \in 1..Len(path) : path[i] \in Ids
  BY LenProperties, ElementOfSeq
<1>2. Goes(ran, Len(path), first, path)
  BY <1>1, SomeRun
<1>3. RanThrough(first, path) = ran[Len(path)]
  BY DEF RanThrough, Goes
<1> HIDE DEF ran
<1> DEFINE H == {i \in Nat : ran[i] \in Ran(p)}
<1>4. 0 \in H
  BY <1>1, <1>2 DEF Goes
<1>5. ASSUME NEW i \in Nat, i < Len(path), i \in H PROVE i + 1 \in H
  <2>1. i + 1 \in 1..Len(path) /\ i + 1 \in 0..Len(path) /\ (i + 1) - 1 = i
    BY <1>1, <1>5
  <2>2. ran[i + 1] = Visit(ran[(i + 1) - 1], path[i + 1])
    BY <1>2, <2>1 DEF Goes
  <2>3. path[i + 1] \in Ids /\ ran[i] \in Ran(p)
    BY <1>1, <1>5, <2>1
  <2> QED
    BY <2>1, <2>2, <2>3, VisitKeeps
<1> HIDE DEF H
<1>6. Len(path) \in H
  BY <1>1, <1>4, <1>5, HoldsUpTo
<1> QED
  BY <1>3, <1>6 DEF H

-----------------------------------------------------------------------------
(* The page and the runner *)
Windows == {NoWindow} \cup Open

PageTypes ==
    /\ window \in Windows /\ hits \in Hits /\ hitsCaptured \in Hits
    /\ edges \in Buckets /\ best \in Buckets
    /\ scripts \subseteq Sources

(* The window's counts are those of the hits since the last capture, its      *)
(* previous buckets are in the edges already, and a document without a window *)
(* was not hit.                                                               *)
WindowCounts ==
    /\ window.exists => /\ Counted(window, hits)
                        /\ \A i \in Indices : window.previous[i] <= edges[i]
    /\ ~window.exists => hits = NoHits

PageInv == PageTypes /\ WindowCounts /\ EdgesAreMaxima /\ HashOfWhatRan

LEMMA NothingIsOpen ==
    /\ NoWindow \notin Open /\ ~NoWindow.exists
    /\ \A w \in Windows : w.exists => w \in Open
<1>1. NoWindow.exists = FALSE
  BY DEF NoWindow
<1>2. \A w \in Open : w.exists = TRUE
  BY DEF Open
<1>3. NoWindow \notin Open
  BY <1>1, <1>2, Zenon
<1> QED
  BY <1>1, <1>3, Zenon DEF Windows

(* What was not hit                                                           *)
LEMMA NoHitsCount ==
    /\ NoHits \in Hits /\ NoEdges \in [Indices -> Counts] /\ NoEdges \in Buckets
    /\ \A i \in Indices : NoHits[i] % CountLimit = 0 /\ NoEdges[i] = 0
<1>1. /\ CountLimit \in Nat \ {0} /\ Indices \subseteq AllIndices
      /\ 0 % CountLimit = 0
  BY EdgesAssumption DEF Indices, AllIndices
<1> QED
  BY <1>1 DEF NoHits, NoEdges, Hits, Counts, Buckets

LEMMA PageInit == Init => PageInv
<1> SUFFICES ASSUME Init PROVE PageInv
  OBVIOUS
<1>1. /\ window = NoWindow /\ hits = NoHits /\ hitsCaptured = NoHits
      /\ edges = NoEdges /\ best = NoEdges /\ scripts = {}
      /\ transitionHash = NoHash
  BY DEF Init
<1>2. PageTypes
  BY <1>1, NoHitsCount DEF PageTypes, Windows
<1>3. WindowCounts
  BY <1>1, NothingIsOpen DEF WindowCounts
<1>4. HashOfWhatRan
  <2>1. [i \in Indices |-> BucketOf(hitsCaptured[i] % CountLimit)] = NoEdges
    BY <1>1, NoHitsCount, EdgesAssumption DEF NoEdges
  <2> QED
    BY <1>1, <2>1 DEF HashOfWhatRan, SimHash
<1> QED
  BY <1>1, <1>2, <1>3, <1>4 DEF PageInv, EdgesAreMaxima

(* A new document has no window yet; scripts come and go.                     *)
LEMMA AnswerKeepsPage ==
    ASSUME PageInv, NEW withHooks, Loads(withHooks), Hooked \subseteq Sources,
           hits' = IF Taken.type = "Document" THEN NoHits ELSE hits,
           UNCHANGED stateVars
    PROVE  PageInv'
<1>1. UNCHANGED <<edges, transitionHash, hitsCaptured, best>>
  BY DEF stateVars
<1>2. scripts' \subseteq Sources
  BY DEF Loads, PageInv, PageTypes
<1>3. \/ window' = NoWindow /\ hits' = NoHits
      \/ window' = window /\ hits' = hits
  BY DEF Loads
<1>4. PageTypes'
  BY <1>1, <1>2, <1>3, NoHitsCount DEF PageInv, PageTypes, Windows
<1>5. WindowCounts'
  BY <1>1, <1>3, NothingIsOpen DEF PageInv, WindowCounts, Counted
<1>6. EdgesAreMaxima' /\ HashOfWhatRan'
  BY <1>1 DEF PageInv, EdgesAreMaxima, HashOfWhatRan
<1> QED
  BY <1>4, <1>5, <1>6 DEF PageInv

(* A script runs.                                                             *)
LEMMA RunKeepsPage == ASSUME PageInv, Run PROVE PageInv'
<1> DEFINE w == IF window.exists THEN window ELSE Fresh
           first == [window |-> w, hits |-> hits]
<1>1. PICK source \in scripts : \E path \in Paths(source) :
         /\ window' = RanThrough(first, path).window
         /\ hits' = RanThrough(first, path).hits
  BY DEF Run
<1>2. PICK path \in Paths(source) :
         /\ window' = RanThrough(first, path).window
         /\ hits' = RanThrough(first, path).hits
  BY <1>1
<1>3. UNCHANGED <<edges, transitionHash, hitsCaptured, best, scripts>>
  BY DEF Run, stateVars
<1>4. /\ w \in Open /\ Counted(w, hits) /\ hits \in Hits
      /\ \A i \in Indices : w.previous[i] <= edges[i]
  <2>1. CASE window.exists
    BY <2>1, NothingIsOpen DEF PageInv, PageTypes, WindowCounts
  <2>2. CASE ~window.exists
    <3>1. w = Fresh /\ hits = NoHits /\ edges \in Buckets
      BY <2>2 DEF PageInv, PageTypes, WindowCounts
    <3>2. Fresh \in Open
      BY NoHitsCount DEF Fresh, Open, Locations
    <3>3. Fresh.current = NoEdges /\ Fresh.previous = NoEdges
      BY DEF Fresh
    <3>4. \A i \in Indices : NoEdges[i] <= edges[i]
      BY <3>1, NoHitsCount DEF Buckets
    <3>5. Counted(Fresh, NoHits)
      BY <3>3, NoHitsCount DEF Counted
    <3> QED
      BY <3>1, <3>2, <3>3, <3>4, <3>5, NoHitsCount
  <2> QED
    BY <2>1, <2>2
<1>5. path \in Seq(Ids)
  BY <1>2, EdgesAssumption DEF PageInv, PageTypes
<1> HIDE DEF w
<1>6. first \in Ran(w.previous)
  BY <1>4 DEF Ran
<1>7. RanThrough(first, path) \in Ran(w.previous)
  BY <1>5, <1>6, RunKeeps
<1>8. /\ window' \in Open /\ hits' \in Hits /\ Counted(window', hits')
      /\ window'.previous = w.previous
  BY <1>2, <1>7 DEF Ran
<1>9. PageTypes'
  BY <1>3, <1>8 DEF PageInv, PageTypes, Windows
<1>10. WindowCounts'
  <2>1. window'.exists
    BY <1>8 DEF Open
  <2> QED
    BY <1>3, <1>4, <1>8, <2>1 DEF WindowCounts, Counted
<1>11. EdgesAreMaxima' /\ HashOfWhatRan'
  BY <1>3 DEF PageInv, EdgesAreMaxima, HashOfWhatRan
<1> QED
  BY <1>9, <1>10, <1>11 DEF PageInv

(* A state: what changed is in the buckets that are compared, and what did    *)
(* not was in the edges already.                                              *)
LEMMA CaptureKeepsPage == ASSUME PageInv, Capture PROVE PageInv'
<1> DEFINE now(i) == BucketOf(hits[i] % CountLimit)
<1>1. /\ UNCHANGED scripts
      /\ hitsCaptured' = hits /\ hits' = NoHits
      /\ best' = [i \in Indices |-> Larger(best[i], now(i))]
  BY DEF Capture
<1>2. /\ edges \in Buckets /\ best = edges /\ hits \in Hits
      /\ CountLimit \in Nat \ {0}
  BY EdgesAssumption DEF PageInv, PageTypes, EdgesAreMaxima
<1>3. ASSUME NEW i \in Indices PROVE now(i) \in 0..8 /\ edges[i] \in 0..8
  <2>1. hits[i] \in Nat
    BY <1>2, EdgesAssumption DEF Hits, Indices, AllIndices
  <2>2. hits[i] % CountLimit \in Counts
    BY <1>2, <2>1, CountsWrap DEF Counts
  <2> QED
    BY <1>2, <2>2, EdgesAssumption DEF Buckets
<1> HIDE DEF now
<1>4. best' \in Buckets
  <2>1. \A i \in Indices : Larger(best[i], now(i)) \in 0..8
    BY <1>2, <1>3 DEF Larger
  <2> QED
    BY <1>1, <2>1 DEF Buckets
<1>5. /\ edges' = best' /\ window' \in Windows /\ WindowCounts'
      /\ transitionHash' = SimHash([i \in Indices |-> now(i)])
  <2>1. CASE window.exists
    <3>1. /\ window \in Open /\ Counted(window, hits)
          /\ \A i \in Indices : window.previous[i] <= edges[i]
      BY <2>1, NothingIsOpen DEF PageInv, PageTypes, WindowCounts
    <3>2. \A i \in Indices : BucketOf(window.current[i]) = now(i)
      BY <3>1 DEF Counted, now
    <3>3. /\ edges' = [i \in Indices |->
                IF i \in Differences
                THEN UpdateEdge(edges[i], BucketOf(window.current[i]))
                ELSE edges[i]]
          /\ window' = [window EXCEPT !.previous = Bucketed(window.current),
                                      !.current = NoEdges]
          /\ transitionHash' = SimHash(window'.previous)
      BY <2>1 DEF Capture, Shift
    <3>4. ASSUME NEW i \in Indices
          PROVE  (IF i \in Differences
                  THEN UpdateEdge(edges[i], BucketOf(window.current[i]))
                  ELSE edges[i]) = Larger(best[i], now(i))
      <4>1. CASE i \in Differences
        BY <1>2, <3>2, <4>1 DEF UpdateEdge
      <4>2. CASE i \notin Differences
        <5>1. now(i) = window.previous[i]
          BY <3>2, <4>2 DEF Differences
        <5>2. now(i) <= edges[i]
          BY <3>1, <5>1
        <5> QED
          BY <1>2, <1>3, <4>2, <5>2 DEF Larger
      <4> QED
        BY <4>1, <4>2
    <3>5. edges' = best'
      BY <1>1, <3>3, <3>4
    <3>6. Bucketed(window.current) = [i \in Indices |-> now(i)]
      BY <3>2 DEF Bucketed
    <3>7. [i \in Indices |-> now(i)] \in Buckets
      BY <1>3 DEF Buckets
    <3>8. /\ window' \in Open /\ window'.current = NoEdges
          /\ window'.previous = [i \in Indices |-> now(i)]
      BY <3>1, <3>3, <3>6, <3>7, NoHitsCount DEF Open
    <3>9. \A i \in Indices : now(i) <= best'[i]
      BY <1>1, <1>2, <1>3 DEF Larger
    <3>10. WindowCounts'
      <4>1. Counted(window', hits')
        BY <1>1, <3>8, NoHitsCount DEF Counted
      <4>2. window'.exists
        BY <3>8 DEF Open
      <4> QED
        BY <3>5, <3>8, <3>9, <4>1, <4>2 DEF WindowCounts, Counted
    <3> QED
      BY <3>3, <3>5, <3>8, <3>10 DEF Windows
  <2>2. CASE ~window.exists
    <3>1. /\ hits = NoHits /\ window' = window /\ edges' = edges
          /\ transitionHash' = NoHash
      BY <2>2 DEF Capture, PageInv, WindowCounts
    <3>2. \A i \in Indices : now(i) = 0
      BY <3>1, NoHitsCount, EdgesAssumption DEF now
    <3>3. [i \in Indices |-> now(i)] = NoEdges
      BY <3>2 DEF NoEdges
    <3>4. \A i \in Indices : Larger(best[i], now(i)) = edges[i]
      BY <1>2, <1>3, <3>2 DEF Larger
    <3>5. edges' = best'
      BY <1>1, <1>2, <3>1, <3>4 DEF Buckets
    <3>6. WindowCounts'
      BY <1>1, <2>2, <3>1 DEF WindowCounts
    <3> QED
      BY <3>1, <3>3, <3>5, <3>6 DEF SimHash, PageInv, PageTypes
  <2> QED
    BY <2>1, <2>2
<1>6. HashOfWhatRan'
  BY <1>1, <1>5 DEF HashOfWhatRan, now
<1>7. PageTypes'
  BY <1>1, <1>2, <1>4, <1>5, NoHitsCount DEF PageInv, PageTypes
<1> QED
  BY <1>5, <1>6, <1>7 DEF PageInv, EdgesAreMaxima

-----------------------------------------------------------------------------
(* Requests *)
AllRequests ==
    [type : {"Document"}, document : Nat, response : Responses("Document")]
    \cup [type : {"Script"}, document : Nat, response : Responses("Script")]
Ends == {"none", "as sent", "original", "instrumented", "invalid", "paused"}

RequestTypes ==
    /\ config \in [files : BOOLEAN, inline : BOOLEAN]
    /\ requests \in Seq(AllRequests)
    /\ answers \in Seq(Ends) /\ Len(answers) = Len(requests)
    /\ queue \in Seq(Nat)
    /\ \A i \in 1..Len(queue) : queue[i] \in 1..Len(requests)
    /\ request \in 0..Len(requests)
    /\ step \in {"none", "get body", "fulfill", "continue", "recover"}
    /\ request = 0 <=> step = "none"
    /\ body \in {"original", "instrumented"}
    /\ faults \in Nat

DocumentTypes == latest \in 0..MaxNavigations /\ document \in 0..latest

(* What is to have hooks, as PageGetsWhatWasSent has it                       *)
ToHaveHooks(r) ==
    /\ r.response.status = 200 /\ r.response.text /\ ToInstrument(r)
    /\ \A n \in DOMAIN r.response.scripts : r.response.scripts[n].parses

(* What the call that is being made says of the request it is made for        *)
Prepared ==
    request # 0 =>
        /\ step = "get body" => Response.status = 200 /\ body = "original"
        /\ step = "fulfill" =>
            /\ Response.status = 200 /\ Response.text
            /\ ToInstrument(Taken) => Instrumentable(Taken)
            /\ body = "instrumented" => ToInstrument(Taken)
        /\ step = "continue" => Response.status # 200
        /\ step = "recover" /\ ToHaveHooks(Taken) => faults > 0

(* What an answer says of the request it was for                              *)
Answered(r, answer) ==
    /\ answer = "instrumented" => ToHaveHooks(r)
    /\ answer = "as sent" /\ ToHaveHooks(r) => faults > 0
    /\ answer = "paused" => faults > 0

AllAnswered == \A i \in 1..Len(requests) : Answered(requests[i], answers[i])

RequestInv == RequestTypes /\ Prepared /\ AllAnswered

(* The sequences have lengths.                                                *)
LEMMA Lists ==
    ASSUME RequestTypes
    PROVE  /\ requests \in Seq(AllRequests) /\ Len(requests) \in Nat
           /\ DOMAIN requests = 1..Len(requests)
           /\ answers \in Seq(Ends) /\ Len(answers) = Len(requests)
           /\ queue \in Seq(Nat) /\ Len(queue) \in Nat
           /\ \A i \in 1..Len(queue) : queue[i] \in 1..Len(requests)
           /\ request \in 0..Len(requests)
<1>1. /\ requests \in Seq(AllRequests) /\ answers \in Seq(Ends)
      /\ Len(answers) = Len(requests) /\ queue \in Seq(Nat)
      /\ \A i \in 1..Len(queue) : queue[i] \in 1..Len(requests)
      /\ request \in 0..Len(requests)
  BY DEF RequestTypes
<1> QED
  BY <1>1, LenProperties

LEMMA AnsweredMeans ==
    ASSUME RequestTypes PROVE AllAnswered <=> PageGetsWhatWasSent
<1>1. DOMAIN requests = 1..Len(requests)
  BY Lists
<1> QED
  BY <1>1 DEF AllAnswered, Answered, PageGetsWhatWasSent, ToHaveHooks

(* Of a script there is one, so it can be instrumented if all of it can.      *)
LEMMA InstrumentableMeans ==
    ASSUME NEW r \in AllRequests
    PROVE  /\ Instrumentable(r) <=>
                \A n \in DOMAIN r.response.scripts :
                    r.response.scripts[n].parses
           /\ \A n \in DOMAIN r.response.scripts :
                r.response.scripts[n].source \in Sources
<1>1. /\ r.type \in {"Document", "Script"}
      /\ r.response \in Responses(r.type)
  BY DEF AllRequests
<1>2. /\ r.response.scripts \in Seq([source : Sources, parses : BOOLEAN])
      /\ r.type = "Script" => Len(r.response.scripts) = 1
  BY <1>1, PageAssumption
<1>3. DOMAIN r.response.scripts = 1..Len(r.response.scripts)
  BY <1>2, LenProperties
<1>4. ASSUME r.type = "Script" PROVE DOMAIN r.response.scripts = {1}
  <2>1. Len(r.response.scripts) = 1 /\ 1..1 = {1}
    BY <1>2, <1>4
  <2> QED
    BY <1>3, <2>1
<1>5. \A n \in DOMAIN r.response.scripts :
         r.response.scripts[n] \in [source : Sources, parses : BOOLEAN]
  BY <1>2, <1>3, ElementOfSeq
<1>6. Instrumentable(r) <=>
         \A n \in DOMAIN r.response.scripts : r.response.scripts[n].parses
  BY <1>1, <1>4
     DEF Instrumentable, InstrumentSourceCode, InstrumentInlineScripts
<1> QED
  BY <1>5, <1>6

LEMMA TakenIsRequest ==
    ASSUME RequestTypes, request # 0
    PROVE  /\ request \in 1..Len(requests) /\ Taken \in AllRequests
           /\ Hooked \subseteq Sources
<1>1. request \in 1..Len(requests)
  BY Lists
<1>2. Taken \in AllRequests
  BY <1>1, Lists, ElementOfSeq DEF Taken
<1> QED
  BY <1>1, <1>2, InstrumentableMeans DEF Hooked, Response

LEMMA RequestInit == Init => RequestInv /\ DocumentTypes
<1> SUFFICES ASSUME Init PROVE RequestInv /\ DocumentTypes
  OBVIOUS
<1>1. /\ requests = <<>> /\ queue = <<>> /\ answers = <<>> /\ request = 0
      /\ step = "none" /\ body = "original" /\ faults = 0
      /\ config \in [files : BOOLEAN, inline : BOOLEAN]
      /\ latest = 0 /\ document = 0
  BY DEF Init
<1> QED
  BY <1>1, PageAssumption
     DEF RequestInv, RequestTypes, Prepared, AllAnswered, DocumentTypes

(* What was said of an answer can be said later, and of all answers.          *)
LEMMA AnsweredStays ==
    ASSUME UNCHANGED config, faults \in Nat, faults' \in Nat, faults' >= faults,
           NEW r, NEW answer, Answered(r, answer)
    PROVE  Answered(r, answer)'
<1>1. config' = config
  OBVIOUS
<1>2. ToHaveHooks(r)' <=> ToHaveHooks(r)
  <2>1. IsHtmlDocument(r)' <=> IsHtmlDocument(r)
    BY DEF IsHtmlDocument
  <2>2. (config.files)' = config.files /\ (config.inline)' = config.inline
    BY <1>1
  <2>3. CASE r.type = "Script"
    BY <2>2, <2>3, Zenon DEF ToHaveHooks, ToInstrument
  <2>4. CASE r.type # "Script"
    BY <2>1, <2>2, <2>4, Zenon DEF ToHaveHooks, ToInstrument
  <2> QED
    BY <2>3, <2>4
<1>3. faults > 0 => faults' > 0
  OBVIOUS
<1> QED
  BY <1>2, <1>3, Zenon DEF Answered

LEMMA AllAnsweredThen ==
    ASSUME NEW all, NEW ends, all = requests', ends = answers',
           \A i \in 1..Len(all) : Answered(all[i], ends[i])'
    PROVE  AllAnswered'
BY DEF AllAnswered, Answered, ToHaveHooks, ToInstrument, IsHtmlDocument

(* One more request waits.                                                    *)
LEMMA PauseKeeps ==
    ASSUME RequestInv, NEW r \in AllRequests, Pause(r),
           UNCHANGED <<config, request, step, body, faults>>
    PROVE  RequestInv'
<1> DEFINE n == Len(requests)
<1>1. /\ requests' = Append(requests, r) /\ queue' = Append(queue, n + 1)
      /\ answers' = Append(answers, "none")
      /\ UNCHANGED <<config, request, step, body, faults>>
  BY DEF Pause
<1>2. /\ requests \in Seq(AllRequests) /\ answers \in Seq(Ends)
      /\ n \in Nat /\ Len(answers) = n /\ queue \in Seq(Nat)
      /\ Len(queue) \in Nat /\ request \in 0..n
      /\ \A i \in 1..Len(queue) : queue[i] \in 1..n
  BY Lists DEF RequestInv
<1>3. /\ requests' \in Seq(AllRequests) /\ Len(requests') = n + 1
      /\ requests'[n + 1] = r
      /\ \A i \in 1..n : requests'[i] = requests[i]
  BY <1>1, <1>2, AppendProperties
<1>4. /\ answers' \in Seq(Ends) /\ Len(answers') = n + 1
      /\ answers'[n + 1] = "none"
      /\ \A i \in 1..n : answers'[i] = answers[i]
  <2>1. "none" \in Ends
    BY DEF Ends
  <2> QED
    BY <1>1, <1>2, <2>1, AppendProperties
<1>5. /\ queue' \in Seq(Nat) /\ Len(queue') = Len(queue) + 1
      /\ queue'[Len(queue) + 1] = n + 1
      /\ \A i \in 1..Len(queue) : queue'[i] = queue[i]
  <2>1. n + 1 \in Nat
    BY <1>2
  <2> QED
    BY <1>1, <1>2, <2>1, AppendProperties
<1>6. RequestTypes'
  <2>1. PICK q, m : q = queue' /\ m = Len(requests')
    OBVIOUS
  <2>2. ASSUME NEW i \in 1..Len(q) PROVE q[i] \in 1..m
    <3>1. CASE i = Len(queue) + 1
      BY <1>2, <1>3, <1>5, <2>1, <3>1
    <3>2. CASE i \in 1..Len(queue)
      <4>1. q[i] \in 1..n
        BY <1>2, <1>5, <2>1, <3>2
      <4> QED
        BY <1>2, <1>3, <2>1, <4>1
    <3> QED
      BY <1>2, <1>5, <2>1, <3>1, <3>2
  <2>3. request' \in 0..Len(requests')
    BY <1>1, <1>2, <1>3
  <2>4. Len(answers') = Len(requests')
    BY <1>3, <1>4
  <2> HIDE DEF n
  <2>5. /\ config' = config /\ step' = step /\ body' = body
        /\ faults' = faults /\ request' = request
    BY <1>1
  <2> QED
    BY <1>3, <1>4, <1>5, <2>1, <2>2, <2>3, <2>4, <2>5
       DEF RequestInv, RequestTypes
<1>7. Prepared'
  <2>1. CASE request = 0
    BY <1>1, <2>1 DEF Prepared
  <2>2. CASE request # 0
    <3>1. Taken' = Taken /\ Response' = Response
      <4>1. request \in 1..n
        BY <1>2, <2>2
      <4> QED
        BY <1>1, <1>3, <4>1 DEF Taken, Response
    <3> QED
      BY <1>1, <2>2, <3>1
         DEF RequestInv, Prepared, ToHaveHooks, ToInstrument, Instrumentable,
             InstrumentInlineScripts
  <2> QED
    BY <2>1, <2>2
<1>8. AllAnswered'
  <2>1. PICK all, ends : all = requests' /\ ends = answers'
    OBVIOUS
  <2>2. ASSUME NEW i \in 1..Len(all) PROVE Answered(all[i], ends[i])'
    <3>1. Answered(all[i], ends[i])
      <4>1. CASE i = n + 1
        BY <1>4, <2>1, <4>1 DEF Answered
      <4>2. CASE i \in 1..n
        <5>1. all[i] = requests[i] /\ ends[i] = answers[i]
          BY <1>3, <1>4, <2>1, <4>2
        <5> QED
          BY <4>2, <5>1 DEF RequestInv, AllAnswered
      <4> QED
        BY <1>2, <1>3, <2>1, <4>1, <4>2
    <3>2. UNCHANGED config /\ faults \in Nat /\ faults' = faults
      BY <1>1 DEF RequestInv, RequestTypes
    <3>3. faults' \in Nat /\ faults' >= faults
      BY <3>2
    <3> QED
      BY <3>1, <3>2, <3>3, AnsweredStays
  <2> QED
    BY <2>1, <2>2, AllAnsweredThen
<1> QED
  BY <1>6, <1>7, <1>8 DEF RequestInv

(* The answer to the request that was taken                                   *)
LEMMA DoneKeeps ==
    ASSUME RequestInv, request # 0, UNCHANGED config,
           faults' \in Nat, faults' >= faults,
           NEW answer \in Ends, Done(answer),
           NEW r, r = Taken, Answered(r, answer)'
    PROVE  RequestInv'
<1> DEFINE n == Len(requests)
<1>1. /\ answers' = [answers EXCEPT ![request] = answer]
      /\ request' = 0 /\ step' = "none" /\ body' = "original"
      /\ UNCHANGED <<requests, queue>>
  BY DEF Done
<1>2. /\ requests \in Seq(AllRequests) /\ answers \in Seq(Ends)
      /\ n \in Nat /\ Len(answers) = n /\ request \in 1..n
  BY Lists, TakenIsRequest DEF RequestInv
<1>3. /\ answers' \in Seq(Ends) /\ Len(answers') = n
      /\ answers'[request] = answer
      /\ \A i \in 1..n : i # request => answers'[i] = answers[i]
  BY <1>1, <1>2, ExceptSeq
<1>4. RequestTypes'
  <2>1. /\ config \in [files : BOOLEAN, inline : BOOLEAN]
        /\ queue \in Seq(Nat)
        /\ \A i \in 1..Len(queue) : queue[i] \in 1..Len(requests)
    BY DEF RequestInv, RequestTypes
  <2>2. config' = config /\ requests' = requests /\ queue' = queue
    BY <1>1
  <2>3. request' \in 0..Len(requests)
    BY <1>1, <1>2
  <2> QED
    BY <1>1, <1>2, <1>3, <2>1, <2>2, <2>3 DEF RequestTypes
<1>5. Prepared'
  BY <1>1 DEF Prepared
<1>6. AllAnswered'
  <2>1. PICK all, ends : all = requests' /\ ends = answers'
    OBVIOUS
  <2>2. ASSUME NEW i \in 1..Len(all) PROVE Answered(all[i], ends[i])'
    <3>1. CASE i = request
      <4>1. all[i] = r /\ ends[i] = answer
        BY <1>1, <1>3, <2>1, <3>1 DEF Taken
      <4> QED
        BY <4>1
    <3>2. CASE i # request
      <4>1. all[i] = requests[i] /\ ends[i] = answers[i] /\ i \in 1..n
        BY <1>1, <1>3, <2>1, <3>2
      <4>2. Answered(all[i], ends[i])
        BY <4>1 DEF RequestInv, AllAnswered
      <4>3. faults \in Nat
        BY DEF RequestInv, RequestTypes
      <4> QED
        BY <4>2, <4>3, AnsweredStays
    <3> QED
      BY <3>1, <3>2
  <2> QED
    BY <2>1, <2>2, AllAnsweredThen
<1> QED
  BY <1>4, <1>5, <1>6 DEF RequestInv

(* The task takes the next request.                                           *)
LEMMA TakeKeeps == ASSUME RequestInv, TakeRequest PROVE RequestInv'
<1>1. /\ queue # <<>> /\ request' = Head(queue) /\ queue' = Tail(queue)
      /\ step' = FirstCall(requests[request'].response) /\ body' = "original"
      /\ UNCHANGED <<config, requests, answers, faults>>
  BY DEF TakeRequest
<1>2. /\ queue \in Seq(Nat) /\ Len(queue) \in Nat /\ Len(requests) \in Nat
      /\ \A i \in 1..Len(queue) : queue[i] \in 1..Len(requests)
  BY Lists DEF RequestInv
<1>3. /\ queue' \in Seq(Nat) /\ Len(queue') = Len(queue) - 1
      /\ \A i \in 1..Len(queue') : queue'[i] = queue[i + 1]
      /\ request' = queue[1] /\ Len(queue) # 0
  BY <1>1, <1>2, HeadTailProperties, EmptySeq
<1>4. request' \in 1..Len(requests)
  <2>1. 1 \in 1..Len(queue)
    BY <1>2, <1>3
  <2> QED
    BY <1>2, <1>3, <2>1
<1>5. \A i \in 1..Len(queue') : queue'[i] \in 1..Len(requests)
  <2>1. \A i \in 1..Len(queue') : i + 1 \in 1..Len(queue)
    BY <1>2, <1>3
  <2> QED
    BY <1>2, <1>3, <2>1
<1>6. /\ step' \in {"get body", "continue"}
      /\ step' = "get body" <=> Response'.status = 200
  BY <1>1 DEF FirstCall, Response, Taken
<1>7. RequestTypes'
  <2>1. PICK k : k = request'
    OBVIOUS
  <2>2. k \in 0..Len(requests) /\ k # 0
    BY <1>2, <1>4, <2>1
  <2>3. /\ config \in [files : BOOLEAN, inline : BOOLEAN]
        /\ requests \in Seq(AllRequests) /\ answers \in Seq(Ends)
        /\ Len(answers) = Len(requests) /\ faults \in Nat
    BY DEF RequestInv, RequestTypes
  <2>4. /\ config' = config /\ requests' = requests /\ answers' = answers
        /\ faults' = faults
    BY <1>1
  <2>5. /\ step' \in {"none", "get body", "fulfill", "continue", "recover"}
        /\ step' # "none" /\ body' \in {"original", "instrumented"}
    BY <1>1, <1>6
  <2> QED
    BY <1>3, <1>5, <2>1, <2>2, <2>3, <2>4, <2>5 DEF RequestTypes
<1>8. Prepared'
  BY <1>1, <1>6 DEF Prepared
<1>9. AllAnswered'
  <2>1. PICK all, ends : all = requests' /\ ends = answers'
    OBVIOUS
  <2>2. ASSUME NEW i \in 1..Len(all) PROVE Answered(all[i], ends[i])'
    <3>1. Answered(all[i], ends[i])
      BY <1>1, <2>1 DEF RequestInv, AllAnswered
    <3>2. UNCHANGED config /\ faults \in Nat /\ faults' = faults
      BY <1>1 DEF RequestInv, RequestTypes
    <3>3. faults' \in Nat /\ faults' >= faults
      BY <3>2
    <3> QED
      BY <3>1, <3>2, <3>3, AnsweredStays
  <2> QED
    BY <2>1, <2>2, AllAnsweredThen
<1> QED
  BY <1>7, <1>8, <1>9 DEF RequestInv

(* Another call for the same request                                          *)
LEMMA CallKeeps ==
    ASSUME RequestInv, request # 0,
           UNCHANGED <<config, requests, queue, request, answers>>,
           faults' \in Nat, faults' >= faults,
           step' \in {"get body", "fulfill", "continue", "recover"},
           body' \in {"original", "instrumented"}, Prepared'
    PROVE  RequestInv'
<1>1. RequestTypes'
  BY DEF RequestInv, RequestTypes
<1>2. AllAnswered'
  <2>1. PICK all, ends : all = requests' /\ ends = answers'
    OBVIOUS
  <2>2. ASSUME NEW i \in 1..Len(all) PROVE Answered(all[i], ends[i])'
    <3>1. Answered(all[i], ends[i])
      BY <2>1 DEF RequestInv, AllAnswered
    <3>2. faults \in Nat
      BY DEF RequestInv, RequestTypes
    <3> QED
      BY <3>1, <3>2, AnsweredStays
  <2> QED
    BY <2>1, <2>2, AllAnsweredThen
<1> QED
  BY <1>1, <1>2 DEF RequestInv

(* What a request is taken for                                                *)
Inv == RequestInv /\ DocumentTypes /\ PageInv

LEMMA NavigateKeeps == ASSUME Inv, Navigate PROVE Inv'
<1>1. PICK response \in Responses("Document") :
         Pause(Request("Document", latest', response))
  BY DEF Navigate
<1>2. /\ latest < MaxNavigations /\ latest' = latest + 1
      /\ latest \in 0..MaxNavigations /\ document \in 0..latest
      /\ MaxNavigations \in Nat
      /\ UNCHANGED <<config, request, step, body, faults, document, scripts,
                     window, edges, transitionHash, hitsCaptured, best, hits>>
  BY PageAssumption DEF Navigate, stateVars, Inv, DocumentTypes
<1>3. PICK l : l = latest'
  OBVIOUS
<1>4. Request("Document", l, response) \in AllRequests
  BY <1>2, <1>3 DEF Request, AllRequests
<1>5. Pause(Request("Document", l, response))
  BY <1>1, <1>3
<1>6. RequestInv'
  BY <1>2, <1>4, <1>5, PauseKeeps DEF Inv
<1>7. DocumentTypes'
  BY <1>2 DEF DocumentTypes
<1>8. PageInv'
  BY <1>2 DEF Inv, PageInv, PageTypes, WindowCounts, Counted, EdgesAreMaxima,
              HashOfWhatRan
<1> QED
  BY <1>6, <1>7, <1>8 DEF Inv

LEMMA RequestScriptKeeps == ASSUME Inv, RequestScript PROVE Inv'
<1>1. PICK response \in Responses("Script") :
         Pause(Request("Script", document, response))
  BY DEF RequestScript
<1>2. /\ latest \in 0..MaxNavigations /\ document \in 0..latest
      /\ UNCHANGED <<config, request, step, body, faults, latest, document,
                     scripts, window, edges, transitionHash, hitsCaptured, best,
                     hits>>
  BY DEF RequestScript, pageVars, stateVars, Inv, DocumentTypes
<1>3. PICK d : d = document
  OBVIOUS
<1>4. Request("Script", d, response) \in AllRequests
  BY <1>2, <1>3 DEF Request, AllRequests
<1>5. Pause(Request("Script", d, response))
  BY <1>1, <1>3
<1>6. RequestInv'
  BY <1>2, <1>4, <1>5, PauseKeeps DEF Inv
<1>7. DocumentTypes'
  BY <1>2 DEF DocumentTypes
<1>8. PageInv'
  BY <1>2 DEF Inv, PageInv, PageTypes, WindowCounts, Counted, EdgesAreMaxima,
              HashOfWhatRan
<1> QED
  BY <1>6, <1>7, <1>8 DEF Inv

(* What leaves the page and the states alone                                  *)
LEMMA PageStays ==
    ASSUME Inv, UNCHANGED <<pageVars, stateVars, hits>>
    PROVE  DocumentTypes' /\ PageInv'
BY DEF pageVars, stateVars, Inv, DocumentTypes, PageInv, PageTypes,
       WindowCounts, Counted, EdgesAreMaxima, HashOfWhatRan

(* What the page and the states do leaves the requests alone.                 *)
LEMMA RequestsStay ==
    ASSUME Inv, UNCHANGED <<config, requestVars, faults, latest, document>>
    PROVE  RequestInv' /\ DocumentTypes'
<1>1. UNCHANGED <<config, requests, queue, request, step, body, answers, faults,
                  latest, document>>
  BY DEF requestVars
<1>2. RequestTypes' /\ DocumentTypes'
  BY <1>1 DEF Inv, DocumentTypes, RequestInv, RequestTypes
<1>3. Prepared'
  BY <1>1 DEF Inv, RequestInv, Prepared, ToHaveHooks, ToInstrument,
              IsHtmlDocument, Instrumentable, InstrumentInlineScripts, Taken,
              Response
<1>4. AllAnswered'
  <2>1. PICK all, ends : all = requests' /\ ends = answers'
    OBVIOUS
  <2>2. ASSUME NEW i \in 1..Len(all) PROVE Answered(all[i], ends[i])'
    <3>1. Answered(all[i], ends[i])
      BY <1>1, <2>1 DEF Inv, RequestInv, AllAnswered
    <3>2. UNCHANGED config /\ faults \in Nat /\ faults' = faults
      BY <1>1 DEF Inv, RequestInv, RequestTypes
    <3>3. faults' \in Nat /\ faults' >= faults
      BY <3>2
    <3> QED
      BY <3>1, <3>2, <3>3, AnsweredStays
  <2> QED
    BY <2>1, <2>2, AllAnsweredThen
<1> QED
  BY <1>2, <1>3, <1>4 DEF RequestInv

LEMMA GetBodyKeeps == ASSUME Inv, GetBody PROVE Inv'
<1>1. /\ request # 0 /\ step = "get body"
      /\ UNCHANGED <<config, requests, queue, request, answers, faults>>
      /\ UNCHANGED <<pageVars, stateVars, hits>>
  BY DEF GetBody
<1>2. /\ faults \in Nat /\ body \in {"original", "instrumented"}
      /\ Response.status = 200 /\ Taken \in AllRequests
  BY <1>1, TakenIsRequest DEF Inv, RequestInv, RequestTypes, Prepared
<1>3. /\ Taken' = Taken /\ Response' = Response /\ Response = Taken.response
      /\ ToInstrument(Taken)' <=> ToInstrument(Taken)
      /\ Instrumentable(Taken)' <=> Instrumentable(Taken)
      /\ ToHaveHooks(Taken)' <=> ToHaveHooks(Taken)
  BY <1>1 DEF Taken, Response, ToInstrument, IsHtmlDocument, Instrumentable,
              InstrumentInlineScripts, ToHaveHooks
<1>4. ToHaveHooks(Taken) =>
         Response.text /\ ToInstrument(Taken) /\ Instrumentable(Taken)
  BY <1>2, <1>3, InstrumentableMeans DEF ToHaveHooks
<1>5. faults' \in Nat /\ faults' >= faults
  <2>1. faults' = faults
    BY <1>1
  <2>2. faults \in Nat
    BY <1>2
  <2> QED
    BY <2>1, <2>2
<1>6. CASE ~Response.text \/ (ToInstrument(Taken) /\ ~Instrumentable(Taken))
  <2>1. step' = "recover" /\ body' = body
    BY <1>6 DEF GetBody
  <2>2. ~ToHaveHooks(Taken)
    BY <1>4, <1>6
  <2>3. Prepared'
    BY <1>3, <2>1, <2>2 DEF Prepared
  <2>4. /\ step' \in {"get body", "fulfill", "continue", "recover"}
        /\ body' \in {"original", "instrumented"}
    BY <1>2, <2>1
  <2>5. RequestInv'
    BY <1>1, <1>5, <2>3, <2>4, CallKeeps DEF Inv
  <2> QED
    BY <1>1, <2>5, PageStays DEF Inv
<1>7. CASE ~(~Response.text \/ (ToInstrument(Taken) /\ ~Instrumentable(Taken)))
  <2>1. /\ step' = "fulfill"
        /\ body' = IF ToInstrument(Taken) THEN "instrumented" ELSE body
    BY <1>7 DEF GetBody
  <2>2. body = "original"
    BY <1>1 DEF Inv, RequestInv, Prepared
  <2>3. Prepared'
    BY <1>2, <1>3, <1>7, <2>1, <2>2 DEF Prepared
  <2>4. /\ step' \in {"get body", "fulfill", "continue", "recover"}
        /\ body' \in {"original", "instrumented"}
    BY <1>2, <2>1
  <2>5. RequestInv'
    BY <1>1, <1>5, <2>3, <2>4, CallKeeps DEF Inv
  <2> QED
    BY <1>1, <2>5, PageStays DEF Inv
<1> QED
  BY <1>6, <1>7

(* The page gets an answer: the request is answered, and what it loads is in  *)
(* the page.                                                                  *)
LEMMA AnswersKeep ==
    ASSUME Inv, request # 0, NEW answer \in Ends, Answers(answer),
           NEW r, r = Taken, Answered(r, answer)
    PROVE  Inv'
<1>1. /\ Alive(Taken) /\ Loads(answer = "instrumented") /\ Done(answer)
      /\ hits' = IF Taken.type = "Document" THEN NoHits ELSE hits
      /\ UNCHANGED <<config, faults, latest, stateVars>>
  BY DEF Answers
<1>2. faults \in Nat /\ faults' = faults /\ config' = config
  BY <1>1 DEF Inv, RequestInv, RequestTypes
<1>3. faults' \in Nat /\ faults' >= faults
  BY <1>2
<1>4. Answered(r, answer)'
  BY <1>2, <1>3, AnsweredStays
<1>5. RequestInv'
  BY <1>1, <1>2, <1>3, <1>4, DoneKeeps DEF Inv
<1>6. Hooked \subseteq Sources
  BY TakenIsRequest DEF Inv, RequestInv
<1>7. PageInv'
  BY <1>1, <1>6, AnswerKeepsPage DEF Inv
<1>8. DocumentTypes'
  <2>1. /\ latest' = latest /\ latest \in 0..MaxNavigations
        /\ document \in 0..latest
    BY <1>1 DEF Inv, DocumentTypes
  <2>2. document' = latest \/ document' = document
    BY <1>1 DEF Loads, Alive
  <2>3. document' \in 0..latest
    BY <2>1, <2>2, PageAssumption
  <2> QED
    BY <2>1, <2>3 DEF DocumentTypes
<1> QED
  BY <1>5, <1>7, <1>8 DEF Inv

LEMMA FulfillRequestKeeps == ASSUME Inv, FulfillRequest PROVE Inv'
<1>1. request # 0 /\ step = "fulfill" /\ Answers(body)
  BY DEF FulfillRequest
<1>2. PICK answer, r : answer = body /\ r = Taken
  OBVIOUS
<1>3. answer \in {"original", "instrumented"} /\ answer \in Ends
  BY <1>2 DEF Inv, RequestInv, RequestTypes, Ends
<1>4. Answered(r, answer)
  <2>1. Taken \in AllRequests /\ Response = Taken.response
    BY <1>1, TakenIsRequest DEF Inv, RequestInv, Response
  <2>2. body = "instrumented" => ToHaveHooks(Taken)
    BY <1>1, <2>1, InstrumentableMeans DEF Inv, RequestInv, Prepared, ToHaveHooks
  <2> QED
    BY <1>2, <1>3, <2>2 DEF Answered
<1>5. Answers(answer)
  BY <1>1, <1>2
<1> QED
  BY <1>1, <1>2, <1>3, <1>4, <1>5, AnswersKeep

LEMMA ContinueRequestKeeps == ASSUME Inv, ContinueRequest PROVE Inv'
<1>1. request # 0 /\ step \in {"continue", "recover"} /\ Answers("as sent")
  BY DEF ContinueRequest
<1>2. PICK r : r = Taken
  OBVIOUS
<1>3. "as sent" \in Ends
  BY DEF Ends
<1>4. Answered(r, "as sent")
  BY <1>1, <1>2 DEF Inv, RequestInv, Prepared, Answered, ToHaveHooks, Response
<1> QED
  BY <1>1, <1>2, <1>3, <1>4, AnswersKeep

LEMMA InvalidatedKeeps == ASSUME Inv, Invalidated PROVE Inv'
<1>1. /\ request # 0 /\ Done("invalid")
      /\ UNCHANGED <<config, faults, pageVars, stateVars, hits>>
  BY DEF Invalidated
<1>2. PICK r : r = Taken
  OBVIOUS
<1>3. faults \in Nat /\ faults' = faults
  BY <1>1 DEF Inv, RequestInv, RequestTypes
<1>4. "invalid" \in Ends /\ faults' \in Nat /\ faults' >= faults
  BY <1>3 DEF Ends
<1>5. Answered(r, "invalid")'
  BY DEF Answered
<1>6. RequestInv'
  BY <1>1, <1>2, <1>4, <1>5, DoneKeeps DEF Inv
<1> QED
  BY <1>1, <1>6, PageStays DEF Inv

LEMMA CallFailsKeeps == ASSUME Inv, CallFails PROVE Inv'
<1>1. /\ request # 0 /\ faults' = faults + 1
      /\ UNCHANGED <<config, pageVars, stateVars, hits>>
  BY DEF CallFails
<1>2. faults \in Nat
  BY DEF Inv, RequestInv, RequestTypes
<1>3. faults' \in Nat /\ faults' >= faults /\ faults' > 0
  BY <1>1, <1>2
<1>4. CASE step = "recover"
  <2>1. Done("paused")
    BY <1>4 DEF CallFails, AfterFault
  <2>2. PICK r : r = Taken
    OBVIOUS
  <2>3. "paused" \in Ends
    BY DEF Ends
  <2>4. Answered(r, "paused")'
    BY <1>3 DEF Answered
  <2>5. RequestInv'
    BY <1>1, <1>3, <2>1, <2>2, <2>3, <2>4, DoneKeeps DEF Inv
  <2> QED
    BY <1>1, <2>5, PageStays DEF Inv
<1>5. CASE step # "recover"
  <2>1. /\ step' = "recover" /\ body' = "original"
        /\ UNCHANGED <<requests, queue, request, answers>>
    BY <1>5 DEF CallFails, AfterFault
  <2>2. Prepared'
    BY <1>3, <2>1 DEF Prepared
  <2>3. RequestInv'
    BY <1>1, <1>3, <2>1, <2>2, CallKeeps DEF Inv
  <2> QED
    BY <1>1, <2>3, PageStays DEF Inv
<1> QED
  BY <1>4, <1>5

LEMMA Invariance == ASSUME Inv, [Next]_vars PROVE Inv'
<1>1. CASE TakeRequest
  <2>1. UNCHANGED <<pageVars, stateVars, hits>>
    BY <1>1 DEF TakeRequest
  <2> QED
    BY <1>1, <2>1, TakeKeeps, PageStays DEF Inv
<1>2. CASE GetBody
  BY <1>2, GetBodyKeeps
<1>3. CASE FulfillRequest
  BY <1>3, FulfillRequestKeeps
<1>4. CASE ContinueRequest
  BY <1>4, ContinueRequestKeeps
<1>5. CASE Invalidated
  BY <1>5, InvalidatedKeeps
<1>6. CASE CallFails
  BY <1>6, CallFailsKeeps
<1>7. CASE Navigate
  BY <1>7, NavigateKeeps
<1>8. CASE RequestScript
  BY <1>8, RequestScriptKeeps
<1>9. CASE Run
  <2>1. UNCHANGED <<config, requestVars, faults, latest, document>>
    BY <1>9 DEF Run
  <2> QED
    BY <1>9, <2>1, RunKeepsPage, RequestsStay DEF Inv
<1>10. CASE Capture
  <2>1. UNCHANGED <<config, requestVars, faults, latest, document>>
    BY <1>10 DEF Capture
  <2> QED
    BY <1>10, <2>1, CaptureKeepsPage, RequestsStay DEF Inv
<1>11. CASE UNCHANGED vars
  <2>1. /\ UNCHANGED <<config, requestVars, faults, latest, document>>
        /\ UNCHANGED <<pageVars, stateVars, hits>>
    BY <1>11 DEF vars, pageVars
  <2> QED
    BY <2>1, PageStays, RequestsStay DEF Inv
<1> QED
  BY <1>1, <1>2, <1>3, <1>4, <1>5, <1>6, <1>7, <1>8, <1>9, <1>10, <1>11
     DEF Next, Intercept, Page

(* Where Inv holds, everything that is promised does.                         *)
LEMMA InvMeans ==
    ASSUME Inv
    PROVE  TypeOK /\ EdgesAreMaxima /\ HashOfWhatRan /\ PageGetsWhatWasSent
<1>1. TypeOK
  <2>1. DOMAIN answers = DOMAIN requests /\ DOMAIN queue = 1..Len(queue)
    BY Lists, LenProperties DEF Inv, RequestInv
  <2>2. \A i \in DOMAIN queue : queue[i] \in DOMAIN requests
    BY <2>1, Lists DEF Inv, RequestInv
  <2>3. request \in {0} \cup DOMAIN requests
    BY Lists DEF Inv, RequestInv
  <2>4. /\ config \in [files : BOOLEAN, inline : BOOLEAN]
        /\ step \in {"none", "get body", "fulfill", "continue", "recover"}
        /\ (request = 0) = (step = "none")
        /\ body \in {"original", "instrumented"}
    BY DEF Inv, RequestInv, RequestTypes
  <2>5. window.exists => /\ window.current \in [Indices -> Counts]
                         /\ window.previous \in [Indices -> 0..8]
    BY NothingIsOpen DEF Inv, PageInv, PageTypes, Open, Buckets
  <2>6. edges \in [Indices -> 0..8]
    BY DEF Inv, PageInv, PageTypes, Buckets
  <2> QED
    BY <2>1, <2>2, <2>3, <2>4, <2>5, <2>6 DEF TypeOK, Inv, DocumentTypes
<1>2. PageGetsWhatWasSent
  BY AnsweredMeans DEF Inv, RequestInv
<1> QED
  BY <1>1, <1>2 DEF Inv, PageInv

LEMMA Invariant == Spec => []Inv
<1>1. Init => Inv
  BY RequestInit, PageInit DEF Inv
<1>2. Inv /\ [Next]_vars => Inv'
  BY Invariance
<1> QED
  BY <1>1, <1>2, PTL DEF Spec

-----------------------------------------------------------------------------
(* Types                                                                      *)
THEOREM TypeCorrect == Spec => []TypeOK
<1>1. Inv => TypeOK
  BY InvMeans
<1> QED
  BY <1>1, Invariant, PTL

(* The runner's edges are the largest buckets that any state had, although a  *)
(* state reports only what changed since the one before and every document    *)
(* has a map of its own (BrowserState::current, run_test).                    *)
THEOREM EdgesAreTheMaxima == Spec => []EdgesAreMaxima
<1>1. Inv => EdgesAreMaxima
  BY InvMeans
<1> QED
  BY <1>1, Invariant, PTL

(* A state's transition hash is that of the hits since the last state and in  *)
(* its document, and of no others (BrowserState::current).                    *)
THEOREM HashesAreOfWhatRan == Spec => []HashOfWhatRan
<1>1. Inv => HashOfWhatRan
  BY InvMeans
<1> QED
  BY <1>1, Invariant, PTL

(* A response comes to the page with hooks or as it was sent, as its status,  *)
(* its text and the configuration have it, whichever calls fail               *)
(* (instrument_js_coverage).                                                  *)
THEOREM PageGetsIt == Spec => []PageGetsWhatWasSent
<1>1. Inv => PageGetsWhatWasSent
  BY InvMeans
<1> QED
  BY <1>1, Invariant, PTL
=============================================================================
