--------------------------- MODULE DashboardProofs ---------------------------
(***************************************************************************)
(* UserDashboard, for any accounts, ids and calls of the rest of the       *)
(* world, any number of scans beside each other, and connections that come *)
(* and go.                                                                 *)
(***************************************************************************)
EXTENDS UserDashboard, TemplatePalletProofs, SequenceTheorems

USE DEF AllAccounts, CollectionId, ItemId, NftKey

------------------------------------------------------------------------------
(***************************************************************************)
(* The invariant of a scan: its bounds are above everything its account    *)
(* has owned all the time, and of that it has found what it went past.     *)
(***************************************************************************)
Scan == [at : {"nextCollectionId", "nextItemId", "nfts"}, of : Accounts, via : Nat \cup {NoApi},
         c : Nat, ends : Nat, item : Nat, itemsEnd : Nat,
         found : SUBSET NftKey, kept : SUBSET NftKey, ever : SUBSET NftKey]

Bounded(key) == key[1] < MaxCollectionId /\ key[2] < MaxItemId

\* The histories, whatever the query.
HistoryOK(s) == s.found \subseteq s.ever /\ s.kept \subseteq Owned(s.of) /\ Owned(s.of) \subseteq s.ever

\* Between two rounds of the outer loop.
RoundOK(s) ==
    \A key \in s.kept : Bounded(key) => key[1] < s.ends /\ (key[1] < s.c => key \in s.found)

\* In the inner loop.
ItemsOK(s) ==
    /\ s.item < s.itemsEnd
    /\ \A key \in s.kept : Bounded(key) /\ key[1] = s.c =>
           key[2] < s.itemsEnd /\ (key[2] < s.item => key \in s.found)

GoodScan(s) ==
    /\ HistoryOK(s)
    /\ s.at = "nextCollectionId" => s.c = 0
    /\ s.at = "nextItemId" => s.item = 0
    /\ s.at # "nextCollectionId" => RoundOK(s) /\ s.c < s.ends /\ s.ends <= MaxCollectionId
    /\ s.at = "nfts" => ItemsOK(s)

ScansOK == scans \in Seq(Scan) /\ \A i \in DOMAIN scans : GoodScan(scans[i])

PageOK == account \in Accounts /\ api \in Nat \cup {NoApi} /\ made \in Nat

DashboardInv == IdsInv /\ PageOK /\ ScansOK /\ ShowsWhatIKept /\ ShowsOnlyMine

------------------------------------------------------------------------------
(***************************************************************************)
(* What a step leaves alone.                                               *)
(***************************************************************************)
\* A step that is no call leaves the chain as it is.
LEMMA IdsStay == ASSUME IdsInv, UNCHANGED vars PROVE IdsInv'
  BY NextIdsInv

\* What is in storage is below the counters, in the range the scans read.
LEMMA StoredIsBelow ==
    ASSUME IdsInv, NEW key \in DOMAIN Nfts, Bounded(key)
    PROVE  key \in NftKey /\ key[1] < NextCollectionId /\ key[2] < NextItemId[key[1]]
  <1>1. key \in NftKey /\ key[1] \in CollectionId /\ key[2] \in ItemId
    BY DEF IdsInv, TypeOK
  <1> QED  BY <1>1, BoundsAssumption DEF IdsInv, IdsBelowCounters, Bounded

LEMMA OwnedIsKeys == ASSUME IdsInv, NEW who PROVE Owned(who) \in SUBSET NftKey
  BY DEF IdsInv, TypeOK, Owned, OwnedIn

\* A scan is as good as before while no NFT changes.
LEMMA ScanStays ==
    ASSUME UNCHANGED Nfts, NEW s, GoodScan(s)
    PROVE  GoodScan(s)'
  <1>1. HistoryOK(s)'
    BY DEF GoodScan, HistoryOK, Owned, OwnedIn
  <1> QED  BY <1>1 DEF GoodScan, RoundOK, ItemsOK, Bounded

\* The scans that are left when one is taken away.
LEMMA RemoveAtFacts ==
    ASSUME NEW S, NEW q \in Seq(S), NEW i \in 1 .. Len(q)
    PROVE  /\ Seqs!RemoveAt(q, i) \in Seq(S)
           /\ \A j \in DOMAIN Seqs!RemoveAt(q, i) : \E k \in DOMAIN q : Seqs!RemoveAt(q, i)[j] = q[k]
  <1>1. PICK n \in Nat : n = Len(q) /\ DOMAIN q = 1 .. n
    OBVIOUS
  <1>2. i \in Nat /\ 1 <= i /\ i <= n
    BY <1>1
  <1>3. PICK a \in Seq(S) : a = SubSeq(q, 1, i - 1) /\ Len(a) = i - 1 /\ \A j \in 1 .. i - 1 : a[j] = q[j]
    <2>1. \A j \in 1 .. i - 1 : q[j] \in S
      BY <1>1, <1>2
    <2>2. /\ SubSeq(q, 1, i - 1) \in Seq(S)
          /\ Len(SubSeq(q, 1, i - 1)) = i - 1
          /\ \A j \in 1 .. i - 1 : SubSeq(q, 1, i - 1)[j] = q[j]
      BY <1>2, <2>1, SubSeqProperties
    <2> QED  BY <2>2
  <1>4. PICK b \in Seq(S) : b = SubSeq(q, i + 1, n) /\ Len(b) = n - i /\ \A j \in 1 .. n - i : b[j] = q[i + j]
    <2>1. \A j \in i + 1 .. n : q[j] \in S
      BY <1>1, <1>2
    <2>2. /\ SubSeq(q, i + 1, n) \in Seq(S)
          /\ Len(SubSeq(q, i + 1, n)) = n - i
          /\ \A j \in 1 .. n - i : SubSeq(q, i + 1, n)[j] = q[i + j]
      BY <1>2, <2>1, SubSeqProperties
    <2> QED  BY <2>2
  <1>5. Seqs!RemoveAt(q, i) = a \o b
    BY <1>1, <1>3, <1>4 DEF Seqs!RemoveAt
  <1>6. /\ a \o b \in Seq(S) /\ Len(a \o b) = Len(a) + Len(b)
        /\ \A j \in 1 .. Len(a) + Len(b) : (a \o b)[j] = IF j <= Len(a) THEN a[j] ELSE b[j - Len(a)]
    BY ConcatProperties
  <1>7. Len(a) + Len(b) = n - 1 /\ DOMAIN (a \o b) = 1 .. n - 1
    <2>1. Len(a) + Len(b) = n - 1
      BY <1>2, <1>3, <1>4
    <2>2. DOMAIN (a \o b) = 1 .. Len(a \o b)
      BY <1>6
    <2> QED  BY <1>6, <2>1, <2>2
  <1>8. ASSUME NEW j \in 1 .. n - 1 PROVE \E k \in 1 .. n : (a \o b)[j] = q[k]
    <2>1. CASE j <= i - 1
      BY <1>2, <1>3, <1>6, <1>7, <2>1
    <2>2. CASE ~(j <= i - 1)
      <3>1. PICK k \in 1 .. n - i : k = j - (i - 1)
        BY <1>2, <2>2
      <3>2. (a \o b)[j] = b[k]
        BY <1>2, <1>3, <1>6, <1>7, <2>2, <3>1
      <3>3. b[k] = q[i + k] /\ i + k \in 1 .. n
        BY <1>2, <1>4, <3>1
      <3> QED  BY <3>2, <3>3
    <2> QED  BY <2>1, <2>2
  <1> QED  BY <1>1, <1>5, <1>6, <1>7, <1>8

\* Good scans stay good.
LEMMA ScansStayGood ==
    ASSUME UNCHANGED Nfts, scans' \in Seq(Scan), \A j \in DOMAIN scans' : GoodScan(scans'[j])
    PROVE  ScansOK'
  <1>1. ASSUME NEW j \in DOMAIN scans', NEW s, s = scans'[j] PROVE GoodScan(s)'
    BY <1>1, ScanStays
  <1> QED  BY <1>1 DEF ScansOK

\* One of them goes on, one is added, or one is taken away.
LEMMA ScansStay ==
    ASSUME ScansOK, UNCHANGED Nfts
    PROVE  /\ UNCHANGED scans => ScansOK'
           /\ \A i \in DOMAIN scans : \A s \in Scan :
                  scans' = [scans EXCEPT ![i] = s] /\ GoodScan(s) => ScansOK'
           /\ \A s \in Scan : scans' = Append(scans, s) /\ GoodScan(s) => ScansOK'
           /\ \A i \in DOMAIN scans : scans' = Seqs!RemoveAt(scans, i) => ScansOK'
  <1>0. scans \in Seq(Scan) /\ \A i \in DOMAIN scans : GoodScan(scans[i])
    BY DEF ScansOK
  <1>1. ASSUME UNCHANGED scans PROVE ScansOK'
    BY <1>0, <1>1, ScansStayGood
  <1>2. ASSUME NEW i \in DOMAIN scans, NEW s \in Scan, scans' = [scans EXCEPT ![i] = s], GoodScan(s)
        PROVE  ScansOK'
    <2>1. scans' \in Seq(Scan) /\ DOMAIN scans' = DOMAIN scans
      BY <1>0, <1>2
    <2>2. \A j \in DOMAIN scans' : GoodScan(scans'[j])
      BY <1>0, <1>2, <2>1
    <2> QED  BY <2>1, <2>2, ScansStayGood
  <1>3. ASSUME NEW s \in Scan, scans' = Append(scans, s), GoodScan(s) PROVE ScansOK'
    <2>1. /\ scans' \in Seq(Scan)
          /\ \A j \in DOMAIN scans' : scans'[j] = s \/ \E k \in DOMAIN scans : scans'[j] = scans[k]
      BY <1>0, <1>3
    <2>2. \A j \in DOMAIN scans' : GoodScan(scans'[j])
      BY <1>0, <1>3, <2>1
    <2> QED  BY <2>1, <2>2, ScansStayGood
  <1>4. ASSUME NEW i \in DOMAIN scans, scans' = Seqs!RemoveAt(scans, i) PROVE ScansOK'
    <2>1. scans' \in Seq(Scan) /\ \A j \in DOMAIN scans' : \E k \in DOMAIN scans : scans'[j] = scans[k]
      BY <1>0, <1>4, RemoveAtFacts
    <2>2. \A j \in DOMAIN scans' : GoodScan(scans'[j])
      BY <1>0, <2>1
    <2> QED  BY <2>1, <2>2, ScansStayGood
  <1> QED  BY <1>1, <1>2, <1>3, <1>4

------------------------------------------------------------------------------
(***************************************************************************)
(* A new scan, and the rounds of one under way.                            *)
(***************************************************************************)
LEMMA NewScanGood ==
    ASSUME IdsInv, PageOK, NEW who \in Accounts
    PROVE  NewScan(who, api) \in Scan /\ GoodScan(NewScan(who, api))
  <1> DEFINE s == NewScan(who, api)
  <1>1. s \in Scan
    BY OwnedIsKeys DEF NewScan, Scan, PageOK
  <1>2. s.at = "nextCollectionId" /\ s.c = 0 /\ s.of = who /\ s.found = {} /\ s.kept = Owned(who) /\ s.ever = Owned(who)
    BY DEF NewScan
  <1> HIDE DEF s
  <1>3. GoodScan(s)
    BY <1>2 DEF GoodScan, HistoryOK
  <1> QED  BY <1>1, <1>3 DEF s

\* Another round, or the end: what the account has kept is below the bound, so it was passed.
LEMMA NextRoundGood ==
    ASSUME ScansOK, ShowsWhatIKept, ShowsOnlyMine, UNCHANGED Nfts, NEW i \in DOMAIN scans, NEW s \in Scan,
           HistoryOK(s), RoundOK(s), s.ends <= MaxCollectionId, s.c <= s.ends, NextRound(i, s)
    PROVE  ScansOK' /\ ShowsWhatIKept' /\ ShowsOnlyMine'
  <1>1. CASE s.c < s.ends
    <2>1. PICK t : t = [s EXCEPT !.at = "nextItemId", !.item = 0, !.itemsEnd = 0]
      OBVIOUS
    <2>2. /\ t \in Scan /\ t.at = "nextItemId" /\ t.c = s.c /\ t.ends = s.ends /\ t.of = s.of
          /\ t.item = 0 /\ t.found = s.found /\ t.kept = s.kept /\ t.ever = s.ever
      BY <2>1 DEF Scan
    <2>3. GoodScan(t)
      BY <1>1, <2>2 DEF GoodScan, HistoryOK, RoundOK
    <2>4. scans' = [scans EXCEPT ![i] = t] /\ UNCHANGED <<userNFTs, source>>
      BY <1>1, <2>1 DEF NextRound, GoesOn
    <2>5. ScansOK'
      BY <2>2, <2>3, <2>4, ScansStay
    <2> QED  BY <2>4, <2>5 DEF ShowsWhatIKept, ShowsOnlyMine
  <1>2. CASE ~(s.c < s.ends)
    <2>1. /\ scans' = Seqs!RemoveAt(scans, i)
          /\ userNFTs' = s.found
          /\ source' = {[of |-> s.of, kept |-> s.kept, ever |-> s.ever]}
      BY <1>2 DEF NextRound
    <2>2. ScansOK'
      BY <2>1, ScansStay
    <2>3. s.c = s.ends
      BY <1>2 DEF Scan
    <2>4. \A key \in s.kept : Bounded(key) => key \in s.found
      BY <2>3 DEF RoundOK
    <2>5. ShowsWhatIKept'
      BY <2>1, <2>4 DEF ShowsWhatIKept, Bounded
    <2>6. ShowsOnlyMine'
      BY <2>1 DEF ShowsOnlyMine, HistoryOK
    <2> QED  BY <2>2, <2>5, <2>6
  <1> QED  BY <1>1, <1>2

\* nextCollectionId answers.
LEMMA CollectionsAnswered ==
    ASSUME DashboardInv, NEW i \in DOMAIN scans, nextCollectionId(i)
    PROVE  DashboardInv'
  <1>0. IdsInv /\ IdsInv' /\ PageOK' /\ UNCHANGED Nfts
    BY IdsStay DEF DashboardInv, nextCollectionId, NothingElse, PageOK, chainContextVars, vars
  <1>1. PICK s : s = [scans[i] EXCEPT !.ends = NextCollectionId]
    OBVIOUS
  <1>2. scans[i] \in Scan /\ GoodScan(scans[i]) /\ scans[i].at = "nextCollectionId"
    BY DEF DashboardInv, ScansOK, nextCollectionId, Answered
  <1>3. NextCollectionId \in Nat /\ NextCollectionId <= MaxCollectionId
    BY <1>0, BoundsAssumption DEF IdsInv, TypeOK
  <1>4. /\ s \in Scan /\ s.c = scans[i].c /\ s.ends = NextCollectionId /\ s.of = scans[i].of
        /\ s.found = scans[i].found /\ s.kept = scans[i].kept /\ s.ever = scans[i].ever
    BY <1>1, <1>2, <1>3 DEF Scan
  <1>5. HistoryOK(s) /\ s.c = 0
    BY <1>2, <1>4 DEF GoodScan, HistoryOK
  <1>6. RoundOK(s)
    <2> SUFFICES ASSUME NEW key \in s.kept, Bounded(key)
                 PROVE  key[1] < s.ends /\ (key[1] < s.c => key \in s.found)
      BY DEF RoundOK
    <2>1. key \in DOMAIN Nfts
      BY <1>5 DEF HistoryOK, Owned, OwnedIn
    <2>2. key \in NftKey /\ key[1] < NextCollectionId
      BY <1>0, <2>1, StoredIsBelow
    <2> QED  BY <1>4, <1>5, <2>2, BoundsAssumption
  <1>7. NextRound(i, s)
    BY <1>1 DEF nextCollectionId
  <1>8. s.ends <= MaxCollectionId /\ s.c <= s.ends
    BY <1>3, <1>4, <1>5
  <1> QED  BY <1>0, <1>4, <1>5, <1>6, <1>7, <1>8, NextRoundGood DEF DashboardInv

\* nextItemId answers.
LEMMA ItemsAnswered ==
    ASSUME DashboardInv, NEW i \in DOMAIN scans, nextItemId(i)
    PROVE  DashboardInv'
  <1>0. IdsInv /\ IdsInv' /\ PageOK' /\ UNCHANGED Nfts
    BY IdsStay DEF DashboardInv, nextItemId, NothingElse, PageOK, chainContextVars, vars
  <1>1. PICK o : o = scans[i]
    OBVIOUS
  <1>2. o \in Scan /\ GoodScan(o) /\ o.at = "nextItemId"
    BY <1>1 DEF DashboardInv, ScansOK, nextItemId, Answered
  <1>3. HistoryOK(o) /\ RoundOK(o) /\ o.c < o.ends /\ o.ends <= MaxCollectionId /\ o.c \in Nat /\ o.ends \in Nat
    BY <1>2 DEF GoodScan, Scan
  <1>4. PICK items : items = NextItemId[o.c]
    OBVIOUS
  <1>5. items \in Nat
    BY <1>0, <1>3, <1>4, BoundsAssumption DEF IdsInv, TypeOK
  <1>6. ASSUME NEW key \in o.kept, Bounded(key)
        PROVE  key \in NftKey /\ key[1] \in Nat /\ key[2] \in Nat /\ (key[1] = o.c => key[2] < items)
    <2>1. key \in DOMAIN Nfts
      BY <1>3 DEF HistoryOK, Owned, OwnedIn
    <2> QED  BY <1>0, <1>4, <1>6, <2>1, StoredIsBelow, BoundsAssumption
  <1>7. CASE items = 0
    <2>1. PICK s : s = [o EXCEPT !.c = @ + 1]
      OBVIOUS
    <2>2. /\ s \in Scan /\ s.c = o.c + 1 /\ s.ends = o.ends /\ s.of = o.of
          /\ s.found = o.found /\ s.kept = o.kept /\ s.ever = o.ever
      BY <1>2, <2>1 DEF Scan
    <2>3. NextRound(i, s)
      BY <1>1, <1>4, <1>7, <2>1 DEF nextItemId
    <2>4. HistoryOK(s)
      BY <1>3, <2>2 DEF HistoryOK
    <2>5. RoundOK(s)
      BY <1>3, <1>6, <1>7, <2>2 DEF RoundOK
    <2>6. s.ends <= MaxCollectionId /\ s.c <= s.ends
      BY <1>3, <2>2
    <2> QED  BY <1>0, <2>2, <2>3, <2>4, <2>5, <2>6, NextRoundGood DEF DashboardInv
  <1>8. CASE items # 0
    <2>1. PICK s : s = [o EXCEPT !.at = "nfts", !.itemsEnd = items]
      OBVIOUS
    <2>2. /\ s \in Scan /\ s.at = "nfts" /\ s.c = o.c /\ s.ends = o.ends /\ s.of = o.of /\ s.item = o.item
          /\ s.itemsEnd = items /\ s.found = o.found /\ s.kept = o.kept /\ s.ever = o.ever
      BY <1>2, <1>5, <2>1 DEF Scan
    <2>3. scans' = [scans EXCEPT ![i] = s] /\ UNCHANGED <<userNFTs, source>>
      BY <1>1, <1>4, <1>8, <2>1 DEF nextItemId, GoesOn
    <2>4. HistoryOK(s) /\ RoundOK(s)
      BY <1>3, <2>2 DEF HistoryOK, RoundOK
    <2>5. ItemsOK(s)
      BY <1>2, <1>5, <1>6, <1>8, <2>2 DEF ItemsOK, GoodScan
    <2>6. GoodScan(s)
      BY <1>3, <2>2, <2>4, <2>5 DEF GoodScan
    <2>7. ScansOK'
      BY <1>0, <2>2, <2>3, <2>6, ScansStay DEF DashboardInv
    <2> QED  BY <1>0, <2>3, <2>7 DEF DashboardInv, ShowsWhatIKept, ShowsOnlyMine
  <1> QED  BY <1>7, <1>8

\* nfts answers: the NFT is found if its owner has kept it.
LEMMA NftAnswered ==
    ASSUME DashboardInv, NEW i \in DOMAIN scans, nft(i)
    PROVE  DashboardInv'
  <1>0. IdsInv /\ IdsInv' /\ PageOK' /\ UNCHANGED Nfts
    BY IdsStay DEF DashboardInv, nft, NextItem, NothingElse, PageOK, chainContextVars, vars
  <1>1. PICK o : o = scans[i]
    OBVIOUS
  <1>2. o \in Scan /\ GoodScan(o) /\ o.at = "nfts"
    BY <1>1 DEF DashboardInv, ScansOK, nft, Answered
  <1>3. /\ HistoryOK(o) /\ RoundOK(o) /\ o.c < o.ends /\ o.ends <= MaxCollectionId /\ ItemsOK(o)
        /\ o.c \in Nat /\ o.ends \in Nat /\ o.item \in Nat /\ o.itemsEnd \in Nat
    BY <1>2 DEF GoodScan, Scan
  <1>4. PICK seen : seen = o.found \cup (Owned(o.of) \cap {<<o.c, o.item>>})
    OBVIOUS
  <1>5. seen \in SUBSET NftKey /\ o.found \subseteq seen /\ seen \subseteq o.ever
    BY <1>0, <1>2, <1>3, <1>4, OwnedIsKeys DEF HistoryOK, Scan
  <1>6. ASSUME NEW key \in o.kept, Bounded(key)
        PROVE  /\ key[1] \in Nat /\ key[2] \in Nat
               /\ key[1] = o.c => key[2] < o.itemsEnd /\ (key[2] < o.item + 1 => key \in seen)
    <2>1. key \in NftKey /\ key[1] \in Nat /\ key[2] \in Nat /\ key = <<key[1], key[2]>>
      BY <1>2, BoundsAssumption DEF Scan
    <2>2. key[1] = o.c => key[2] < o.itemsEnd /\ (key[2] < o.item => key \in o.found)
      BY <1>3, <1>6 DEF ItemsOK
    <2>3. key[1] = o.c /\ key[2] = o.item => key \in seen
      BY <1>3, <1>4, <2>1 DEF HistoryOK
    <2> QED  BY <1>3, <1>5, <2>1, <2>2, <2>3
  <1>7. PICK s : s = [o EXCEPT !.found = seen]
    OBVIOUS
  <1>8. /\ s \in Scan /\ s.at = "nfts" /\ s.c = o.c /\ s.ends = o.ends /\ s.of = o.of /\ s.item = o.item
        /\ s.itemsEnd = o.itemsEnd /\ s.found = seen /\ s.kept = o.kept /\ s.ever = o.ever
    BY <1>2, <1>5, <1>7 DEF Scan
  <1>9. CASE o.item + 1 < o.itemsEnd
    <2>1. PICK t : t = [s EXCEPT !.item = @ + 1]
      OBVIOUS
    <2>2. /\ t \in Scan /\ t.at = "nfts" /\ t.c = o.c /\ t.ends = o.ends /\ t.of = o.of /\ t.item = o.item + 1
          /\ t.itemsEnd = o.itemsEnd /\ t.found = seen /\ t.kept = o.kept /\ t.ever = o.ever
      BY <1>3, <1>8, <2>1 DEF Scan
    <2>3. scans' = [scans EXCEPT ![i] = t] /\ UNCHANGED <<userNFTs, source>>
      BY <1>1, <1>4, <1>7, <1>8, <1>9, <2>1 DEF nft, NextItem, GoesOn
    <2>4. HistoryOK(t) /\ RoundOK(t)
      BY <1>3, <1>5, <2>2 DEF HistoryOK, RoundOK
    <2>5. ItemsOK(t)
      BY <1>6, <1>9, <2>2 DEF ItemsOK
    <2>6. GoodScan(t)
      BY <1>3, <2>2, <2>4, <2>5 DEF GoodScan
    <2>7. ScansOK'
      BY <1>0, <2>2, <2>3, <2>6, ScansStay DEF DashboardInv
    <2> QED  BY <1>0, <2>3, <2>7 DEF DashboardInv, ShowsWhatIKept, ShowsOnlyMine
  <1>10. CASE ~(o.item + 1 < o.itemsEnd)
    <2>1. PICK t : t = [s EXCEPT !.c = @ + 1]
      OBVIOUS
    <2>2. /\ t \in Scan /\ t.c = o.c + 1 /\ t.ends = o.ends /\ t.of = o.of
          /\ t.found = seen /\ t.kept = o.kept /\ t.ever = o.ever
      BY <1>3, <1>8, <2>1 DEF Scan
    <2>3. NextRound(i, t)
      BY <1>1, <1>4, <1>7, <1>8, <1>10, <2>1 DEF nft, NextItem
    <2>4. HistoryOK(t)
      BY <1>3, <1>5, <2>2 DEF HistoryOK
    <2>5. RoundOK(t)
      <3> SUFFICES ASSUME NEW key \in o.kept, Bounded(key)
                   PROVE  key[1] < o.ends /\ (key[1] < o.c + 1 => key \in seen)
        BY <2>2 DEF RoundOK
      <3>1. key[1] < o.ends /\ (key[1] < o.c => key \in seen)
        BY <1>3, <1>5 DEF RoundOK
      <3>2. key[1] = o.c => key \in seen
        BY <1>3, <1>6, <1>10
      <3> QED  BY <1>3, <1>6, <3>1, <3>2
    <2>6. t.ends <= MaxCollectionId /\ t.c <= t.ends
      BY <1>3, <2>2
    <2> QED  BY <1>0, <2>2, <2>3, <2>4, <2>5, <2>6, NextRoundGood DEF DashboardInv
  <1> QED  BY <1>9, <1>10

------------------------------------------------------------------------------
(***************************************************************************)
(* The other steps.                                                        *)
(***************************************************************************)
\* A failed scan shows nothing new.
LEMMA FailedStep ==
    ASSUME DashboardInv, NEW i \in DOMAIN scans, loadFailed(i)
    PROVE  DashboardInv'
  <1>1. IdsInv' /\ PageOK' /\ UNCHANGED <<Nfts, userNFTs, source>>
    BY IdsStay DEF DashboardInv, loadFailed, NothingElse, PageOK, chainContextVars, vars
  <1>2. ScansOK'
    BY <1>1, ScansStay DEF loadFailed, DashboardInv
  <1> QED  BY <1>1, <1>2 DEF DashboardInv, ShowsWhatIKept, ShowsOnlyMine

\* The component is shown anew, taken away, or its effect runs again.
LEMMA MountSteps ==
    ASSUME DashboardInv, UNCHANGED vars, PageOK', NEW who \in Accounts,
           Mounted \/ Unmounted \/ Reloads(who)
    PROVE  DashboardInv'
  <1>0. IdsInv' /\ UNCHANGED Nfts /\ account \in Accounts /\ IdsInv /\ PageOK
    BY IdsStay DEF DashboardInv, PageOK, vars
  <1>1. CASE Mounted
    <2>1. PICK s : s = NewScan(account, api)
      OBVIOUS
    <2>2. s \in Scan /\ GoodScan(s)
      BY <1>0, <2>1, NewScanGood
    <2>3. scans' = <<s>> /\ userNFTs' = {} /\ source' = {}
      BY <1>1, <2>1 DEF Mounted
    <2>4. scans' \in Seq(Scan) /\ \A j \in DOMAIN scans' : scans'[j] = s
      BY <2>2, <2>3
    <2>5. ScansOK'
      BY <1>0, <2>2, <2>4, ScansStayGood
    <2> QED  BY <1>0, <2>3, <2>5 DEF DashboardInv, ShowsWhatIKept, ShowsOnlyMine
  <1>2. CASE Unmounted
    <2>1. scans' = <<>> /\ userNFTs' = {} /\ source' = {}
      BY <1>2 DEF Unmounted
    <2>2. ScansOK'
      BY <2>1 DEF ScansOK
    <2> QED  BY <1>0, <2>1, <2>2 DEF DashboardInv, ShowsWhatIKept, ShowsOnlyMine
  <1>3. CASE Reloads(who)
    <2>1. PICK s : s = NewScan(who, api)
      OBVIOUS
    <2>2. s \in Scan /\ GoodScan(s)
      BY <1>0, <2>1, NewScanGood
    <2>3. scans' = Append(scans, s) /\ UNCHANGED <<userNFTs, source>>
      BY <1>3, <2>1 DEF Reloads
    <2>4. ScansOK'
      BY <1>0, <2>2, <2>3, ScansStay DEF DashboardInv
    <2> QED  BY <1>0, <2>3, <2>4 DEF DashboardInv, ShowsWhatIKept, ShowsOnlyMine
  <1> QED  BY <1>1, <1>2, <1>3

\* What the account keeps shrinks with what it owns, what it has had grows.
LEMMA ChainStep ==
    ASSUME DashboardInv, chainMoves
    PROVE  DashboardInv'
  <1>1. IdsInv' /\ PageOK' /\ UNCHANGED <<userNFTs, source>>
    BY NextIdsInv DEF DashboardInv, chainMoves, PageOK, chainContextVars
  <1>2. \A who : OwnedIn(Nfts', who) \in SUBSET NftKey /\ OwnedIn(Nfts', who) = Owned(who)'
    BY <1>1 DEF IdsInv, TypeOK, OwnedIn, Owned
  <1>3. scans \in Seq(Scan) /\ \A i \in DOMAIN scans : GoodScan(scans[i])
    BY DEF DashboardInv, ScansOK
  <1>4. ASSUME NEW i \in DOMAIN scans, NEW t, t = scans'[i] PROVE t \in Scan /\ GoodScan(t)'
    <2>1. PICK o : o = scans[i]
      OBVIOUS
    <2>2. o \in Scan /\ GoodScan(o)
      BY <1>3, <2>1
    <2>3. PICK own : own = OwnedIn(Nfts', o.of)
      OBVIOUS
    <2>4. t = [o EXCEPT !.kept = @ \cap own, !.ever = @ \cup own]
      BY <1>4, <2>1, <2>3 DEF chainMoves
    <2>5. own \in SUBSET NftKey /\ own = Owned(o.of)'
      BY <1>2, <2>3
    <2>6. /\ t \in Scan /\ t.at = o.at /\ t.c = o.c /\ t.ends = o.ends /\ t.of = o.of /\ t.item = o.item
          /\ t.itemsEnd = o.itemsEnd /\ t.found = o.found
          /\ t.kept = o.kept \cap own /\ t.ever = o.ever \cup own
      BY <2>2, <2>4, <2>5 DEF Scan
    <2>7. HistoryOK(t)'
      BY <2>2, <2>5, <2>6 DEF GoodScan, HistoryOK
    <2>8. (RoundOK(o) => RoundOK(t)') /\ (ItemsOK(o) => ItemsOK(t)')
      BY <2>6 DEF RoundOK, ItemsOK, Bounded
    <2> QED  BY <2>2, <2>6, <2>7, <2>8 DEF GoodScan
  <1>5. scans' \in Seq(Scan) /\ DOMAIN scans' = DOMAIN scans
    <2>1. PICK n \in Nat : DOMAIN scans = 1 .. n
      BY <1>3
    <2>2. DOMAIN scans' = 1 .. n /\ scans' = [i \in 1 .. n |-> scans'[i]]
      BY <2>1 DEF chainMoves
    <2>3. \A i \in 1 .. n : scans'[i] \in Scan
      BY <1>4, <2>1
    <2> QED  BY <2>1, <2>2, <2>3
  <1>6. ScansOK'
    BY <1>4, <1>5 DEF ScansOK
  <1> QED  BY <1>1, <1>6 DEF DashboardInv, ShowsWhatIKept, ShowsOnlyMine

\* The user and an artist, with an NFT each.
LEMMA DashboardInvInit == DashboardInit => DashboardInv
  <1> SUFFICES ASSUME DashboardInit PROVE DashboardInv
    OBVIOUS
  <1> USE BoundsAssumption, BalanceAssumption, CollectorsAssumption
  <1>1. PICK list : list = [NoNfts EXCEPT ![0] = 1]
    OBVIOUS
  <1>2. list \in [ItemId -> Nat] /\ \A i \in ItemId : list[i] = IF i = 0 THEN 1 ELSE 0
    BY <1>1 DEF NoNfts
  <1>3. /\ DOMAIN Collections = {0, 1}
        /\ \A c \in {0, 1} : Collections[c] \in Collection /\ Collections[c].nfts = list
        /\ Collections = [c \in {0, 1} |-> Collections[c]]
    <2>1. Collections = [c \in {0, 1} |-> [creator |-> IF c = 0 THEN Me ELSE Artist, metadata |-> 0, nfts |-> list]]
      BY <1>1 DEF DashboardInit
    <2>2. \A c \in {0, 1} : Collections[c] = [creator |-> IF c = 0 THEN Me ELSE Artist, metadata |-> 0, nfts |-> list]
      BY <2>1
    <2>3. \A c \in {0, 1} : Collections[c] \in Collection
      BY <1>2, <2>2 DEF Collection
    <2> QED  BY <2>1, <2>2, <2>3
  <1>4. /\ DOMAIN Nfts = {<<0, 0>>, <<1, 0>>}
        /\ \A key \in DOMAIN Nfts : Nfts[key] \in NFT
        /\ Nfts = [key \in DOMAIN Nfts |-> Nfts[key]]
    BY DEF DashboardInit, NFT
  <1>5. NextItemId \in [CollectionId -> ItemId] /\ NextItemId[0] = 1 /\ NextItemId[1] = 1
    BY DEF DashboardInit
  <1>6. NextCollectionId = 2 /\ balance \in [AllAccounts -> Nat] /\ Artists = {Me, Artist}
    BY DEF DashboardInit
  <1>7. TypeOK
    BY <1>3, <1>4, <1>5, <1>6 DEF TypeOK
  <1>8. IdsBelowCounters /\ ListMatchesStorage /\ ListedOnce
    <2>1. \A c \in {0, 1}, i \in ItemId : Collections[c].nfts[i] = IF i = 0 THEN 1 ELSE 0
      BY <1>2, <1>3
    <2>2. IdsBelowCounters
      <3>1. ASSUME NEW c \in DOMAIN Collections
            PROVE  c < 2 /\ \A i \in ItemId : Collections[c].nfts[i] > 0 => i < NextItemId[c]
        BY <1>3, <1>5, <2>1
      <3>2. ASSUME NEW key \in DOMAIN Nfts PROVE key[1] < 2 /\ key[2] < NextItemId[key[1]]
        BY <1>4, <1>5
      <3> QED  BY <1>6, <3>1, <3>2 DEF IdsBelowCounters
    <2>3. ListMatchesStorage
      BY <1>3, <1>4, <2>1 DEF ListMatchesStorage
    <2>4. ListedOnce
      BY <1>3, <2>1 DEF ListedOnce
    <2> QED  BY <2>2, <2>3, <2>4
  <1>9. PageOK /\ ScansOK /\ ShowsWhatIKept /\ ShowsOnlyMine
    BY DEF DashboardInit, ChainInit, PageOK, ScansOK, ShowsWhatIKept, ShowsOnlyMine
  <1> QED  BY <1>7, <1>8, <1>9 DEF IdsInv, DashboardInv

------------------------------------------------------------------------------
(***************************************************************************)
(* The theorems.                                                           *)
(***************************************************************************)
\* One case per kind of step.
LEMMA DashboardInvNext == DashboardInv /\ [DashboardNext]_dashboardVars => DashboardInv'
  <1> SUFFICES ASSUME DashboardInv, [DashboardNext]_dashboardVars PROVE DashboardInv'
    OBVIOUS
  <1>0. account \in Accounts /\ PageOK
    BY DEF DashboardInv, PageOK
  <1>1. CASE UNCHANGED dashboardVars
    <2>1. IdsInv' /\ PageOK' /\ UNCHANGED <<Nfts, scans, userNFTs, source>>
      BY <1>1, IdsStay DEF DashboardInv, dashboardVars, PageOK, chainContextVars, page, vars
    <2>2. ScansOK'
      BY <2>1, ScansStay DEF DashboardInv
    <2> QED  BY <2>1, <2>2 DEF DashboardInv, ShowsWhatIKept, ShowsOnlyMine
  <1>2. CASE render
    <2>1. PageOK' /\ UNCHANGED vars
      BY <1>0, <1>2 DEF render, effect, PageOK
    <2>2. Mounted \/ Unmounted \/ Reloads(account)
      BY <1>2 DEF render
    <2> QED  BY <1>0, <2>1, <2>2, MountSteps
  <1>3. CASE connecting
    <2>1. UNCHANGED vars /\ UNCHANGED <<Nfts, scans, userNFTs, source>>
      BY <1>3 DEF connecting, page, vars
    <2>2. PageOK'
      BY <1>0, <1>3 DEF connecting, connected, connectFails, PageOK
    <2>3. IdsInv' /\ ScansOK'
      BY <2>1, IdsStay, ScansStay DEF DashboardInv
    <2> QED  BY <2>1, <2>2, <2>3 DEF DashboardInv, ShowsWhatIKept, ShowsOnlyMine
  <1>4. CASE openView
    <2>1. PageOK' /\ UNCHANGED vars /\ Mounted
      BY <1>0, <1>4 DEF openView, Click, chainContextVars, PageOK
    <2> QED  BY <1>0, <2>1, MountSteps
  <1>5. ASSUME NEW who \in Users, accountSelected(who) PROVE DashboardInv'
    <2>1. who \in Accounts
      BY DashboardAssumption
    <2>2. PageOK' /\ UNCHANGED vars /\ Reloads(who)
      BY <1>0, <1>5, <2>1 DEF accountSelected, Click, chainContextVars, PageOK
    <2> QED  BY <2>1, <2>2, MountSteps
  <1>6. ASSUME NEW i \in DOMAIN scans, ScanStep(i) PROVE DashboardInv'
    BY <1>6, CollectionsAnswered, ItemsAnswered, NftAnswered, FailedStep DEF ScanStep
  <1>7. CASE chainMoves
    BY <1>7, ChainStep
  <1> QED  BY <1>1, <1>2, <1>3, <1>4, <1>5, <1>6, <1>7 DEF DashboardNext

\* The inductive invariant of "My Collection".
THEOREM DashboardInvariant == DashboardSpec => []DashboardInv
  BY DashboardInvInit, DashboardInvNext, PTL DEF DashboardSpec

\* A scan misses nothing that its account has owned all the time, whatever the chain did meanwhile.
THEOREM ScanMissesNothingKept == DashboardSpec => []ShowsWhatIKept
  <1>1. DashboardInv => ShowsWhatIKept
    BY DEF DashboardInv
  <1> QED  BY DashboardInvariant, <1>1, PTL

\* Nothing is shown that the account of the scan has never owned since the scan began.
THEOREM NothingOfOthersShown == DashboardSpec => []ShowsOnlyMine
  <1>1. DashboardInv => ShowsOnlyMine
    BY DEF DashboardInv
  <1> QED  BY DashboardInvariant, <1>1, PTL

------------------------------------------------------------------------------
(***************************************************************************)
(* The connection, for any number of attempts beside each other.           *)
(***************************************************************************)
ConnectionInv ==
    /\ made \in Nat /\ initChains \in Nat /\ api \in Nat \cup {NoApi}
    /\ api = NoApi /\ effectApi = NoApi => error \/ (isConnecting /\ initChains > 0)
    /\ api # NoApi => api \in open

\* An attempt ends, or the effects of a render run.
LEMMA ConnectionStep == ConnectionInv /\ ChainNext => ConnectionInv'
  <1> SUFFICES ASSUME ConnectionInv, ChainNext PROVE ConnectionInv'
    OBVIOUS
  <1>1. CASE connected
    BY <1>1, ChainAssumption DEF connected, ConnectionInv
  <1>2. CASE connectFails
    BY <1>2 DEF connectFails, ConnectionInv
  <1>3. CASE effect
    <2>1. CASE api = NoApi
      BY <1>3, <2>1 DEF effect, Rendered, ConnectionInv
    <2>2. CASE api # NoApi
      BY <1>3, <2>2 DEF effect, Rendered, ConnectionInv
    <2> QED  BY <2>1, <2>2
  <1> QED  BY <1>1, <1>2, <1>3 DEF ChainNext

\* The other steps of the page leave the connection alone.
LEMMA ConnectionNext == ConnectionInv /\ [DashboardNext]_dashboardVars => ConnectionInv'
  <1> SUFFICES ASSUME ConnectionInv, [DashboardNext]_dashboardVars PROVE ConnectionInv'
    OBVIOUS
  <1>1. ChainNext \/ UNCHANGED chainContextVars
    BY DEF DashboardNext, dashboardVars, render, connecting, ChainNext, openView, accountSelected, Click,
           ScanStep, nextCollectionId, nextItemId, nft, NextItem, loadFailed, NothingElse, chainMoves
  <1>2. CASE UNCHANGED chainContextVars
    BY <1>2 DEF chainContextVars, ConnectionInv
  <1> QED  BY <1>1, <1>2, ConnectionStep

\* Whatever attempts succeed, fail or never end, beside each other: a page without an api shows
\* the failure or has an attempt under way, and a page with one has it open (ChainContext.tsx).
THEOREM ConnectionNeverLost == DashboardSpec => []ConnectionShown
  <1>1. DashboardInit => ConnectionInv
    BY DEF DashboardInit, ChainInit, ConnectionInv
  <1>2. ConnectionInv => ConnectionShown
    BY DEF ConnectionInv, ConnectionShown, Rendered, ChainStatus
  <1> QED  BY <1>1, <1>2, ConnectionNext, PTL DEF DashboardSpec

=============================================================================
