-------------------------- MODULE AuditViewsProofs --------------------------
(***************************************************************************)
(* Proofs about the audit views: what a settled view lists is as recent as *)
(* its opening, and nothing is shown that was not told.  A request carries *)
(* its own debt: an answer under way is of a table at least as long as the *)
(* one its view was promised, and an error without data has no request.    *)
(***************************************************************************)
EXTENDS AuditViews, ListingProofs

\* What is invariant of the query of one key.
KeyInv(k) ==
    /\ owed[k] \in 0 .. Len(trade_audit)
    /\ cache[k].fetch \in {"idle", "paused", "sent", "answered"}
    /\ cache[k].isError \in BOOLEAN
    /\ cache[k].data = NoData \/ Told(k, 0)
    /\ cache[k].fetch = "answered" =>
           \E m \in owed[k] .. Len(trade_audit) : cache[k].answer = Entries(k, m)
    /\ cache[k].isError /\ cache[k].data = NoData => cache[k].fetch = "idle"
    /\ observed(k) /\ cache[k].fetch = "idle" /\ ~cache[k].isError => Told(k, owed[k])

Shape ==
    /\ trade_audit \in Seq(Trades) /\ Len(trade_audit) <= MaxEntries
    /\ online \in BOOLEAN /\ view \in {"blotter", "audit"}
    /\ panel \in Clicked \cup {"none"}
    /\ cache = [k \in Keys |-> cache[k]] /\ owed = [k \in Keys |-> owed[k]]

AuditInv == Shape /\ \A k \in Keys : KeyInv(k)

-----------------------------------------------------------------------------
(* The table only grows: what was the answer when it held m entries is so   *)
(* for ever (an entry is inserted with the next id, and never changed).     *)

\* What an amendment adds to the table is added at its end.
LEMMA RecordAppends ==
    ASSUME trade_audit \in Seq(Trades), NEW t \in Trades, NEW columns \in Nat,
           trade_audit' = trade_audit \o [i \in 1 .. columns |-> t]
    PROVE  /\ trade_audit' \in Seq(Trades)
           /\ Len(trade_audit') = Len(trade_audit) + columns
           /\ \A i \in 1 .. Len(trade_audit) : trade_audit'[i] = trade_audit[i]
<1>1. [i \in 1 .. columns |-> t] \in Seq(Trades)
  OBVIOUS
<1>2. Len([i \in 1 .. columns |-> t]) = columns
  OBVIOUS
<1> QED
  BY <1>1, <1>2

\* What was the answer at some length of the table stays so.
LEMMA EntriesStay ==
    ASSUME NEW k, NEW m \in Nat, m <= Len(trade_audit), Len(trade_audit) \in Nat,
           \A i \in 1 .. Len(trade_audit) : trade_audit'[i] = trade_audit[i]
    PROVE  Entries(k, m)' = Entries(k, m)
<1>1. {i \in 1 .. m : trade_audit'[i] = k} = {i \in 1 .. m : trade_audit[i] = k}
  OBVIOUS
<1> QED
  BY <1>1 DEF Entries, findAuditHistory, findAllAuditEntries

-----------------------------------------------------------------------------
(* What a step does to one key                                              *)

\* A key nobody touches keeps its invariant while the table grows,
LEMMA Grows ==
    ASSUME NEW k, KeyInv(k), Len(trade_audit) \in Nat, Len(trade_audit') \in Nat,
           Len(trade_audit') >= Len(trade_audit),
           \A i \in 1 .. Len(trade_audit) : trade_audit'[i] = trade_audit[i],
           cache'[k] = cache[k], owed'[k] = owed[k], observed(k)' => observed(k)
    PROVE  KeyInv(k)'
<1>1. \A m \in 0 .. Len(trade_audit) : Entries(k, m)' = Entries(k, m)
  BY EntriesStay
<1>2. \A n \in 0 .. Len(trade_audit) : Told(k, n) => Told(k, n)'
  <2> SUFFICES ASSUME NEW n \in 0 .. Len(trade_audit), Told(k, n)
               PROVE  Told(k, n)'
    OBVIOUS
  <2>1. PICK m \in n .. Len(trade_audit) : cache[k].data = Entries(k, m)
    BY DEF Told
  <2>2. m \in n .. Len(trade_audit') /\ cache'[k].data = Entries(k, m)'
    BY <2>1, <1>1
  <2> QED
    BY <2>2 DEF Told
<1>3. Told(k, owed[k]) => Told(k, owed[k])'
  <2>1. owed[k]' = owed[k] /\ owed[k] \in 0 .. Len(trade_audit)
    BY DEF KeyInv
  <2> SUFFICES ASSUME Told(k, owed[k])
               PROVE  Told(k, owed[k])'
    OBVIOUS
  <2>2. PICK m \in owed[k] .. Len(trade_audit) : cache[k].data = Entries(k, m)
    BY DEF Told
  <2>3. m \in owed'[k] .. Len(trade_audit') /\ cache'[k].data = Entries(k, m)'
    BY <2>1, <2>2, <1>1
  <2> QED
    BY <2>3 DEF Told
<1>4. cache'[k].fetch = "answered" =>
          \E m \in owed'[k] .. Len(trade_audit') : cache'[k].answer = Entries(k, m)'
  <2> SUFFICES ASSUME cache[k].fetch = "answered"
               PROVE  \E m \in owed'[k] .. Len(trade_audit') :
                          cache'[k].answer = Entries(k, m)'
    OBVIOUS
  <2>1. PICK m \in owed[k] .. Len(trade_audit) : cache[k].answer = Entries(k, m)
    BY DEF KeyInv
  <2>2. m \in owed'[k] .. Len(trade_audit') /\ cache'[k].answer = Entries(k, m)'
    BY <2>1, <1>1 DEF KeyInv
  <2> QED
    BY <2>2
<1>5. cache'[k].data = NoData \/ Told(k, 0)'
  BY <1>2 DEF KeyInv, NoData
<1>6. owed'[k] \in 0 .. Len(trade_audit')
  BY DEF KeyInv
<1> QED
  BY <1>3, <1>4, <1>5, <1>6 DEF KeyInv, NoData

\* and all the more while it does not.
LEMMA Keeps ==
    ASSUME NEW k, KeyInv(k), trade_audit \in Seq(Trades), trade_audit' = trade_audit,
           cache'[k] = cache[k], owed'[k] = owed[k], observed(k)' => observed(k)
    PROVE  KeyInv(k)'
BY Grows

\* A request begins.
LEMMA Begins ==
    ASSUME NEW k, KeyInv(k), trade_audit \in Seq(Trades), trade_audit' = trade_audit,
           NEW f \in {"sent", "paused"}, cache'[k] = Attempt(cache[k], f),
           owed'[k] \in 0 .. Len(trade_audit)
    PROVE  KeyInv(k)'
<1>1. /\ cache'[k].data = cache[k].data
      /\ cache'[k].fetch = f
      /\ cache'[k].isError = (cache[k].isError /\ cache[k].data # NoData)
  BY DEF Attempt, Query
<1>2. \A m \in 0 .. Len(trade_audit) : Entries(k, m)' = Entries(k, m)
  BY EntriesStay
<1>3. Told(k, 0) => Told(k, 0)'
  BY <1>1, <1>2 DEF Told
<1> QED
  BY <1>1, <1>3 DEF KeyInv, NoData

\* A fetch begins a request or joins the one under way.
LEMMA Fetches ==
    ASSUME NEW k, KeyInv(k), trade_audit \in Seq(Trades), trade_audit' = trade_audit,
           cache'[k] = Fetch(cache[k]),
           owed'[k] = IF cache[k].fetch = "idle" THEN Len(trade_audit) ELSE owed[k]
    PROVE  KeyInv(k)'
<1>1. CASE cache[k].fetch = "idle"
  <2>1. PICK f \in {"sent", "paused"} : cache'[k] = Attempt(cache[k], f)
    BY <1>1 DEF Fetch, Begin
  <2> QED
    BY <1>1, <2>1, Begins
<1>2. CASE cache[k].fetch # "idle"
  <2>1. cache'[k] = cache[k] /\ owed'[k] = owed[k]
    BY <1>2 DEF Fetch
  <2>2. \A m \in 0 .. Len(trade_audit) : Entries(k, m)' = Entries(k, m)
    BY EntriesStay
  <2>3. Told(k, 0) => Told(k, 0)'
    BY <2>1, <2>2 DEF Told
  <2> QED
    BY <1>2, <2>1, <2>2, <2>3 DEF KeyInv, NoData
<1> QED
  BY <1>1, <1>2

-----------------------------------------------------------------------------
(* The invariant                                                            *)

\* Nothing is asked or owed at first.
LEMMA InitInv == AuditInit => AuditInv
<1> SUFFICES ASSUME AuditInit
             PROVE  AuditInv
  OBVIOUS
<1>1. Shape
  BY AuditAssumption DEF AuditInit, Shape
<1>2. ASSUME NEW k \in Keys
      PROVE  KeyInv(k)
  <2>1. /\ cache[k].data = NoData /\ cache[k].fetch = "idle"
        /\ cache[k].isError = FALSE /\ owed[k] = 0
    BY DEF AuditInit, NewQuery, Query
  <2>2. ~observed(k)
    BY AuditAssumption DEF AuditInit, observed, Keys
  <2>3. owed[k] \in 0 .. Len(trade_audit)
    BY <2>1 DEF AuditInit
  <2>4. cache[k].fetch \in {"idle", "paused", "sent", "answered"} /\ cache[k].fetch # "answered"
    BY <2>1
  <2>5. cache[k].isError \in BOOLEAN /\ ~cache[k].isError
    BY <2>1
  <2> QED
    BY <2>1, <2>2, <2>3, <2>4, <2>5 DEF KeyInv
<1> QED
  BY <1>1, <1>2 DEF AuditInv

\* Every step keeps the invariant of every key.
LEMMA NextInv == AuditInv /\ [AuditNext]_auditVars => AuditInv'
<1> SUFFICES ASSUME AuditInv, [AuditNext]_auditVars
             PROVE  AuditInv'
  OBVIOUS
<1> USE DEF shellVars
<1>0. /\ Shape /\ trade_audit \in Seq(Trades) /\ Len(trade_audit) \in Nat
      /\ \A k \in Keys : KeyInv(k)
  BY DEF AuditInv, Shape
<1>1. ASSUME NEW t \in Trades, NEW columns \in 1 .. MAX_FIELDS, Record(t, columns)
      PROVE  AuditInv'
  <2>1. /\ trade_audit' \in Seq(Trades)
        /\ Len(trade_audit') = Len(trade_audit) + columns
        /\ \A i \in 1 .. Len(trade_audit) : trade_audit'[i] = trade_audit[i]
    BY <1>0, <1>1, RecordAppends, AuditAssumption DEF Record
  <2>2. Shape'
    BY <1>0, <1>1, <2>1 DEF Record, Shape
  <2>3. \A k \in Keys : KeyInv(k)'
    BY <1>0, <1>1, <2>1, Grows, AuditAssumption DEF Record, observed
  <2> QED
    BY <2>2, <2>3 DEF AuditInv, Keys
<1>2. ASSUME NEW t \in Clicked, OpenPanel(t)
      PROVE  AuditInv'
  <2>1. t \in Keys /\ t # "feed" /\ t # "none"
    BY AuditAssumption DEF Keys
  <2>2. Shape'
    BY <1>0, <1>2 DEF OpenPanel, Wanted, Shape
  <2>3. ASSUME NEW k \in Keys
        PROVE  KeyInv(k)'
    <3>1. CASE k = t
      <4>1. /\ cache'[t] = Fetch(cache[t])
            /\ owed'[t] = IF cache[t].fetch = "idle" THEN Len(trade_audit) ELSE owed[t]
        BY <1>0, <1>2, <2>1 DEF OpenPanel, Wanted, Shape
      <4> QED
        BY <1>0, <1>2, <2>1, <3>1, <4>1, Fetches DEF OpenPanel
    <3>2. CASE k # t
      <4>1. cache'[k] = cache[k] /\ owed'[k] = owed[k]
        BY <1>0, <1>2, <3>2 DEF OpenPanel, Wanted, Shape
      <4>2. observed(k)' => observed(k)
        BY <1>2, <3>2 DEF OpenPanel, observed
      <4> QED
        BY <1>0, <1>2, <4>1, <4>2, Keeps DEF OpenPanel
    <3> QED
      BY <3>1, <3>2
  <2> QED
    BY <2>2, <2>3 DEF AuditInv, Keys
<1>3. ASSUME NEW v \in {"blotter", "audit"}, SetView(v)
      PROVE  AuditInv'
  <2>1. Shape'
    BY <1>0, <1>3 DEF SetView, Wanted, Shape
  <2>2. ASSUME NEW k \in Keys
        PROVE  KeyInv(k)'
    <3>1. CASE v = "audit" /\ k = "feed"
      <4>1. /\ cache'[k] = Fetch(cache[k])
            /\ owed'[k] = IF cache[k].fetch = "idle" THEN Len(trade_audit) ELSE owed[k]
        BY <1>0, <1>3, <3>1 DEF SetView, Wanted, Shape, Keys
      <4> QED
        BY <1>0, <1>3, <4>1, Fetches DEF SetView
    <3>2. CASE ~(v = "audit" /\ k = "feed")
      <4>1. cache'[k] = cache[k] /\ owed'[k] = owed[k]
        BY <1>0, <1>3, <3>2 DEF SetView, Wanted, Shape
      <4>2. observed(k)' => observed(k)
        BY <1>3, <3>2 DEF SetView, observed
      <4> QED
        BY <1>0, <1>3, <4>1, <4>2, Keeps DEF SetView
    <3> QED
      BY <3>1, <3>2
  <2> QED
    BY <2>1, <2>2 DEF AuditInv, Keys
<1>4. CASE ClosePanel
  <2>1. Shape'
    BY <1>0, <1>4 DEF ClosePanel, Shape
  <2>2. ASSUME NEW k \in Keys
        PROVE  KeyInv(k)'
    <3>1. observed(k)' => observed(k)
      BY <1>4, AuditAssumption DEF ClosePanel, observed, Keys
    <3> QED
      BY <1>0, <1>4, <3>1, Keeps DEF ClosePanel
  <2> QED
    BY <2>1, <2>2 DEF AuditInv, Keys
<1>5. CASE Focus
  <2>1. Shape'
    BY <1>0, <1>5 DEF Focus, Shape
  <2>2. ASSUME NEW k \in Keys
        PROVE  KeyInv(k)'
    <3>1. owed'[k] = owed[k] /\ (observed(k)' <=> observed(k))
      BY <1>5 DEF Focus, observed
    <3>2. CASE observed(k) /\ cache[k].fetch = "idle"
      <4>1. PICK f \in {"sent", "paused"} : cache'[k] = Attempt(cache[k], f)
        BY <1>5, <3>2 DEF Focus, Fetch, Begin
      <4> QED
        BY <1>0, <1>5, <3>1, <4>1, Begins DEF Focus, KeyInv
    <3>3. CASE ~(observed(k) /\ cache[k].fetch = "idle")
      <4>1. cache'[k] = cache[k]
        BY <1>5, <3>3 DEF Focus, Fetch
      <4> QED
        BY <1>0, <1>5, <3>1, <4>1, Keeps DEF Focus
    <3> QED
      BY <3>2, <3>3
  <2> QED
    BY <2>1, <2>2 DEF AuditInv, Keys
<1>6. CASE GoOffline
  <2>1. Shape'
    BY <1>0, <1>6 DEF GoOffline, Shape
  <2>2. \A k \in Keys : KeyInv(k)'
    BY <1>0, <1>6, Keeps DEF GoOffline, observed
  <2> QED
    BY <2>1, <2>2 DEF AuditInv, Keys
<1>7. CASE GoOnline
  <2>1. Shape'
    BY <1>0, <1>7 DEF GoOnline, Shape
  <2>2. ASSUME NEW k \in Keys
        PROVE  KeyInv(k)'
    <3>1. owed'[k] = owed[k] /\ (observed(k)' <=> observed(k))
      BY <1>7 DEF GoOnline, observed
    <3>2. CASE resumes(k)
      BY <1>0, <1>7, <3>1, <3>2, Begins DEF GoOnline, KeyInv
    <3>3. CASE ~resumes(k)
      BY <1>0, <1>7, <3>1, <3>3, Keeps DEF GoOnline
    <3> QED
      BY <3>2, <3>3
  <2> QED
    BY <2>1, <2>2 DEF AuditInv, Keys
<1>8. ASSUME NEW j \in Keys,
             \/ AnswerQuery(j) \/ Succeed(j) \/ Fail(j) \/ Collect(j) \/ Retry(j)
      PROVE  AuditInv'
  <2>1. Shape'
    BY <1>0, <1>8 DEF AnswerQuery, Succeed, Fail, Collect, Retry, Shape
  <2>2. ASSUME NEW k \in Keys, k # j
        PROVE  KeyInv(k)'
    <3>1. /\ cache'[k] = cache[k] /\ owed'[k] = owed[k] /\ trade_audit' = trade_audit
          /\ observed(k)' => observed(k)
      BY <1>0, <1>8, <2>2
         DEF AnswerQuery, Succeed, Fail, Collect, Retry, Shape, observed
    <3> QED
      BY <1>0, <3>1, Keeps
  <2>3. trade_audit' = trade_audit
    BY <1>8 DEF AnswerQuery, Succeed, Fail, Collect, Retry
  <2>4. \A m \in 0 .. Len(trade_audit) : Entries(j, m)' = Entries(j, m)
    BY <1>0, <2>3, EntriesStay
  <2>5. ASSUME AnswerQuery(j)
        PROVE  KeyInv(j)'
    <3>1. /\ cache'[j].data = cache[j].data /\ cache'[j].isError = cache[j].isError
          /\ cache'[j].fetch = "answered"
          /\ cache'[j].answer = Entries(j, Len(trade_audit)) /\ owed'[j] = owed[j]
      BY <1>0, <2>5 DEF AnswerQuery, Shape, Query
    <3>2. Told(j, 0) => Told(j, 0)'
      BY <2>3, <2>4, <3>1 DEF Told
    <3>3. \E m \in owed'[j] .. Len(trade_audit') : cache'[j].answer = Entries(j, m)'
      BY <1>0, <2>3, <2>4, <3>1 DEF KeyInv
    <3>4. ~(cache'[j].isError /\ cache'[j].data = NoData)
      BY <1>0, <2>5, <3>1 DEF AnswerQuery, KeyInv
    <3> QED
      BY <1>0, <2>3, <3>1, <3>2, <3>3, <3>4 DEF KeyInv, NoData
  <2>6. ASSUME Succeed(j)
        PROVE  KeyInv(j)'
    <3>1. /\ cache'[j].data = cache[j].answer /\ cache'[j].isError = FALSE
          /\ cache'[j].fetch = "idle" /\ owed'[j] = owed[j]
      BY <1>0, <2>6 DEF Succeed, Shape, Query
    <3>2. PICK m \in owed[j] .. Len(trade_audit) : cache[j].answer = Entries(j, m)
      BY <1>0, <2>6 DEF Succeed, KeyInv
    <3>3. owed[j] \in 0 .. Len(trade_audit) /\ m \in 0 .. Len(trade_audit)
      BY <1>0, <3>2 DEF KeyInv
    <3>4. cache'[j].data = Entries(j, m)'
      BY <2>4, <3>1, <3>2, <3>3
    <3>5. Told(j, 0)' /\ Told(j, owed[j])'
      BY <1>0, <2>3, <3>1, <3>2, <3>3, <3>4 DEF Told
    <3> QED
      BY <2>3, <3>1, <3>3, <3>5 DEF KeyInv
  <2>7. ASSUME Fail(j)
        PROVE  KeyInv(j)'
    <3>1. /\ cache'[j].data = cache[j].data /\ cache'[j].isError = TRUE
          /\ cache'[j].fetch = "idle" /\ owed'[j] = owed[j]
      BY <1>0, <2>7 DEF Fail, Shape, Query
    <3>2. Told(j, 0) => Told(j, 0)'
      BY <2>3, <2>4, <3>1 DEF Told
    <3> QED
      BY <1>0, <2>3, <3>1, <3>2 DEF KeyInv, NoData
  <2>8. ASSUME Collect(j)
        PROVE  KeyInv(j)'
    <3>1. /\ cache'[j].data = NoData /\ cache'[j].isError = FALSE
          /\ cache'[j].fetch = "idle" /\ owed'[j] = owed[j] /\ ~observed(j)'
      BY <1>0, <2>8 DEF Collect, Shape, NewQuery, Query, observed
    <3> QED
      BY <1>0, <2>3, <3>1 DEF KeyInv, NoData
  <2>9. ASSUME Retry(j)
        PROVE  KeyInv(j)'
    <3>1. cache'[j] = Refetch(cache[j]) /\ owed'[j] = Len(trade_audit)
      BY <1>0, <2>9 DEF Retry, Shape
    <3>2. PICK f \in {"sent", "paused"} : cache'[j] = Attempt(cache[j], f)
      BY <1>0, <2>9, <3>1 DEF Retry, Refetch, Fetch, Begin, KeyInv
    <3> QED
      BY <1>0, <2>3, <3>1, <3>2, Begins
  <2>10. KeyInv(j)'
    BY <1>8, <2>5, <2>6, <2>7, <2>8, <2>9
  <2> QED
    BY <2>1, <2>2, <2>10 DEF AuditInv, Keys
<1>9. CASE UNCHANGED auditVars
  <2>1. Shape'
    BY <1>0, <1>9 DEF auditVars, Shape
  <2>2. \A k \in Keys : KeyInv(k)'
    BY <1>0, <1>9, Keeps DEF auditVars, observed
  <2> QED
    BY <2>1, <2>2 DEF AuditInv, Keys
<1> QED
  BY <1>1, <1>2, <1>3, <1>4, <1>5, <1>6, <1>7, <1>8, <1>9 DEF AuditNext

\* The types, and the debt of each request, in every reachable state of the query
\* cache (useAuditHistory.ts, useAuditFeed.ts).
THEOREM AuditInvariant == AuditSpec => []AuditInv
BY InitInv, NextInv, PTL DEF AuditSpec

-----------------------------------------------------------------------------

\* Every variable has its type, for every table and every set of trades.
THEOREM AuditTypeCorrect == AuditSpec => []AuditTypeOK
<1>1. ASSUME AuditInv
      PROVE  AuditTypeOK
  <2>1. \A k \in Keys : owed[k] \in 0 .. MaxEntries
    BY <1>1, AuditAssumption DEF AuditInv, Shape, KeyInv
  <2>2. owed \in [Keys -> 0 .. MaxEntries] /\ DOMAIN cache = Keys
    BY <1>1, <2>1 DEF AuditInv, Shape
  <2> QED
    BY <1>1, <2>2 DEF AuditInv, Shape, KeyInv, AuditTypeOK
<1> QED
  BY <1>1, AuditInvariant, PTL

\* A settled view lists every entry there was when it was opened, whatever
\* happened to its requests (useAuditHistory.ts, useAuditFeed.ts over the cache).
THEOREM SettledViewsCatchUp == AuditSpec => []SettledViewsAreCurrent
<1>1. AuditInv => SettledViewsAreCurrent
  BY DEF AuditInv, KeyInv, SettledViewsAreCurrent
<1> QED
  BY <1>1, AuditInvariant, PTL

\* A view lists only what the server told it, and denies amendments without an
\* error beside it only when told so or while paused (AuditBody, AuditView).
THEOREM ViewsShowWhatTheyWereTold == AuditSpec => []WhatIsShownWasTold
<1>1. ASSUME AuditInv, NEW k \in Keys, observed(k), Claims(k), cache[k].fetch # "paused"
      PROVE  Told(k, 0)
  <2>1. KeyInv(k)
    BY <1>1 DEF AuditInv
  <2>2. CASE cache[k].data # NoData
    BY <2>1, <2>2 DEF KeyInv
  <2>3. CASE cache[k].data = NoData
    <3>1. ~isLoading(k)
      BY <1>1 DEF Claims, AuditBody
    <3>2. ~cache[k].isError
      BY <1>1, <2>3, <3>1 DEF Claims, AuditBody
    <3>3. cache[k].fetch = "idle"
      BY <1>1, <2>1, <2>3, <3>1, <3>2 DEF isLoading, KeyInv
    <3>4. Told(k, owed[k]) /\ owed[k] \in 0 .. Len(trade_audit)
      BY <1>1, <2>1, <3>2, <3>3 DEF KeyInv
    <3> QED
      BY <3>4 DEF Told
  <2> QED
    BY <2>2, <2>3
<1>2. AuditInv => WhatIsShownWasTold
  BY <1>1 DEF WhatIsShownWasTold, AuditInv
<1> QED
  BY <1>2, AuditInvariant, PTL

-----------------------------------------------------------------------------
(* An answer under way is of a later table than the data it will replace    *)

\* The newest entry stands first.
LEMMA NewestFirst ==
    ASSUME NEW S \in SUBSET Nat, IsFiniteSet(S)
    PROVE  /\ Descending(S) \in Seq(S)
           /\ S = {} => Descending(S) = <<>>
           /\ S # {} => /\ Descending(S) # <<>> /\ Head(Descending(S)) \in S
                        /\ \A i \in S : i <= Head(Descending(S))
<1> DEFINE R == {p \in S \X S : p[1] > p[2]}
           L == Listed(S, R)
           N == Cardinality(S)
<1>1. StrictOrder(S, R)
  <2>1. \A x \in S : x \in Nat
    OBVIOUS
  <2> QED
    BY <2>1 DEF StrictOrder
<1>2. Descending(S) = L
  BY DEF Descending
<1> HIDE DEF R
<1>3. /\ L \in Seq(S) /\ Len(L) = N /\ N \in Nat
      /\ \A x \in S : \E n \in 1 .. N : L[n] = x
      /\ \A m, n \in 1 .. N : m < n => <<L[m], L[n]>> \in R
  BY <1>1, ListedIsTheOrder
<1> HIDE DEF L, N
<1>4. CASE S = {}
  <2>1. \A n \in 1 .. N : L[n] \in S
    BY <1>3
  <2>2. N = 0
    BY <1>3, <1>4, <2>1
  <2> QED
    BY <1>2, <1>3, <1>4, <2>2
<1>5. CASE S # {}
  <2>1. N >= 1
    <3>1. PICK x \in S : TRUE
      BY <1>5
    <3>2. PICK n \in 1 .. N : L[n] = x
      BY <1>3, <3>1
    <3> QED
      BY <1>3, <3>2
  <2>2. L # <<>> /\ Head(L) = L[1] /\ L[1] \in S
    BY <1>3, <2>1
  <2>3. ASSUME NEW i \in S PROVE i <= L[1]
    <3>1. PICK n \in 1 .. N : L[n] = i
      BY <1>3
    <3>2. CASE n = 1
      BY <3>1, <3>2
    <3>3. CASE n # 1
      <4>1. <<L[1], L[n]>> \in R
        BY <1>3, <2>1, <3>3
      <4> QED
        <5>1. L[1] \in Nat /\ i \in Nat
          BY <2>2
        <5>2. L[1] > L[n]
          BY <4>1 DEF R
        <5> QED
          BY <3>1, <5>1, <5>2
    <3> QED
      BY <3>2, <3>3
  <2> QED
    BY <1>2, <1>3, <1>5, <2>2, <2>3
<1> QED
  BY <1>4, <1>5

\* The ids an answer about a key names when the table holds n entries.
Named(k, n) == IF k = "feed" THEN Max({0, n - FEED_LIMIT}) + 1 .. n
               ELSE {i \in 1 .. n : trade_audit[i] = k}

\* What the two endpoints answer is a finite set of entries, the latest first.
LEMMA NamedEntries ==
    ASSUME NEW k, NEW n \in Nat
    PROVE  /\ Named(k, n) \in SUBSET (1 .. n) /\ IsFiniteSet(Named(k, n))
           /\ Entries(k, n) = Descending(Named(k, n))
           /\ k = "feed" /\ n > 0 => n \in Named(k, n)
<1> DEFINE cut == Max({0, n - FEED_LIMIT})
<1>1. FEED_LIMIT \in Nat \ {0}
  BY AuditAssumption
<1>2. \E x \in {0, n - FEED_LIMIT} : \A y \in {0, n - FEED_LIMIT} : x >= y
  BY <1>1
<1>3. cut \in {0, n - FEED_LIMIT} /\ \A y \in {0, n - FEED_LIMIT} : cut >= y
  BY <1>2 DEF Max
<1>4. cut \in Nat /\ (n > 0 => cut < n)
  BY <1>1, <1>3
<1> HIDE DEF cut
<1>5. Named(k, n) \in SUBSET (1 .. n)
  BY <1>4 DEF Named, cut
<1>6. IsFiniteSet(1 .. n)
  BY FS_Interval
<1>7. IsFiniteSet(Named(k, n))
  BY <1>5, <1>6, FS_Subset
<1>8. Entries(k, n) = Descending(Named(k, n))
  BY DEF Entries, Named, findAllAuditEntries, findAuditHistory
<1>9. k = "feed" /\ n > 0 => n \in Named(k, n)
  BY <1>4 DEF Named, cut
<1> QED
  BY <1>5, <1>7, <1>8, <1>9

\* A later answer about a key takes nothing back.
LEMMA LaterIsNewer ==
    ASSUME NEW k, NEW m \in Nat, NEW n \in Nat, m <= n
    PROVE  /\ Entries(k, n) # NoData
           /\ Entries(k, m) # <<>> =>
                 /\ Entries(k, n) # <<>>
                 /\ Head(Entries(k, n)) >= Head(Entries(k, m))
<1> DEFINE A == Named(k, m)
           B == Named(k, n)
<1>1. /\ A \in SUBSET (1 .. m) /\ IsFiniteSet(A) /\ Entries(k, m) = Descending(A)
      /\ B \in SUBSET (1 .. n) /\ IsFiniteSet(B) /\ Entries(k, n) = Descending(B)
  BY NamedEntries
<1>2. ASSUME A # {} PROVE B # {} /\ \A i \in A : \E j \in B : i <= j
  <2>1. CASE k = "feed"
    <3>1. m > 0 /\ n > 0
      BY <1>1, <1>2
    <3>2. n \in B
      BY <2>1, <3>1, NamedEntries
    <3> QED
      BY <1>1, <3>2
  <2>2. CASE k # "feed"
    <3>1. A \subseteq B
      BY <2>2 DEF Named
    <3>2. \A i \in A : i <= i
      BY <1>1
    <3> QED
      BY <1>2, <3>1, <3>2
  <2> QED
    BY <2>1, <2>2
<1>3. A \in SUBSET Nat /\ B \in SUBSET Nat
  BY <1>1
<1> HIDE DEF A, B
<1>4. /\ Descending(A) \in Seq(A)
      /\ A = {} => Descending(A) = <<>>
      /\ A # {} => Descending(A) # <<>> /\ Head(Descending(A)) \in A
                     /\ \A i \in A : i <= Head(Descending(A))
  BY <1>1, <1>3, NewestFirst
<1>5. /\ Descending(B) \in Seq(B)
      /\ B = {} => Descending(B) = <<>>
      /\ B # {} => Descending(B) # <<>> /\ Head(Descending(B)) \in B
                     /\ \A i \in B : i <= Head(Descending(B))
  BY <1>1, <1>3, NewestFirst
<1>6. Descending(B) # NoData
  <2>1. 0 \notin B
    BY <1>1
  <2>2. NoData[1] = 0 /\ NoData # <<>> /\ Head(NoData) = 0
    BY DEF NoData
  <2> QED
    BY <1>5, <2>1, <2>2
<1>7. ASSUME Descending(A) # <<>>
      PROVE  Descending(B) # <<>> /\ Head(Descending(B)) >= Head(Descending(A))
  <2>1. A # {} /\ Head(Descending(A)) \in A
    BY <1>4, <1>7
  <2>2. PICK j \in B : Head(Descending(A)) <= j
    BY <1>2, <2>1
  <2>3. Descending(B) # <<>> /\ j <= Head(Descending(B)) /\ Head(Descending(B)) \in B
    BY <1>5, <2>2
  <2> QED
    <3>1. /\ Head(Descending(A)) \in Nat /\ Head(Descending(B)) \in Nat /\ j \in Nat
      BY <1>3, <2>1, <2>2, <2>3
    <3> QED
      BY <2>2, <2>3, <3>1
<1> QED
  BY <1>1, <1>6, <1>7

\* What a step does to the query of one key.
LEMMA QueryMoves ==
    ASSUME AuditInv, [AuditNext]_auditVars, NEW k \in Keys
    PROVE  \/ /\ cache'[k].data = cache[k].data
              /\ cache'[k].fetch = "answered" => /\ cache[k].fetch = "answered"
                                                 /\ cache'[k].answer = cache[k].answer
           \/ AnswerQuery(k) \/ Succeed(k) \/ Collect(k)
<1> DEFINE Goal == \/ /\ cache'[k].data = cache[k].data
                      /\ cache'[k].fetch = "answered" => /\ cache[k].fetch = "answered"
                                                         /\ cache'[k].answer = cache[k].answer
                   \/ AnswerQuery(k) \/ Succeed(k) \/ Collect(k)
<1>1. cache = [j \in Keys |-> cache[j]]
  BY DEF AuditInv, Shape
<1>2. ASSUME cache'[k] = cache[k] PROVE Goal
  BY <1>2
<1>3. ASSUME NEW f \in {"sent", "paused"}, cache'[k] = Attempt(cache[k], f) PROVE Goal
  BY <1>3 DEF Attempt, Query
<1>4. ASSUME cache'[k] = Begin(cache[k]) PROVE Goal
  BY <1>3, <1>4 DEF Begin
<1>5. ASSUME cache'[k] = Fetch(cache[k]) PROVE Goal
  BY <1>2, <1>4, <1>5 DEF Fetch
<1>6. ASSUME cache'[k] = Refetch(cache[k]) PROVE Goal
  BY <1>4, <1>5, <1>6 DEF Refetch
<1> HIDE DEF Goal
<1>7. CASE \E t \in Trades : \E columns \in 1 .. MAX_FIELDS : Record(t, columns)
  BY <1>2, <1>7 DEF Record
<1>8. CASE \E t \in Clicked : OpenPanel(t)
  <2>1. PICK t \in Clicked : OpenPanel(t)
    BY <1>8
  <2>2. t \in Keys /\ cache' = [cache EXCEPT ![t] = Fetch(cache[t])]
    BY <2>1 DEF OpenPanel, Keys
  <2>3. cache'[k] = cache[k] \/ cache'[k] = Fetch(cache[k])
    BY <1>1, <2>2
  <2> QED
    BY <1>2, <1>5, <2>3 DEF Goal
<1>9. CASE \E v \in {"blotter", "audit"} : SetView(v)
  <2>1. "feed" \in Keys
    BY DEF Keys
  <2>2. cache' = cache \/ cache' = [cache EXCEPT !["feed"] = Fetch(cache["feed"])]
    BY <1>9 DEF SetView
  <2>3. cache'[k] = cache[k] \/ cache'[k] = Fetch(cache[k])
    BY <1>1, <2>1, <2>2
  <2> QED
    BY <1>2, <1>5, <2>3 DEF Goal
<1>10. CASE ClosePanel \/ GoOffline \/ UNCHANGED auditVars
  BY <1>2, <1>10 DEF ClosePanel, GoOffline, auditVars
<1>11. CASE Focus
  <2>1. cache'[k] = cache[k] \/ cache'[k] = Fetch(cache[k])
    BY <1>11 DEF Focus
  <2> QED
    BY <1>2, <1>5, <2>1 DEF Goal
<1>12. CASE GoOnline
  <2>1. cache'[k] = cache[k] \/ cache'[k] = Attempt(cache[k], "sent")
    BY <1>12 DEF GoOnline
  <2> QED
    BY <1>2, <1>3, <2>1 DEF Goal
<1>13. ASSUME NEW j \in Keys,
              AnswerQuery(j) \/ Succeed(j) \/ Fail(j) \/ Collect(j) \/ Retry(j)
       PROVE  Goal
  <2>1. CASE j # k
    <3>1. cache'[k] = cache[k]
      BY <1>1, <1>13, <2>1 DEF AnswerQuery, Succeed, Fail, Collect, Retry
    <3> QED
      BY <1>2, <3>1
  <2>2. CASE j = k /\ Fail(k)
    <3>1. cache'[k] = Query(cache[k].data, TRUE, "idle", <<>>)
      BY <1>1, <2>2 DEF Fail
    <3> QED
      BY <3>1 DEF Query, Goal
  <2>3. CASE j = k /\ Retry(k)
    BY <1>1, <1>6, <2>3 DEF Retry
  <2> QED
    BY <1>13, <2>1, <2>2, <2>3 DEF Goal
<1> QED
  BY <1>7, <1>8, <1>9, <1>10, <1>11, <1>12, <1>13 DEF AuditNext, Goal

\* One fetch per key, and the table only grows: what an answer under way says
\* is of a table at least as long as what the cache holds.
AnswerIsLater ==
    \A k \in Keys : cache[k].fetch = "answered" /\ cache[k].data # NoData =>
        \E m, n \in 0 .. Len(trade_audit) :
            m <= n /\ cache[k].data = Entries(k, m) /\ cache[k].answer = Entries(k, n)

\* Every step keeps the answers later than the data they replace.
LEMMA LaterStep == AuditInv /\ AnswerIsLater /\ [AuditNext]_auditVars => AnswerIsLater'
<1> SUFFICES ASSUME AuditInv, AnswerIsLater, [AuditNext]_auditVars, NEW k \in Keys,
                    cache'[k].fetch = "answered", cache'[k].data # NoData
             PROVE  \E m, n \in 0 .. Len(trade_audit') :
                       /\ m <= n /\ cache'[k].data = Entries(k, m)'
                       /\ cache'[k].answer = Entries(k, n)'
  BY DEF AnswerIsLater, Keys, NoData
<1>1. /\ trade_audit \in Seq(Trades) /\ Len(trade_audit) \in Nat
      /\ cache = [j \in Keys |-> cache[j]] /\ KeyInv(k)
  BY DEF AuditInv, Shape
<1>2. /\ Len(trade_audit') \in Nat /\ Len(trade_audit') >= Len(trade_audit)
      /\ \A i \in 1 .. Len(trade_audit) : trade_audit'[i] = trade_audit[i]
  <2>1. CASE UNCHANGED trade_audit
    BY <1>1, <2>1
  <2>2. CASE \E t \in Trades : \E columns \in 1 .. MAX_FIELDS : Record(t, columns)
    <3>1. PICK t \in Trades, columns \in 1 .. MAX_FIELDS : Record(t, columns)
      BY <2>2
    <3>2. columns \in Nat
      BY AuditAssumption
    <3>3. Len(trade_audit') = Len(trade_audit) + columns /\ trade_audit' \in Seq(Trades)
          /\ \A i \in 1 .. Len(trade_audit) : trade_audit'[i] = trade_audit[i]
      BY <1>1, <3>1, <3>2, RecordAppends DEF Record
    <3> QED
      BY <1>1, <3>2, <3>3
  <2> QED
    BY <2>1, <2>2 DEF AuditNext, OpenPanel, SetView, ClosePanel, Focus, GoOffline, GoOnline,
       AnswerQuery, Succeed, Fail, Collect, Retry, auditVars
<1>3. \A m \in 0 .. Len(trade_audit) :
         Entries(k, m)' = Entries(k, m) /\ m \in 0 .. Len(trade_audit')
  BY <1>1, <1>2, EntriesStay
<1>4. CASE AnswerQuery(k)
  <2>1. /\ cache'[k].data = cache[k].data
        /\ cache'[k].answer = Entries(k, Len(trade_audit))
    BY <1>1, <1>4 DEF AnswerQuery, Query
  <2>2. PICK m \in 0 .. Len(trade_audit) : cache[k].data = Entries(k, m)
    BY <1>1, <2>1 DEF KeyInv, Told
  <2>3. Len(trade_audit) \in 0 .. Len(trade_audit) /\ m <= Len(trade_audit)
    BY <1>1
  <2> QED
    BY <1>3, <2>1, <2>2, <2>3
<1>5. CASE /\ cache'[k].data = cache[k].data
           /\ cache[k].fetch = "answered" /\ cache'[k].answer = cache[k].answer
  <2>1. PICK m, n \in 0 .. Len(trade_audit) :
           m <= n /\ cache[k].data = Entries(k, m) /\ cache[k].answer = Entries(k, n)
    BY <1>5 DEF AnswerIsLater
  <2> QED
    BY <1>3, <1>5, <2>1
<1>6. ~Succeed(k) /\ ~Collect(k)
  BY <1>1 DEF Succeed, Collect, Query, NewQuery
<1> QED
  BY <1>4, <1>5, <1>6, QueryMoves

\* So they are in every reachable state.
LEMMA LaterInvariant == AuditSpec => []AnswerIsLater
<1>1. AuditInit => AnswerIsLater
  BY DEF AuditInit, AnswerIsLater, NewQuery, Query
<1> QED
  BY <1>1, LaterStep, AuditInvariant, PTL DEF AuditSpec

\* While a view stays on a key its entries only grow: a late, failed, joined or
\* repeated request never takes an entry off it (useAuditHistory.ts and
\* useAuditFeed.ts over the cache).
THEOREM ViewsOnlyGrow == AuditSpec => ViewsNeverLoseEntries
<1>1. ASSUME AuditInv, AnswerIsLater, [AuditNext]_auditVars,
             NEW k \in Keys, observed(k), observed(k)', cache[k].data # NoData
      PROVE  /\ cache'[k].data # NoData
             /\ cache[k].data # <<>> =>
                    /\ cache'[k].data # <<>>
                    /\ Head(cache'[k].data) >= Head(cache[k].data)
  <2>1. /\ cache = [j \in Keys |-> cache[j]] /\ KeyInv(k) /\ Len(trade_audit) \in Nat
    BY <1>1 DEF AuditInv, Shape
  <2>2. PICK m \in 0 .. Len(trade_audit) : cache[k].data = Entries(k, m)
    BY <1>1, <2>1 DEF KeyInv, Told
  <2>3. CASE cache'[k].data = cache[k].data
    BY <1>1, <2>1, <2>2, <2>3, LaterIsNewer
  <2>4. CASE Succeed(k)
    <3>1. cache'[k].data = cache[k].answer /\ cache[k].fetch = "answered"
      BY <2>1, <2>4 DEF Succeed, Query
    <3>2. PICK p, n \in 0 .. Len(trade_audit) :
             p <= n /\ cache[k].data = Entries(k, p) /\ cache[k].answer = Entries(k, n)
      BY <1>1, <3>1 DEF AnswerIsLater
    <3> QED
      BY <2>1, <3>1, <3>2, LaterIsNewer
  <2>5. AnswerQuery(k) => cache'[k].data = cache[k].data
    BY <2>1 DEF AnswerQuery, Query
  <2>6. ~Collect(k)
    BY <1>1 DEF Collect
  <2> QED
    BY <1>1, <2>3, <2>4, <2>5, <2>6, QueryMoves
<1>2. AuditInv /\ AnswerIsLater /\ [AuditNext]_auditVars
        => [\A k \in Keys : observed(k) /\ observed(k)' /\ cache[k].data # NoData =>
               /\ cache'[k].data # NoData
               /\ cache[k].data # <<>> =>
                      /\ cache'[k].data # <<>>
                      /\ Head(cache'[k].data) >= Head(cache[k].data)]_auditVars
  BY <1>1
<1> QED
  BY <1>2, AuditInvariant, LaterInvariant, PTL DEF AuditSpec, ViewsNeverLoseEntries
=============================================================================
