------------------------ MODULE BackupCatalogProofs ------------------------
(***************************************************************************)
(* What follows from the promise of BackupCatalog, whatever implements it. *)
(***************************************************************************)
EXTENDS BackupCatalog, TLAPS

CatalogType == stored \subseteq Runs /\ reported \in Runs \cup {0}

LEMMA CatalogStep ==
    ASSUME CatalogType, Covered, [CatalogNext]_catalog
    PROVE  CatalogType' /\ Covered'
<1>1. ASSUME NEW n \in Runs, Store(n) PROVE CatalogType' /\ Covered'
  BY <1>1 DEF Store, CatalogType, Covered
<1>2. ASSUME NEW n \in Runs, ReportNewest(n) PROVE CatalogType' /\ Covered'
  <2>1. n \in Int BY DEF Runs
  <2> QED BY <1>2, <2>1 DEF ReportNewest, Newest, CatalogType, Covered
<1>3. ASSUME NEW n \in Runs, NEW gone \in SUBSET stored, Expire(n, gone)
      PROVE  CatalogType' /\ Covered'
  \* The newest object stays, and it is no older than whatever covered the report.
  <2>1. CatalogType' BY <1>3 DEF Expire, CatalogType
  <2>2. ASSUME reported # 0 PROVE n >= reported
    <3>1. PICK o \in stored : o >= reported BY <2>2 DEF Covered
    <3>2. o <= n BY <1>3 DEF Expire, Newest
    <3>3. o \in Int /\ n \in Int /\ reported \in Int BY DEF CatalogType, Runs
    <3> QED BY <3>1, <3>2, <3>3
  <2>3. n \in stored' BY <1>3 DEF Expire, Newest
  <2>4. reported' = reported BY <1>3 DEF Expire
  <2> QED BY <2>1, <2>2, <2>3, <2>4 DEF Covered
<1>4. ASSUME Forget PROVE CatalogType' /\ Covered'
  BY <1>4 DEF Forget, CatalogType, Covered
<1>5. ASSUME UNCHANGED catalog PROVE CatalogType' /\ Covered'
  BY <1>5 DEF catalog, CatalogType, Covered
<1> QED BY <1>1, <1>2, <1>3, <1>4, <1>5 DEF CatalogNext

\* An implementation of BackupCatalog never leaves a cluster that was backed up without
\* an object as recent as the one status names: what retention (cleanupOldBackups) may
\* take away is never all that a restore could be fed.
THEOREM ReportIsCovered == CatalogSpec => []Covered
<1>1. CatalogInit => CatalogType /\ Covered
  BY DEF CatalogInit, CatalogType, Covered
<1>2. (CatalogType /\ Covered) /\ [CatalogNext]_catalog => (CatalogType /\ Covered)'
  BY CatalogStep
<1> QED BY <1>1, <1>2, PTL DEF CatalogSpec
=============================================================================
