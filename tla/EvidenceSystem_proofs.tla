------------------------ MODULE EvidenceSystem_proofs ------------------------
(***************************************************************************)
(* What a PASS of a v2 pack says of the gateway's rows and batches, proved *)
(* for every schedule, every export and every number of faults.            *)
(*                                                                         *)
(* Database says what the gateway keeps true of the rows it logged and the *)
(* batches it anchored.  Delivered says what no fault can change of the    *)
(* lines of a file: an anchor line carries the signature of a batch, or    *)
(* none that decodes.  With Inv of PackVerify_proofs, which describes      *)
(* verify() at work, and its Listing, which keeps the rows in the order of *)
(* their lines, they make the inductive invariant SystemInv.               *)
(*                                                                         *)
(* The signature of an accepted anchor fixes the root of a batch, and the  *)
(* root fixes the leaves: RootBinds for the rows the verifier recomputes   *)
(* the root from, FoldBinds for a row with an inclusion proof.  Its links  *)
(* fix the batches before it.  OnlyLost adds what is needed where lines    *)
(* were only lost.                                                         *)
(***************************************************************************)
EXTENDS EvidenceSystem, PackVerify_proofs

-----------------------------------------------------------------------------
(* The invariant *)

IsEntry(e) ==
    /\ e = [id |-> e.id, tenant |-> e.tenant, created_at |-> e.created_at,
            signed |-> e.signed]
    /\ e.id \in Int /\ e.created_at \in Int

(* A row's id is its place, and its payload no damaged one's.             *)
RowsLogged ==
    /\ IsListOf(log) /\ Len(log) \in 0..MaxInt
    /\ \A n \in 1..Len(log) : IsEntry(log[n]) /\ log[n].id = n /\ Payload(log[n]) # Stray

IsAnchor(a) ==
    a = [id |-> a.id, chain |-> a.chain, from_id |-> a.from_id, to_id |-> a.to_id,
         row_count |-> a.row_count, merkle_root |-> a.merkle_root,
         prev_anchor_id |-> a.prev_anchor_id, prev_root |-> a.prev_root,
         signature |-> a.signature, signing_key_id |-> a.signing_key_id,
         sig_alg |-> a.sig_alg]

(* An anchor's range begins where the one before it ended. *)
Covering(n) ==
    LET a == batches[n].anchor
    IN  /\ a.from_id = IF n = 1 THEN 1 ELSE batches[n-1].anchor.to_id + 1
        /\ a.from_id \in Nat \ {0} /\ a.to_id \in a.from_id..Len(log)

(* Its rows are logged rows of its range, the tenant's all; it signs their *)
(* root.                                                                   *)
Sealing(n) ==
    LET a    == batches[n].anchor
        rows == batches[n].rows
    IN  /\ IsAnchor(a) /\ a.id = n /\ a.chain \in {"fleet", OwnChain}
        /\ IsListOf(rows) /\ Len(rows) \in 1..MaxInt
        /\ \A k \in 1..Len(rows) :
              rows[k].id \in a.from_id..a.to_id /\ rows[k] = log[rows[k].id]
        /\ \A m \in a.from_id..a.to_id : log[m].tenant = TenantId =>
              \E k \in 1..Len(rows) : rows[k] = log[m]
        /\ a.row_count = Len(rows) /\ a.merkle_root = MerkleRoot(Leaves(rows))
        /\ a.signature = Sign(AnchorAlg(a.chain), AnchorKey(a.chain), AnchorPayloadHash(a))

(* The root it names as the previous one is that of the last batch before  *)
(* it on its chain.                                                        *)
OnSame(m, n) == batches[m].anchor.chain = batches[n].anchor.chain

Linked(n) ==
    batches[n].anchor.prev_root # None =>
        \E m \in 1..(n-1) :
            /\ OnSame(m, n) /\ \A k \in 1..(n-1) : OnSame(k, n) => k <= m
            /\ batches[n].anchor.prev_root = batches[m].anchor.merkle_root

(* No fleet batch follows one of the tenant's own chain.                   *)
FleetFirst ==
    \A m, n \in 1..Len(batches) :
        m < n /\ batches[n].anchor.chain = "fleet" => batches[m].anchor.chain = "fleet"

Database ==
    /\ RowsLogged
    /\ IsListOf(batches)
    /\ \A n \in 1..Len(batches) : Covering(n) /\ Sealing(n) /\ Linked(n)
    /\ \A m, n \in 1..Len(batches) :
          m < n => batches[m].anchor.to_id < batches[n].anchor.from_id
    /\ cursor \in {None} \cup 0..LastTo
    /\ \A n \in 1..Len(batches) : batches[n].anchor.chain # "fleet" => cursor # None
    /\ FleetFirst

(* A signature the gateway made. *)
Genuine(signature) ==
    \E n \in 1..Len(batches) : signature = batches[n].anchor.signature

IsProof(p) ==
    /\ p = [leaf_index |-> p.leaf_index, leaf_count |-> p.leaf_count, path |-> p.path]
    /\ p.leaf_index \in Nat /\ p.leaf_count \in 0..(2 * MaxInt + 1) /\ IsSeq(p.path)

IsRow(r) ==
    /\ r = [id |-> r.id, created_at |-> r.created_at,
            payload |-> r.payload, payload_hash |-> r.payload_hash,
            signature |-> r.signature, signing_key_id |-> r.signing_key_id,
            sig_alg |-> r.sig_alg, signed |-> r.signed,
            covered_by |-> r.covered_by, inclusion_proof |-> r.inclusion_proof]
    /\ r.covered_by = [anchor_id |-> r.covered_by.anchor_id, chain |-> r.covered_by.chain]

(* The payload is a logged row's, whose id no fault has made smaller.      *)
Known(payload, id) ==
    payload = Stray \/ \E n \in 1..Len(log) : payload = Payload(log[n]) /\ n <= id

SoundRow(r) ==
    /\ IsRow(r)
    /\ r.id \in Int /\ r.created_at \in Int
    /\ Known(r.payload, r.id)
    /\ r.inclusion_proof = None \/ IsProof(r.inclusion_proof)

SoundAnchor(a) ==
    /\ IsAnchor(a)
    /\ a.id \in Int
    /\ a.signature = NotHex \/ Genuine(a.signature)

(* What is true of a line of a file, whatever happened to it. *)
Sound(l) ==
    /\ l = Line(l.kind, l.body)
    /\ l.kind = "header"       => l.body \in Headers
    /\ l.kind = "signing_keys" => IsListOf(l.body.keys)
    /\ l.kind = "ai_audit"     => SoundRow(l.body)
    /\ l.kind = "anchor"       => SoundAnchor(l.body)
    /\ l.kind = "manifest"     => l.body \in Manifests

SoundFile(f) == IsListOf(f) /\ \A i \in DOMAIN f : Sound(f[i])

Stages ==
    /\ stage \in {"live", "draft", "transit", "verify"}
    /\ stage = "live" => file = <<>>
    /\ stage # "verify" => pc = "idle"
    /\ stage = "verify" => pc # "idle" /\ pack = file
    /\ handoff \in Handoffs

Delivered == SoundFile(file) /\ Stages

SystemInv == Database /\ Delivered /\ Inv /\ Listing

-----------------------------------------------------------------------------
(* The log and the batches *)

(* No row, no batch, no file yet.                                          *)
LEMMA InitSystem == SystemInit => SystemInv
<1> SUFFICES ASSUME SystemInit PROVE SystemInv
  OBVIOUS
<1>1. Inv /\ Listing /\ pc = "idle"
  BY InitInv, InitListing DEF SystemInit, Init
<1>2. Database
  BY WidthAssumption DEF SystemInit, Database, RowsLogged, IsListOf, FleetFirst
<1>3. Delivered
  BY <1>1 DEF SystemInit, Delivered, SoundFile, Stages, IsListOf, Handoffs
<1> QED BY <1>1, <1>2, <1>3 DEF SystemInv

(* A row more in the log.                                                  *)
LEMMA RowLogged ==
    ASSUME Database, LogRow
    PROVE  /\ RowsLogged'
           /\ Len(log') = Len(log) + 1 /\ Len(log) \in Nat
           /\ \A n \in 1..Len(log) : log'[n] = log[n]
           /\ UNCHANGED <<stage, batches, cursor, export, file, faults, vars>>
<1>1. PICK s \in Schedules :
          /\ Len(log) < Len(s)
          /\ log' = Append(log, Logged(s, Len(log) + 1))
  BY DEF LogRow
<1>2. PICK n, e : n = Len(log) + 1 /\ e = Logged(s, n)
  OBVIOUS
<1>3. IsListOf(log) /\ Len(log) \in Nat /\ Len(s) \in 0..MaxInt /\ n \in 1..Len(s)
  BY <1>1, <1>2, SchedulesAssumption DEF Database, RowsLogged, IsListOf
<1>4. IsEntry(e) /\ e.id = n /\ Payload(e) # Stray
  <2>1. IsEntry(e) /\ e.id = n
    BY <1>2, <1>3, SchedulesAssumption DEF Logged, IsEntry
  <2>2. Payload(e) # Stray
    BY <1>2, <1>3, StrayAssumption
  <2> QED BY <2>1, <2>2
<1>5. PICK S : S = Range(log) \cup {e}
  OBVIOUS
<1>6. log \in Seq(S) /\ e \in S
  BY <1>3, <1>5 DEF IsListOf
<1>7. PICK u : u = Append(log, e)
  OBVIOUS
<1>8. /\ u \in Seq(S) /\ Len(u) = n /\ u[n] = e
      /\ \A k \in 1..Len(log) : u[k] = log[k]
  BY <1>2, <1>6, <1>7, ListGrows
<1>9. IsListOf(u) /\ n \in 0..MaxInt
  BY <1>3, <1>8, AnyList, WidthAssumption
<1>10. \A k \in 1..n : IsEntry(u[k]) /\ u[k].id = k /\ Payload(u[k]) # Stray
  <2>1. \A k \in 1..Len(log) : IsEntry(log[k]) /\ log[k].id = k /\ Payload(log[k]) # Stray
    BY DEF Database, RowsLogged
  <2>2. \A k \in 1..n : k \in 1..Len(log) \/ k = n
    BY <1>2, <1>3
  <2> QED BY <1>4, <1>8, <2>1, <2>2
<1>11. log' = u
  BY <1>1, <1>2, <1>7
<1> QED BY <1>2, <1>3, <1>8, <1>9, <1>10, <1>11 DEF RowsLogged, LogRow

(* What an anchor says stays true as rows are added behind it.             *)
LEMMA LogKeepsDatabase ==
    ASSUME Database, LogRow
    PROVE  Database'
<1>1. /\ RowsLogged' /\ Len(log') = Len(log) + 1 /\ Len(log) \in Nat
      /\ \A n \in 1..Len(log) : log'[n] = log[n]
      /\ batches' = batches /\ cursor' = cursor
  BY RowLogged
<1>2. ASSUME NEW n \in 1..Len(batches) PROVE Covering(n)' /\ Sealing(n)' /\ Linked(n)'
  <2>1. Covering(n) /\ Sealing(n) /\ Linked(n)
    BY DEF Database
  <2>2. PICK a, rows : a = batches[n].anchor /\ rows = batches[n].rows
    OBVIOUS
  <2>3. a.from_id \in Nat \ {0} /\ a.to_id \in a.from_id..Len(log)
    BY <2>1, <2>2 DEF Covering
  <2>4. a.to_id \in a.from_id..Len(log')
    BY <1>1, <2>3
  <2>5. ASSUME NEW k \in 1..Len(rows)
        PROVE  rows[k].id \in a.from_id..a.to_id /\ rows[k] = log'[rows[k].id]
    <3>1. rows[k].id \in a.from_id..a.to_id /\ rows[k] = log[rows[k].id]
      BY <2>1, <2>2 DEF Sealing
    <3>2. rows[k].id \in 1..Len(log)
      BY <1>1, <2>3, <3>1
    <3> QED BY <1>1, <3>1, <3>2
  <2>6. Covering(n)'
    BY <1>1, <2>1, <2>2, <2>3, <2>4 DEF Covering
  <2>7. Sealing(n)'
    <3>1. \A m \in a.from_id..a.to_id : m \in 1..Len(log)
      BY <1>1, <2>3
    <3>2. \A m \in a.from_id..a.to_id : log'[m].tenant = TenantId =>
              \E k \in 1..Len(rows) : rows[k] = log'[m]
      BY <1>1, <2>1, <2>2, <3>1 DEF Sealing
    <3> QED BY <1>1, <2>1, <2>2, <2>5, <3>2 DEF Sealing
  <2>8. Linked(n)'
    BY <1>1, <2>1 DEF Linked, OnSame
  <2> QED BY <2>6, <2>7, <2>8
<1>3. LastTo' = LastTo /\ (FleetFirst => FleetFirst')
  BY <1>1 DEF LastTo, FleetFirst
<1> QED BY <1>1, <1>2, <1>3 DEF Database
-----------------------------------------------------------------------------
(* Lists selected and arranged *)

(* The batches of a chain, in the order of the list.                       *)
LEMMA ChainSelected ==
    ASSUME NEW S, batches \in Seq(S), NEW chain
    PROVE  InListOrder(OnChain(chain), batches,
               {i \in DOMAIN batches : batches[i].anchor.chain = chain})
<1> DEFINE Test(i) == batches[i].anchor.chain = chain
           P(i) == {j \in DOMAIN batches : /\ Test(j)
                                           /\ FALSE \/ (~FALSE /\ j < i)}
           R == {i \in DOMAIN batches : Test(i)}
           Nth(k) == CHOOSE i \in DOMAIN batches : /\ Test(i)
                                                   /\ k = 1 + Cardinality(P(i))
           c == [k \in 1..Cardinality(R) |-> Nth(k)]
<1>1. PICK key : key = [i \in DOMAIN batches |-> 0]
  OBVIOUS
<1>2. Len(batches) \in Nat /\ DOMAIN batches = 1..Len(batches) /\ R \subseteq 1..Len(batches)
  OBVIOUS
<1>3. OnChain(chain) = [k \in 1..Cardinality(R) |-> batches[c[k]]] \o <<>>
  <2>1. OnChain(chain) = [k \in 1..Cardinality(R) |-> batches[Nth(k)]] \o <<>>
    BY DEF OnChain, Selected, Arranged
  <2> HIDE DEF Nth, R
  <2> QED BY <2>1
<1>4. ASSUME NEW i \in R PROVE P(i) = Under(R, key, i)
  <2>1. \A j \in R : key[j] = 0
    BY <1>1
  <2>2. P(i) = {j \in R : j < i}
    OBVIOUS
  <2>3. \A j \in R : (key[j] < key[i] \/ (~(key[i] < key[j]) /\ j < i)) <=> j < i
    BY <1>2, <1>4, <2>1
  <2> HIDE DEF P, R
  <2>4. \A j : j \in Under(R, key, i) <=> j \in R /\ j < i
    BY <2>3 DEF Under
  <2> QED BY <2>2, <2>4
<1>5. ASSUME NEW k \in 1..Cardinality(R),
             \E i \in R : k = 1 + Cardinality(Under(R, key, i))
      PROVE  c[k] \in R /\ k = 1 + Cardinality(Under(R, key, c[k]))
  <2>1. \A i : i \in R <=> i \in DOMAIN batches /\ Test(i)
    OBVIOUS
  <2> HIDE DEF P, R, Test
  <2>2. \E i \in DOMAIN batches : /\ Test(i)
                                  /\ k = 1 + Cardinality(P(i))
    BY <1>4, <1>5, <2>1
  <2>3. c[k] \in DOMAIN batches /\ Test(c[k]) /\ k = 1 + Cardinality(P(c[k]))
    BY <2>2
  <2> QED BY <1>4, <2>1, <2>3
<1> HIDE DEF c, R
<1>6. \A i \in R : key[i] \in Int
  BY <1>1, <1>2
<1>7. ArrangedByKey(OnChain(chain), batches, R, key)
  BY <1>2, <1>3, <1>5, <1>6, Arranging
<1> QED BY <1>1, <1>7 DEF InListOrder, R

(* The tenant's rows among those not anchored yet.                         *)
LEMMA OwnSelected ==
    ASSUME NEW S, NEW s \in Seq(S)
    PROVE  InListOrder(Selected(s, LAMBDA e : e.tenant = TenantId), s,
               {i \in DOMAIN s : s[i].tenant = TenantId})
<1> DEFINE Test(i) == s[i].tenant = TenantId
           P(i) == {j \in DOMAIN s : /\ Test(j)
                                     /\ FALSE \/ (~FALSE /\ j < i)}
           R == {i \in DOMAIN s : Test(i)}
           Nth(k) == CHOOSE i \in DOMAIN s : /\ Test(i)
                                             /\ k = 1 + Cardinality(P(i))
           c == [k \in 1..Cardinality(R) |-> Nth(k)]
<1>1. PICK key : key = [i \in DOMAIN s |-> 0]
  OBVIOUS
<1>2. Len(s) \in Nat /\ DOMAIN s = 1..Len(s) /\ R \subseteq 1..Len(s)
  OBVIOUS
<1>3. Selected(s, LAMBDA e : e.tenant = TenantId) = [k \in 1..Cardinality(R) |-> s[c[k]]] \o <<>>
  <2>1. Selected(s, LAMBDA e : e.tenant = TenantId) = [k \in 1..Cardinality(R) |-> s[Nth(k)]] \o <<>>
    BY DEF Selected, Arranged
  <2> HIDE DEF Nth, R
  <2> QED BY <2>1
<1>4. ASSUME NEW i \in R PROVE P(i) = Under(R, key, i)
  <2>1. \A j \in R : key[j] = 0
    BY <1>1
  <2>2. P(i) = {j \in R : j < i}
    OBVIOUS
  <2>3. \A j \in R : (key[j] < key[i] \/ (~(key[i] < key[j]) /\ j < i)) <=> j < i
    BY <1>2, <1>4, <2>1
  <2> HIDE DEF P, R
  <2>4. \A j : j \in Under(R, key, i) <=> j \in R /\ j < i
    BY <2>3 DEF Under
  <2> QED BY <2>2, <2>4
<1>5. ASSUME NEW k \in 1..Cardinality(R),
             \E i \in R : k = 1 + Cardinality(Under(R, key, i))
      PROVE  c[k] \in R /\ k = 1 + Cardinality(Under(R, key, c[k]))
  <2>1. \A i : i \in R <=> i \in DOMAIN s /\ Test(i)
    OBVIOUS
  <2> HIDE DEF P, R, Test
  <2>2. \E i \in DOMAIN s : /\ Test(i)
                            /\ k = 1 + Cardinality(P(i))
    BY <1>4, <1>5, <2>1
  <2>3. c[k] \in DOMAIN s /\ Test(c[k]) /\ k = 1 + Cardinality(P(c[k]))
    BY <2>2
  <2> QED BY <1>4, <2>1, <2>3
<1> HIDE DEF c, R
<1>6. \A i \in R : key[i] \in Int
  BY <1>1, <1>2
<1>7. ArrangedByKey(Selected(s, LAMBDA e : e.tenant = TenantId), s, R, key)
  BY <1>2, <1>3, <1>5, <1>6, Arranging
<1> QED BY <1>1, <1>7 DEF InListOrder, R

(* The tenant's rows in a set, in the order of the log.                    *)
LEMMA WindowSelected ==
    ASSUME NEW S, log \in Seq(S), NEW W
    PROVE  InListOrder(Selected(log, LAMBDA e : e.tenant = TenantId /\ e \in W), log,
               {i \in DOMAIN log : (log[i].tenant = TenantId /\ log[i] \in W)})
<1> DEFINE Test(i) == (log[i].tenant = TenantId /\ log[i] \in W)
           P(i) == {j \in DOMAIN log : /\ Test(j)
                                       /\ FALSE \/ (~FALSE /\ j < i)}
           R == {i \in DOMAIN log : Test(i)}
           Nth(k) == CHOOSE i \in DOMAIN log : /\ Test(i)
                                               /\ k = 1 + Cardinality(P(i))
           c == [k \in 1..Cardinality(R) |-> Nth(k)]
<1>1. PICK key : key = [i \in DOMAIN log |-> 0]
  OBVIOUS
<1>2. Len(log) \in Nat /\ DOMAIN log = 1..Len(log) /\ R \subseteq 1..Len(log)
  OBVIOUS
<1>3. Selected(log, LAMBDA e : e.tenant = TenantId /\ e \in W) = [k \in 1..Cardinality(R) |-> log[c[k]]] \o <<>>
  <2>1. Selected(log, LAMBDA e : e.tenant = TenantId /\ e \in W) = [k \in 1..Cardinality(R) |-> log[Nth(k)]] \o <<>>
    BY DEF Selected, Arranged
  <2> HIDE DEF Nth, R
  <2> QED BY <2>1
<1>4. ASSUME NEW i \in R PROVE P(i) = Under(R, key, i)
  <2>1. \A j \in R : key[j] = 0
    BY <1>1
  <2>2. P(i) = {j \in R : j < i}
    OBVIOUS
  <2>3. \A j \in R : (key[j] < key[i] \/ (~(key[i] < key[j]) /\ j < i)) <=> j < i
    BY <1>2, <1>4, <2>1
  <2> HIDE DEF P, R
  <2>4. \A j : j \in Under(R, key, i) <=> j \in R /\ j < i
    BY <2>3 DEF Under
  <2> QED BY <2>2, <2>4
<1>5. ASSUME NEW k \in 1..Cardinality(R),
             \E i \in R : k = 1 + Cardinality(Under(R, key, i))
      PROVE  c[k] \in R /\ k = 1 + Cardinality(Under(R, key, c[k]))
  <2>1. \A i : i \in R <=> i \in DOMAIN log /\ Test(i)
    OBVIOUS
  <2> HIDE DEF P, R, Test
  <2>2. \E i \in DOMAIN log : /\ Test(i)
                              /\ k = 1 + Cardinality(P(i))
    BY <1>4, <1>5, <2>1
  <2>3. c[k] \in DOMAIN log /\ Test(c[k]) /\ k = 1 + Cardinality(P(c[k]))
    BY <2>2
  <2> QED BY <1>4, <2>1, <2>3
<1> HIDE DEF c, R
<1>6. \A i \in R : key[i] \in Int
  BY <1>1, <1>2
<1>7. ArrangedByKey(Selected(log, LAMBDA e : e.tenant = TenantId /\ e \in W), log, R, key)
  BY <1>2, <1>3, <1>5, <1>6, Arranging
<1> QED BY <1>1, <1>7 DEF InListOrder, R

(* A list selected from one over S is one over S, and no longer.           *)
LEMMA SelectedTyped ==
    ASSUME NEW S, NEW s \in Seq(S), NEW R, R \subseteq DOMAIN s, NEW t, InListOrder(t, s, R)
    PROVE  t \in Seq(S) /\ Len(t) <= Len(s) /\ \A k \in 1..Len(t) : \E i \in R : t[k] = s[i]
<1>1. PICK c : /\ EnumeratesByKey(R, [i \in DOMAIN s |-> 0], c)
               /\ t = [k \in 1..Cardinality(R) |-> s[c[k]]]
               /\ Len(t) = Cardinality(R)
  BY DEF InListOrder, ArrangedByKey
<1>2. Enumerates(R, c)
  BY <1>1 DEF EnumeratesByKey
<1>3. \A k \in 1..Cardinality(R) : c[k] \in R /\ c[k] \in DOMAIN s
  BY <1>2 DEF Enumerates
<1>4. Cardinality(R) \in Nat
  BY <1>2 DEF Enumerates
<1>5. \A k \in 1..Cardinality(R) : s[c[k]] \in S
  BY <1>3
<1>6. t \in Seq(S)
  <2>1. PICK n : n = Cardinality(R)
    OBVIOUS
  <2>2. t = [k \in 1..n |-> s[c[k]]]
    BY <1>1, <2>1
  <2>3. n \in Nat /\ \A k \in 1..n : s[c[k]] \in S
    BY <1>4, <1>5, <2>1
  <2> QED BY <2>2, <2>3
<1>7. Cardinality(R) <= Len(s)
  <2>1. IsFiniteSet(1..Len(s)) /\ Cardinality(1..Len(s)) = Len(s) /\ DOMAIN s = 1..Len(s)
    BY CountTo
  <2> QED BY <2>1, FS_Subset
<1> QED BY <1>1, <1>3, <1>6, <1>7

(* Nothing of the selection is left out.                                   *)
LEMMA SelectedAll ==
    ASSUME NEW s, NEW R, NEW t, InListOrder(t, s, R)
    PROVE  \A i \in R : \E k \in 1..Len(t) : t[k] = s[i]
  BY DEF InListOrder, ArrangedByKey, EnumeratesByKey, Enumerates

(* The rows of a batch in leaf order are the rows. *)
LEMMA LeafOrdered ==
    ASSUME NEW S, NEW s \in Seq(S), \A e \in S : e.created_at \in Int /\ e.id \in Int
    PROVE  /\ InLeafOrder(s) \in Seq(S) /\ Len(InLeafOrder(s)) = Len(s)
           /\ \E c : /\ Enumerates(1..Len(s), c)
                     /\ \A k \in 1..Len(s) : InLeafOrder(s)[k] = s[c[k]]
<1> DEFINE P(i) == {j \in DOMAIN s : /\ TRUE
                                     /\ \/ LeafBefore(s[j], s[i])
                                        \/ ~LeafBefore(s[i], s[j]) /\ j < i}
           T == {i \in DOMAIN s : TRUE}
           Nth(k) == CHOOSE i \in DOMAIN s : TRUE /\ k = 1 + Cardinality(P(i))
<1>1. PICK n, I : n = Len(s) /\ I = 1..n
  OBVIOUS
<1>2. n \in Nat /\ DOMAIN s = I /\ IsFiniteSet(I) /\ Cardinality(I) = n
  BY <1>1, CountTo
<1>3. PICK c : c = [k \in 1..n |-> Nth(k)]
  OBVIOUS
<1>4. InLeafOrder(s) = [k \in 1..n |-> s[c[k]]] \o <<>>
  <2>1. InLeafOrder(s) = [k \in 1..Cardinality(T) |-> s[Nth(k)]] \o <<>>
    BY DEF InLeafOrder, Sorted, Arranged
  <2>2. T = I
    BY <1>2
  <2> HIDE DEF Nth, T
  <2> QED BY <1>2, <1>3, <2>1, <2>2
<1>5. PICK under : under = [i \in I |-> P(i)]
  OBVIOUS
<1>6. \A i \in I : s[i].created_at \in Int /\ s[i].id \in Int /\ i \in Int
  BY <1>1, <1>2
<1>7. IsOrder(I, under)
  <2>1. under \in [I -> SUBSET I] /\ \A i \in I : under[i] = P(i)
    BY <1>2, <1>5
  <2>2. \A i \in I : i \notin P(i)
    BY <1>6 DEF LeafBefore
  <2>3. \A i, j \in I : i # j => i \in P(j) \/ j \in P(i)
    BY <1>2, <1>6 DEF LeafBefore
  <2>4. ASSUME NEW i \in I, NEW j \in I, i \in P(j), NEW x \in P(i)
        PROVE  x \in P(j)
    <3>1. x \in I
      BY <1>2, <2>4
    <3>2. PICK a, b, d, e, f, g : /\ a = s[x].created_at /\ b = s[x].id
                                  /\ d = s[i].created_at /\ e = s[i].id
                                  /\ f = s[j].created_at /\ g = s[j].id
      OBVIOUS
    <3>3. /\ a \in Int /\ b \in Int /\ d \in Int /\ e \in Int /\ f \in Int /\ g \in Int
          /\ x \in Int /\ i \in Int /\ j \in Int
      BY <1>6, <2>4, <3>1, <3>2
    <3>4. /\ \/ a < d \/ (a = d /\ b < e)
             \/ ~(d < a \/ (d = a /\ e < b)) /\ x < i
          /\ \/ d < f \/ (d = f /\ e < g)
             \/ ~(f < d \/ (f = d /\ g < e)) /\ i < j
      BY <2>4, <3>2 DEF LeafBefore
    <3>5. \/ a < f \/ (a = f /\ b < g)
          \/ ~(f < a \/ (f = a /\ g < b)) /\ x < j
      BY <3>3, <3>4
    <3> QED BY <1>2, <3>1, <3>2, <3>5 DEF LeafBefore
  <2> QED BY <2>1, <2>2, <2>3, <2>4 DEF IsOrder
<1>8. Ranks(I, under, c)
  <2>1. ASSUME NEW k \in 1..n, NEW i \in I, k = 1 + Cardinality(P(i))
        PROVE  c[k] \in I /\ k = 1 + Cardinality(P(c[k]))
    <3> HIDE DEF P
    <3>1. \E j \in DOMAIN s : TRUE /\ k = 1 + Cardinality(P(j))
      BY <1>2, <2>1
    <3>2. Nth(k) \in DOMAIN s /\ k = 1 + Cardinality(P(Nth(k)))
      BY <3>1
    <3> HIDE DEF Nth
    <3> QED BY <1>2, <1>3, <3>2
  <2>2. \A i \in I : under[i] = P(i)
    BY <1>5
  <2> HIDE DEF P
  <2>3. ASSUME NEW k \in 1..n, NEW i \in I, k = 1 + Cardinality(under[i])
        PROVE  c[k] \in I /\ k = 1 + Cardinality(under[c[k]])
    BY <2>1, <2>2, <2>3
  <2> QED BY <1>2, <2>3 DEF Ranks
<1>9. Enumerates(I, c)
  BY <1>1, <1>2, <1>7, <1>8, InRank
<1> HIDE DEF Nth, P, T
<1>10. PICK t : t = [k \in 1..n |-> s[c[k]]]
  OBVIOUS
<1>11. t \o <<>> = t /\ Len(t) = n /\ DOMAIN t = 1..n
  BY <1>2, <1>10, Evaluated
<1>12. t \in Seq(S)
  <2>1. \A k \in 1..n : c[k] \in I
    BY <1>2, <1>9 DEF Enumerates
  <2>2. \A k \in 1..n : s[c[k]] \in S
    BY <1>2, <2>1
  <2> QED BY <1>2, <1>10, <2>2
<1>13. InLeafOrder(s) = t
  BY <1>4, <1>10, <1>11
<1> QED BY <1>1, <1>2, <1>9, <1>10, <1>11, <1>12, <1>13

(* c numbers the n batches of a chain, t, as they follow each other.       *)
Numbers(c, n, t, chain) ==
    /\ n \in Nat /\ Len(t) = n /\ DOMAIN t = 1..n /\ (n = 0 => t = <<>>)
    /\ \A k \in 1..n : /\ c[k] \in 1..Len(batches) /\ t[k] = batches[c[k]]
                       /\ batches[c[k]].anchor.chain = chain
    /\ \A m \in 1..Len(batches) : batches[m].anchor.chain = chain => \E k \in 1..n : c[k] = m
    /\ \A j, k \in 1..n : j < k => c[j] < c[k]

(* The batches of a chain are in the order in which they were anchored.    *)
LEMMA OnChainAt ==
    ASSUME Database, NEW chain, NEW t, t = OnChain(chain)
    PROVE  \E c, n : Numbers(c, n, t, chain)
<1>1. PICK R : R = {i \in DOMAIN batches : batches[i].anchor.chain = chain}
  OBVIOUS
<1>2. batches \in Seq(Range(batches)) /\ DOMAIN batches = 1..Len(batches) /\ Len(batches) \in Nat
  BY DEF Database, IsListOf
<1>3. PICK S : S = Range(batches)
  OBVIOUS
<1>4. batches \in Seq(S) /\ R \subseteq DOMAIN batches
  BY <1>1, <1>2, <1>3
<1>5. InListOrder(t, batches, R)
  BY <1>1, <1>4, ChainSelected
<1>6. PICK key, c : /\ key = [i \in DOMAIN batches |-> 0]
                    /\ EnumeratesByKey(R, key, c)
                    /\ t = [k \in 1..Cardinality(R) |-> batches[c[k]]]
                    /\ Len(t) = Cardinality(R) /\ DOMAIN t = 1..Cardinality(R)
  BY <1>5 DEF InListOrder, ArrangedByKey
<1>7. PICK n : n = Cardinality(R)
  OBVIOUS
<1>8. /\ n \in Nat /\ \A k \in 1..n : c[k] \in R
      /\ \A i \in R : \E k \in 1..n : c[k] = i
  BY <1>6, <1>7 DEF EnumeratesByKey, Enumerates
<1>9. \A j, k \in 1..n : j < k => c[j] < c[k]
  <2>1. \A k \in 1..n : key[c[k]] = 0
    BY <1>1, <1>6, <1>8
  <2>2. \A j, k \in 1..n : j < k => key[c[j]] < key[c[k]] \/ (key[c[j]] = key[c[k]] /\ c[j] < c[k])
    BY <1>6, <1>7 DEF EnumeratesByKey
  <2> QED BY <2>1, <2>2
<1>10. n = 0 => t = <<>>
  <2>1. t \in Seq(S) /\ Len(t) = n
    BY <1>4, <1>5, <1>6, <1>7, SelectedTyped
  <2> QED BY <2>1
<1>11. \A i : i \in R <=> i \in 1..Len(batches) /\ batches[i].anchor.chain = chain
  BY <1>1, <1>2
<1>12. \A k \in 1..n : t[k] = batches[c[k]]
  BY <1>6, <1>7
<1>13. Len(t) = n /\ DOMAIN t = 1..n
  BY <1>6, <1>7
<1>14. \A k \in 1..n : c[k] \in 1..Len(batches) /\ batches[c[k]].anchor.chain = chain
  BY <1>8, <1>11
<1>15. \A m \in 1..Len(batches) : batches[m].anchor.chain = chain => \E k \in 1..n : c[k] = m
  BY <1>8, <1>11
<1>16. Numbers(c, n, t, chain)
  BY <1>8, <1>9, <1>10, <1>12, <1>13, <1>14, <1>15 DEF Numbers
<1> QED BY <1>16

(* The last batch of a chain. *)
LEMMA PrevFound ==
    ASSUME Database, NEW chain, OnChain(chain) # <<>>
    PROVE  \E m \in 1..Len(batches) :
               /\ batches[m].anchor.chain = chain
               /\ \A k \in 1..Len(batches) : batches[k].anchor.chain = chain => k <= m
               /\ PrevOn(chain) = batches[m].anchor
<1>1. PICK t : t = OnChain(chain)
  OBVIOUS
<1>2. PICK c, n : Numbers(c, n, t, chain)
  BY <1>1, OnChainAt
<1>3. n \in 1..n /\ n \in Nat
  BY <1>1, <1>2 DEF Numbers
<1>4. /\ c[n] \in 1..Len(batches) /\ t[n] = batches[c[n]] /\ Len(t) = n
      /\ batches[c[n]].anchor.chain = chain
  BY <1>2, <1>3 DEF Numbers
<1>5. PrevOn(chain) = batches[c[n]].anchor
  <2>1. Last(t) = t[n]
    BY <1>4 DEF Last
  <2> QED BY <1>1, <1>4, <2>1 DEF PrevOn
<1>6. ASSUME NEW k \in 1..Len(batches), batches[k].anchor.chain = chain
      PROVE  k <= c[n]
  <2>1. PICK j \in 1..n : c[j] = k
    BY <1>2, <1>6 DEF Numbers
  <2>2. j < n => c[j] < c[n]
    BY <1>2, <1>3 DEF Numbers
  <2> QED BY <1>3, <1>4, <2>1, <2>2
<1> QED BY <1>4, <1>5, <1>6

(* Where the last batch ends. *)
LEMMA LastToOf ==
    ASSUME Database
    PROVE  /\ LastTo \in 0..Len(log) /\ Len(log) \in Nat /\ Len(log) <= MaxInt
           /\ Len(batches) \in Nat /\ DOMAIN batches = 1..Len(batches)
           /\ batches = <<>> => LastTo = 0 /\ Len(batches) = 0
           /\ batches # <<>> => /\ Len(batches) \in 1..Len(batches)
                                /\ LastTo = batches[Len(batches)].anchor.to_id
           /\ \A n \in 1..Len(batches) : batches[n].anchor.to_id \in 1..LastTo
<1>1. /\ Len(log) \in Nat /\ Len(log) <= MaxInt
      /\ Len(batches) \in Nat /\ DOMAIN batches = 1..Len(batches)
  BY WidthAssumption DEF Database, RowsLogged, IsListOf
<1>2. \A n \in 1..Len(batches) : /\ batches[n].anchor.from_id \in Nat \ {0}
                                 /\ batches[n].anchor.to_id \in batches[n].anchor.from_id..Len(log)
  BY DEF Database, Covering
<1>3. CASE batches = <<>>
  <2>1. LastTo = 0 /\ Len(batches) = 0
    BY <1>3 DEF LastTo
  <2> QED BY <1>1, <1>3, <2>1
<1>4. CASE batches # <<>>
  <2>1. PICK m : m = Len(batches)
    OBVIOUS
  <2>2. m \in 1..m
    <3>1. batches \in Seq(Range(batches))
      BY DEF Database, IsListOf
    <3>2. Len(batches) # 0
      BY <1>4, <3>1
    <3> QED BY <1>1, <2>1, <3>2
  <2>3. LastTo = batches[m].anchor.to_id
    BY <1>4, <2>1 DEF LastTo, Last
  <2>4. \A n \in 1..m : n < m => batches[n].anchor.to_id < batches[m].anchor.from_id
    BY <2>1, <2>2 DEF Database
  <2>5. ASSUME NEW n \in 1..m PROVE batches[n].anchor.to_id \in 1..LastTo
    <3>1. PICK f, t, g, u : /\ f = batches[n].anchor.from_id /\ t = batches[n].anchor.to_id
                            /\ g = batches[m].anchor.from_id /\ u = batches[m].anchor.to_id
      OBVIOUS
    <3>2. /\ f \in Nat \ {0} /\ t \in f..Len(log) /\ g \in Nat \ {0} /\ u \in g..Len(log)
      BY <1>2, <2>1, <2>2, <3>1
    <3>3. n = m \/ t < g
      BY <2>2, <2>4, <3>1
    <3>4. t <= u
      <4>1. CASE n = m
        BY <3>1, <3>2, <4>1
      <4>2. CASE t < g
        BY <1>1, <3>2, <4>2
      <4> QED BY <3>3, <4>1, <4>2
    <3> QED BY <1>1, <2>3, <3>1, <3>2, <3>4
  <2>6. LastTo \in 0..Len(log)
    BY <1>1, <1>2, <2>1, <2>2, <2>3
  <2> QED BY <1>1, <1>4, <2>1, <2>2, <2>3, <2>5, <2>6
<1> QED BY <1>3, <1>4

(* What a batch's leaves are. *)
LEMMA LeavesOf ==
    ASSUME NEW rows, IsListOf(rows)
    PROVE  /\ IsSeq(Leaves(rows)) /\ Len(Leaves(rows)) = Len(rows)
           /\ \A k \in 1..Len(rows) : Leaves(rows)[k] = Sha256(Payload(rows[k]))
<1>1. Len(rows) \in Nat /\ DOMAIN rows = 1..Len(rows)
  BY DEF IsListOf
<1>2. PICK n, s : n = Len(rows) /\ s = Leaves(rows)
  OBVIOUS
<1>3. s = [k \in 1..n |-> Sha256(Payload(rows[k]))]
  BY <1>1, <1>2 DEF Leaves
<1>4. \A k \in 1..n : s[k] = Sha256(Payload(rows[k]))
  BY <1>3
<1>5. s = [k \in 1..n |-> s[k]]
  BY <1>3
<1>6. IsSeq(s) /\ Len(s) = n
  BY <1>1, <1>2, <1>5, SeqOfFunction
<1> QED BY <1>2, <1>4, <1>6

(* The anchor made is the fields it is made of, with a signature over them.*)
LEMMA AnchorMade ==
    ASSUME NEW i, NEW chain, NEW f, NEW t, NEW leaves, NEW prev, NEW a,
           a = MakeAnchor(i, chain, f, t, leaves, prev)
    PROVE  /\ IsAnchor(a) /\ a.id = i /\ a.chain = chain /\ a.from_id = f /\ a.to_id = t
           /\ a.row_count = Len(leaves) /\ a.merkle_root = MerkleRoot(leaves)
           /\ a.prev_root = IF prev = None THEN None ELSE prev.merkle_root
           /\ a.signature = Sign(AnchorAlg(chain), AnchorKey(chain), AnchorPayloadHash(a))
<1>1. PICK n, r, p, q, k, g, v :
          /\ n = Len(leaves) /\ r = MerkleRoot(leaves)
          /\ p = (IF prev = None THEN None ELSE prev.id)
          /\ q = (IF prev = None THEN None ELSE prev.merkle_root)
          /\ k = KeyId(AnchorKey(chain)) /\ g = AnchorAlg(chain)
          /\ v = [id |-> i, chain |-> chain, from_id |-> f, to_id |-> t, row_count |-> n,
                  merkle_root |-> r, prev_anchor_id |-> p, prev_root |-> q,
                  signature |-> None, signing_key_id |-> k, sig_alg |-> g]
  OBVIOUS
<1>2. a = Resign(v)
  BY <1>1 DEF MakeAnchor
<1>3. v.sig_alg = g /\ v.chain = chain
  BY <1>1
<1>4. PICK s : s = Sign(g, AnchorKey(chain), AnchorPayloadHash(v))
  OBVIOUS
<1>5. a = [v EXCEPT !.signature = s]
  BY <1>2, <1>3, <1>4 DEF Resign
<1>6. a = [id |-> i, chain |-> chain, from_id |-> f, to_id |-> t, row_count |-> n,
           merkle_root |-> r, prev_anchor_id |-> p, prev_root |-> q,
           signature |-> s, signing_key_id |-> k, sig_alg |-> g]
  BY <1>1, <1>5
<1>7. AnchorPayloadHash(a) = AnchorPayloadHash(v)
  BY <1>1, <1>6 DEF AnchorPayloadHash
<1>8. /\ IsAnchor(a) /\ a.id = i /\ a.chain = chain /\ a.from_id = f /\ a.to_id = t
      /\ a.row_count = n /\ a.merkle_root = r /\ a.prev_root = q /\ a.signature = s
  BY <1>6 DEF IsAnchor
<1> QED BY <1>1, <1>4, <1>7, <1>8

(* The tenant's rows not anchored yet are all among these.                 *)
WithTenants(rows) ==
    \A m \in (LastTo + 1)..Len(log) :
        log[m].tenant = TenantId => \E k \in 1..Len(rows) : rows[k] = log[m]

(* A batch more. *)
LEMMA BatchMade ==
    ASSUME Database, NEW chain \in {"fleet", OwnChain}, NEW unordered,
           NEW T, T = {log[k] : k \in (LastTo + 1)..Len(log)},
           unordered \in Seq(T), Len(unordered) <= Len(log), WithTenants(unordered),
           AnchorRows(chain, unordered), NEW n, n = Len(batches) + 1
    PROVE  /\ log' = log /\ cursor' = cursor
           /\ UNCHANGED <<stage, export, file, faults, vars>> /\ stage = "live"
           /\ n \in Nat \ {0} /\ Len(batches') = n /\ IsListOf(batches')
           /\ \A k \in 1..(n - 1) : batches'[k] = batches[k]
           /\ batches'[n].anchor.chain = chain
           /\ LastTo' = Len(log)
           /\ batches'[n].anchor.from_id = LastTo + 1
           /\ Covering(n)' /\ Sealing(n)' /\ Linked(n)'
<1>1. PICK rows, prev : rows = InLeafOrder(unordered) /\ prev = PrevOn(chain)
  OBVIOUS
<1>2. PICK a, b : /\ a = MakeAnchor(n, chain, LastTo + 1, Len(log), Leaves(rows), prev)
                  /\ b = [rows |-> rows, anchor |-> a]
  OBVIOUS
<1>3. /\ stage = "live" /\ rows # <<>> /\ batches' = Append(batches, b)
      /\ UNCHANGED <<stage, log, cursor, export, file, faults, vars>>
  BY <1>1, <1>2 DEF AnchorRows
<1>4. /\ LastTo \in 0..Len(log) /\ Len(log) \in Nat /\ Len(log) <= MaxInt
      /\ Len(batches) \in Nat /\ DOMAIN batches = 1..Len(batches) /\ n \in Nat \ {0}
  BY LastToOf
<1>5. /\ rows \in Seq(T) /\ Len(rows) = Len(unordered)
      /\ \E c : /\ Enumerates(1..Len(unordered), c)
                /\ \A k \in 1..Len(unordered) : rows[k] = unordered[c[k]]
  <2>1. \A e \in T : e.created_at \in Int /\ e.id \in Int
    <3>1. ASSUME NEW e \in T PROVE e.created_at \in Int /\ e.id \in Int
      <4>1. PICK k \in (LastTo + 1)..Len(log) : e = log[k]
        OBVIOUS
      <4>2. k \in 1..Len(log)
        BY <1>4
      <4> QED BY <4>1, <4>2 DEF Database, RowsLogged, IsEntry
    <3> QED BY <3>1
  <2> QED BY <1>1, <2>1, LeafOrdered
<1>6. Len(rows) \in 1..MaxInt /\ IsListOf(rows) /\ DOMAIN rows = 1..Len(rows)
  <2>1. Len(rows) \in Nat /\ Len(rows) # 0
    BY <1>3, <1>5
  <2>2. Len(rows) <= MaxInt /\ MaxInt \in Nat
    BY <1>4, <1>5, <2>1, WidthAssumption
  <2> QED BY <1>5, <2>1, <2>2, AnyList
<1>7. ASSUME NEW k \in 1..Len(rows)
      PROVE  rows[k].id \in (LastTo + 1)..Len(log) /\ rows[k] = log[rows[k].id]
  <2>1. rows[k] \in T
    BY <1>5
  <2>2. PICK i \in (LastTo + 1)..Len(log) : rows[k] = log[i]
    BY <2>1
  <2>3. i \in 1..Len(log)
    BY <1>4
  <2>4. log[i].id = i
    BY <2>3 DEF Database, RowsLogged
  <2> QED BY <2>2, <2>4
<1>8. LastTo + 1 \in Nat \ {0} /\ Len(log) \in (LastTo + 1)..Len(log)
  <2>1. 1 \in 1..Len(rows) /\ LastTo \in Int
    BY <1>4, <1>6
  <2>2. rows[1].id \in (LastTo + 1)..Len(log)
    BY <1>7, <2>1
  <2> QED BY <1>4, <2>1, <2>2
<1>9. PICK S, u : S = Range(batches) \cup {b} /\ u = Append(batches, b)
  OBVIOUS
<1>10. batches \in Seq(S) /\ b \in S
  BY <1>9 DEF Database, IsListOf
<1>11. /\ u \in Seq(S) /\ Len(u) = n /\ u[n] = b
       /\ \A k \in 1..Len(batches) : u[k] = batches[k]
  BY <1>9, <1>10, ListGrows
<1>12. IsListOf(u) /\ u = batches' /\ u[n].anchor = a /\ u[n].rows = rows /\ u # <<>>
  <2>1. u # <<>>
    BY <1>4, <1>11
  <2>2. IsListOf(u)
    BY <1>11, AnyList
  <2>3. u = batches'
    BY <1>3, <1>9
  <2>4. b.rows = rows /\ b.anchor = a
    BY <1>2
  <2> QED BY <1>11, <2>1, <2>2, <2>3, <2>4
<1>13. /\ IsAnchor(a) /\ a.id = n /\ a.chain = chain /\ a.from_id = LastTo + 1
       /\ a.to_id = Len(log) /\ a.row_count = Len(rows) /\ a.merkle_root = MerkleRoot(Leaves(rows))
       /\ a.prev_root = (IF prev = None THEN None ELSE prev.merkle_root)
       /\ a.signature = Sign(AnchorAlg(chain), AnchorKey(chain), AnchorPayloadHash(a))
  <2>1. PICK s : s = Leaves(rows)
    OBVIOUS
  <2>2. Len(s) = Len(rows)
    BY <1>6, <2>1, LeavesOf
  <2> QED BY <1>2, <2>1, <2>2, AnchorMade
<1>14. LastTo' = Len(log)
  <2>1. LastTo' = u[Len(u)].anchor.to_id
    BY <1>12 DEF LastTo, Last
  <2> QED BY <1>11, <1>12, <1>13, <2>1
<1>15. Covering(n)'
  <2>1. n # 1 => LastTo = u[n-1].anchor.to_id
    <3>1. n # 1 => batches # <<>> /\ n - 1 = Len(batches) /\ n - 1 \in 1..Len(batches)
      BY <1>4
    <3> QED BY <1>11, <3>1, LastToOf
  <2>2. n = 1 => LastTo = 0
    <3>1. n = 1 => Len(batches) = 0
      BY <1>4
    <3>2. Len(batches) = 0 => batches = <<>>
      BY <1>10
    <3> QED BY <3>1, <3>2, LastToOf
  <2> QED BY <1>3, <1>8, <1>12, <1>13, <2>1, <2>2 DEF Covering
<1>16. Sealing(n)'
  <2>1. WithTenants(rows)
    <3>1. PICK c : /\ Enumerates(1..Len(unordered), c)
                   /\ \A k \in 1..Len(unordered) : rows[k] = unordered[c[k]]
      BY <1>5
    <3>2. Len(unordered) \in Nat
      OBVIOUS
    <3>3. Cardinality(1..Len(unordered)) = Len(unordered)
      BY <3>2, CountTo
    <3>4. \A i \in 1..Len(unordered) : \E k \in 1..Len(unordered) : c[k] = i
      BY <3>1, <3>3 DEF Enumerates
    <3>5. ASSUME NEW i \in 1..Len(unordered) PROVE \E k \in 1..Len(rows) : rows[k] = unordered[i]
      <4>1. PICK k \in 1..Len(unordered) : c[k] = i
        BY <3>4
      <4> QED BY <1>5, <3>1, <4>1
    <3> QED BY <3>5 DEF WithTenants
  <2>2. \A m \in (LastTo + 1)..Len(log) :
            log[m].tenant = TenantId => \E k \in 1..Len(rows) : rows[k] = log[m]
    BY <2>1 DEF WithTenants
  <2> QED BY <1>3, <1>6, <1>7, <1>12, <1>13, <2>2 DEF Sealing
<1>17. Linked(n)'
  <2> SUFFICES ASSUME a.prev_root # None
               PROVE  \E m \in 1..(n-1) :
                          /\ u[m].anchor.chain = chain
                          /\ \A k \in 1..(n-1) : u[k].anchor.chain = chain => k <= m
                          /\ a.prev_root = u[m].anchor.merkle_root
    BY <1>12, <1>13 DEF Linked, OnSame
  <2>1. prev # None /\ a.prev_root = prev.merkle_root
    BY <1>13
  <2>2. OnChain(chain) # <<>>
    BY <1>1, <2>1 DEF PrevOn
  <2>3. PICK m \in 1..Len(batches) :
               /\ batches[m].anchor.chain = chain
               /\ \A k \in 1..Len(batches) : batches[k].anchor.chain = chain => k <= m
               /\ prev = batches[m].anchor
    BY <1>1, <2>2, PrevFound
  <2>4. n - 1 = Len(batches)
    BY <1>4
  <2> QED BY <1>11, <2>1, <2>3, <2>4
<1> QED BY <1>3, <1>4, <1>9, <1>11, <1>12, <1>13, <1>14, <1>15, <1>16, <1>17

(* It leaves the earlier ones as they are, and follows them.               *)
LEMMA BatchKeepsDatabase ==
    ASSUME Database, NEW chain \in {"fleet", OwnChain}, chain # "fleet" => cursor # None,
           NEW unordered, NEW T, T = {log[k] : k \in (LastTo + 1)..Len(log)},
           unordered \in Seq(T), Len(unordered) <= Len(log), WithTenants(unordered),
           chain = "fleet" => cursor = None, AnchorRows(chain, unordered)
    PROVE  /\ Database'
           /\ UNCHANGED <<stage, export, file, faults, vars>> /\ stage = "live"
           /\ \A k \in 1..Len(batches) : batches'[k] = batches[k]
           /\ Len(batches') > Len(batches)
<1>1. PICK n : n = Len(batches) + 1
  OBVIOUS
<1>2. /\ log' = log /\ cursor' = cursor
      /\ UNCHANGED <<stage, export, file, faults, vars>> /\ stage = "live"
      /\ n \in Nat \ {0} /\ Len(batches') = n /\ IsListOf(batches')
      /\ \A k \in 1..(n - 1) : batches'[k] = batches[k]
      /\ batches'[n].anchor.chain = chain
      /\ LastTo' = Len(log)
      /\ batches'[n].anchor.from_id = LastTo + 1
      /\ Covering(n)' /\ Sealing(n)' /\ Linked(n)'
  BY <1>1, BatchMade
<1>3. /\ LastTo \in 0..Len(log) /\ Len(log) \in Nat /\ Len(batches) \in Nat /\ n - 1 = Len(batches)
      /\ \A k \in 1..(n - 1) : batches[k].anchor.to_id \in 1..LastTo
  BY <1>1, LastToOf
<1>4. \A k \in 1..n : k \in 1..(n - 1) \/ k = n
  BY <1>2
<1>5. ASSUME NEW k \in 1..(n - 1) PROVE Covering(k)' /\ Sealing(k)' /\ Linked(k)'
  <2>1. Covering(k) /\ Sealing(k) /\ Linked(k)
    BY <1>3 DEF Database
  <2>2. batches'[k] = batches[k] /\ (k # 1 => batches'[k-1] = batches[k-1])
    <3>1. k # 1 => k - 1 \in 1..(n - 1)
      BY <1>2
    <3> QED BY <1>2, <3>1
  <2>3. \A m \in 1..(k - 1) : batches'[m] = batches[m]
    <3>1. \A m \in 1..(k - 1) : m \in 1..(n - 1)
      BY <1>2
    <3> QED BY <1>2, <3>1
  <2>4. Covering(k)' /\ Sealing(k)'
    <3>1. Covering(k)'
      BY <1>2, <2>1, <2>2 DEF Covering
    <3>2. Sealing(k)'
      <4>1. log' = log /\ batches'[k] = batches[k] /\ Sealing(k)
        BY <1>2, <2>1, <2>2
      <4> QED BY <4>1 DEF Sealing
    <3> QED BY <3>1, <3>2
  <2>5. Linked(k)'
    BY <2>1, <2>2, <2>3 DEF Linked, OnSame
  <2> QED BY <2>4, <2>5
<1>6. ASSUME NEW i \in 1..n, NEW k \in 1..n, i < k
      PROVE  batches'[i].anchor.to_id < batches'[k].anchor.from_id
  <2>1. i \in 1..(n - 1)
    BY <1>2, <1>6
  <2>2. CASE k \in 1..(n - 1)
    <3>1. batches[i].anchor.to_id < batches[k].anchor.from_id
      BY <1>3, <1>6, <2>1, <2>2 DEF Database
    <3> QED BY <1>2, <2>1, <2>2, <3>1
  <2>3. CASE k = n
    <3>1. batches[i].anchor.to_id \in 1..LastTo /\ batches'[i] = batches[i]
      BY <1>2, <1>3, <2>1
    <3>2. PICK t, e : t = batches[i].anchor.to_id /\ e = LastTo
      OBVIOUS
    <3>3. t < e + 1
      BY <1>3, <3>1, <3>2
    <3> QED BY <1>2, <2>3, <3>1, <3>2, <3>3
  <2> QED BY <1>4, <2>2, <2>3
<1>7. RowsLogged'
  BY <1>2 DEF Database, RowsLogged
<1>8. cursor' \in {None} \cup 0..LastTo'
  <2>1. cursor \in {None} \cup 0..LastTo
    BY DEF Database
  <2> QED BY <1>2, <1>3, <2>1
<1>9. \A k \in 1..n : batches'[k].anchor.chain # "fleet" => cursor' # None
  <2>1. \A k \in 1..(n - 1) : batches[k].anchor.chain # "fleet" => cursor # None
    BY <1>3 DEF Database
  <2> QED BY <1>2, <1>4, <2>1
<1>10. \A k \in 1..n : Covering(k)' /\ Sealing(k)' /\ Linked(k)'
  BY <1>2, <1>4, <1>5
<1>11. FleetFirst'
  <2>1. chain = "fleet" => \A k \in 1..(n - 1) : batches[k].anchor.chain = "fleet"
    BY <1>3 DEF Database
  <2>2. ASSUME NEW i \in 1..n, NEW k \in 1..n, i < k, batches'[k].anchor.chain = "fleet"
        PROVE  batches'[i].anchor.chain = "fleet"
    <3>1. i \in 1..(n - 1)
      BY <1>2, <2>2
    <3>2. CASE k \in 1..(n - 1)
      <4>1. batches[i].anchor.chain = "fleet"
        BY <1>2, <1>3, <2>2, <3>1, <3>2 DEF Database, FleetFirst
      <4> QED BY <1>2, <3>1, <4>1
    <3>3. CASE k = n
      BY <1>2, <2>1, <2>2, <3>1, <3>3
    <3> QED BY <1>4, <3>2, <3>3
  <2> QED BY <1>2, <2>2 DEF FleetFirst
<1>12. Database'
  BY <1>2, <1>6, <1>7, <1>8, <1>9, <1>10, <1>11 DEF Database
<1> QED BY <1>2, <1>3, <1>12

(* The rows not anchored yet. *)
LEMMA UnanchoredRows ==
    ASSUME Database, NEW T, T = {log[k] : k \in (LastTo + 1)..Len(log)}
    PROVE  Unanchored \in Seq(T) /\ Len(Unanchored) <= Len(log) /\ WithTenants(Unanchored)
<1>1. PICK f, n, u : f = LastTo + 1 /\ n = Len(log) /\ u = SubSeq(log, f, n)
  OBVIOUS
<1>2. LastTo \in 0..n /\ n \in Nat /\ f \in Nat \ {0} /\ n \in 0..Len(log) /\ f \in 1..(n + 1)
  BY <1>1, LastToOf
<1>3. PICK S : S = Range(log)
  OBVIOUS
<1>4. log \in Seq(S)
  BY <1>3 DEF Database, RowsLogged, IsListOf
<1>5. /\ u \in Seq(S) /\ Len(u) = IF f <= n THEN n - f + 1 ELSE 0
      /\ \A k \in 1..Len(u) : u[k] = log[f + k - 1]
  BY <1>1, <1>2, <1>4, PartOf
<1>6. Len(u) \in Nat /\ Len(u) <= n /\ \A k \in 1..Len(u) : f + k - 1 \in f..n
  BY <1>2, <1>5
<1>7. \A k \in 1..Len(u) : u[k] \in T
  BY <1>1, <1>5, <1>6
<1>8. u \in Seq(T)
  <2>1. PICK x : x = Len(u)
    OBVIOUS
  <2>2. x \in Nat /\ u = [k \in 1..x |-> u[k]] /\ \A k \in 1..x : u[k] \in T
    BY <1>5, <1>6, <1>7, <2>1
  <2> QED BY <2>2
<1>9. WithTenants(u)
  <2>1. ASSUME NEW m \in f..n PROVE \E k \in 1..Len(u) : u[k] = log[m]
    <3>1. m - f + 1 \in 1..Len(u) /\ f + (m - f + 1) - 1 = m
      BY <1>2, <1>5
    <3> QED BY <1>5, <3>1
  <2> QED BY <1>1, <2>1 DEF WithTenants
<1> QED BY <1>1, <1>6, <1>8, <1>9 DEF Unanchored

(* Of them the tenant's. *)
LEMMA OwnUnanchored ==
    ASSUME Database, NEW T, T = {log[k] : k \in (LastTo + 1)..Len(log)}, NEW t,
           t = Selected(Unanchored, LAMBDA e : e.tenant = TenantId)
    PROVE  t \in Seq(T) /\ Len(t) <= Len(log) /\ WithTenants(t)
<1>1. PICK s : s = Unanchored
  OBVIOUS
<1>2. s \in Seq(T) /\ Len(s) <= Len(log) /\ WithTenants(s)
  BY <1>1, UnanchoredRows
<1>3. PICK R : R = {i \in DOMAIN s : s[i].tenant = TenantId}
  OBVIOUS
<1>4. InListOrder(t, s, R)
  BY <1>1, <1>2, <1>3, OwnSelected
<1>5. t \in Seq(T) /\ Len(t) <= Len(s)
  BY <1>2, <1>3, <1>4, SelectedTyped
<1>6. Len(t) \in Nat /\ Len(s) \in Nat /\ Len(log) \in Nat
  BY <1>2, <1>5, LastToOf
<1>7. \A i \in R : \E k \in 1..Len(t) : t[k] = s[i]
  BY ONLY <1>4, SelectedAll
<1>8. \A i \in 1..Len(s) : s[i].tenant = TenantId => i \in R
  BY <1>2, <1>3
<1>9. WithTenants(t)
  BY <1>2, <1>7, <1>8 DEF WithTenants
<1> QED BY <1>2, <1>5, <1>6, <1>9

(* The gateway at work keeps what is true of its rows and batches.         *)
LEMMA GatewayKeepsDatabase ==
    ASSUME Database, Gateway
    PROVE  /\ Database'
           /\ UNCHANGED <<stage, export, file, faults, vars>> /\ stage = "live"
<1>1. CASE LogRow
  <2>1. Database'
    BY <1>1, LogKeepsDatabase
  <2> QED BY <1>1, <2>1 DEF LogRow
<1>2. PICK T : T = {log[k] : k \in (LastTo + 1)..Len(log)}
  OBVIOUS
<1>3. Unanchored \in Seq(T) /\ Len(Unanchored) <= Len(log) /\ WithTenants(Unanchored)
  BY <1>2, UnanchoredRows
<1>4. CASE FleetTick
  <2>1. AnchorRows("fleet", Unanchored) /\ cursor = None
    BY <1>4 DEF FleetTick
  <2> QED BY <1>2, <1>3, <2>1, BatchKeepsDatabase
<1>5. CASE Handoff
  <2>1. /\ stage = "live" /\ cursor' = LastTo
        /\ UNCHANGED <<stage, log, batches, export, file, faults, vars>> /\ cursor = None
    BY <1>5 DEF Handoff
  <2>2. LastTo' = LastTo
    BY <2>1 DEF LastTo
  <2>3. LastTo \in Nat
    BY LastToOf
  <2>4. \A n \in 1..Len(batches) : batches[n].anchor.chain = "fleet"
    BY <2>1 DEF Database
  <2>5. RowsLogged'
    BY <2>1 DEF Database, RowsLogged
  <2>6. ASSUME NEW n \in 1..Len(batches) PROVE Covering(n)' /\ Sealing(n)' /\ Linked(n)'
    <3>1. Covering(n) /\ Sealing(n) /\ Linked(n)
      BY DEF Database
    <3> QED BY <2>1, <3>1 DEF Covering, Sealing, Linked, OnSame
  <2>7. /\ IsListOf(batches) /\ \A m, n \in 1..Len(batches) :
              m < n => batches[m].anchor.to_id < batches[n].anchor.from_id
    BY DEF Database
  <2>8. LastTo \in 0..LastTo
    BY <2>3
  <2>9. FleetFirst'
    BY <2>1 DEF Database, FleetFirst
  <2> QED BY <2>1, <2>2, <2>4, <2>5, <2>6, <2>7, <2>8, <2>9 DEF Database
<1>6. CASE SovereignTick
  <2>1. PICK t : t = Selected(Unanchored, LAMBDA e : e.tenant = TenantId)
    OBVIOUS
  <2>2. AnchorRows(OwnChain, t) /\ cursor # None
    BY <1>6, <2>1 DEF SovereignTick
  <2>3. t \in Seq(T) /\ Len(t) <= Len(log) /\ WithTenants(t)
    BY <1>2, <2>1, OwnUnanchored
  <2>4. OwnChain # "fleet"
    BY LabelAssumption, OwnChainAssumption
  <2> QED BY <1>2, <2>2, <2>3, <2>4, BatchKeepsDatabase
<1> QED BY <1>1, <1>4, <1>5, <1>6 DEF Gateway

-----------------------------------------------------------------------------
(* The file *)

(* A list of sound lines is a sound file.                                  *)
LEMMA SoundLines ==
    ASSUME NEW S, NEW f \in Seq(S), \A l \in S : Sound(l)
    PROVE  SoundFile(f)
<1>1. IsListOf(f) /\ DOMAIN f = 1..Len(f) /\ Len(f) \in Nat
  BY AnyList
<1>2. \A i \in DOMAIN f : f[i] \in S
  OBVIOUS
<1> QED BY <1>1, <1>2 DEF SoundFile

(* The lines of a file, and one more. *)
LEMMA LinesOfFile ==
    ASSUME NEW f, SoundFile(f), NEW l, Sound(l)
    PROVE  \E S : f \in Seq(S) /\ l \in S /\ \A x \in S : Sound(x)
<1>1. PICK S : S = Range(f) \cup {l}
  OBVIOUS
<1>2. f \in Seq(S) /\ l \in S
  BY <1>1 DEF SoundFile, IsListOf
<1>3. \A x \in S : Sound(x)
  BY <1>1 DEF SoundFile, Range
<1> QED BY <1>2, <1>3

(* What an accident leaves is made of the lines there were.                *)
LEMMA LinesLeft ==
    ASSUME NEW S, NEW f \in Seq(S), NEW l \in S
    PROVE  /\ \A g \in LineLost(f) : g \in Seq(S)
           /\ \A g \in LineRepeated(f) : g \in Seq(S)
           /\ \A g \in LinesSwapped(f) : g \in Seq(S)
           /\ \A g \in LastMoved(f) : g \in Seq(S)
           /\ \A g \in EndLost(f) : g \in Seq(S)
           /\ \A g \in WithLine(f, l) : g \in Seq(S)
           /\ \A i \in DOMAIN f : [f EXCEPT ![i] = l] \in Seq(S)
<1>1. Len(f) \in Nat /\ DOMAIN f = 1..Len(f)
  OBVIOUS
<1>2. ASSUME NEW g \in LineLost(f) PROVE g \in Seq(S)
  BY <1>1, <1>2, Removed DEF LineLost
<1>3. ASSUME NEW g \in LineRepeated(f) PROVE g \in Seq(S)
  <2>1. PICK i \in 1..Len(f) : g = InsertAt(f, i, f[i])
    BY <1>1, <1>3 DEF LineRepeated
  <2>2. i \in 1..(Len(f) + 1) /\ f[i] \in S
    BY <1>1
  <2> QED BY <2>1, <2>2, Inserted
<1>4. ASSUME NEW g \in WithLine(f, l) PROVE g \in Seq(S)
  BY <1>4, Inserted DEF WithLine
<1>5. ASSUME NEW g \in EndLost(f) PROVE g \in Seq(S)
  BY <1>5, CutOff DEF EndLost
<1>6. ASSUME NEW g \in LinesSwapped(f) PROVE g \in Seq(S)
  BY <1>6, Swapped DEF LinesSwapped
<1>7. ASSUME NEW g \in LastMoved(f) PROVE g \in Seq(S)
  <2>1. PICK i \in 1..(Len(f) - 1) : g = InsertAt(Front(f), i, Last(f))
    BY <1>7 DEF LastMoved
  <2>2. f # <<>>
    BY <1>1, <2>1
  <2>3. PICK u, x : u = Front(f) /\ x = Last(f)
    OBVIOUS
  <2>4. u \in Seq(S) /\ Len(u) = Len(f) - 1 /\ x \in S
    BY <2>2, <2>3, FrontAndLast
  <2>5. i \in 1..(Len(u) + 1)
    BY <1>1, <2>4
  <2> QED BY <2>1, <2>3, <2>4, <2>5, Inserted
<1> QED BY <1>2, <1>3, <1>4, <1>5, <1>6, <1>7

(* An anchor the gateway made. *)
LEMMA BatchIsSound ==
    ASSUME Database, NEW n \in 1..Len(batches)
    PROVE  SoundAnchor(batches[n].anchor)
<1>1. Sealing(n) /\ Len(batches) \in Nat
  BY LastToOf DEF Database
<1> QED BY <1>1 DEF Sealing, SoundAnchor, Genuine

(* However a field of a row changes, it is a row.                          *)
LEMMA AlteredRowIsSound ==
    ASSUME Database, NEW r, SoundRow(r), NEW x \in AlteredRow(r)
    PROVE  SoundRow(x)
<1> DEFINE Of(i, c, p, h, s, k, g, d, a, l, q) ==
        [id |-> i, created_at |-> c, payload |-> p, payload_hash |-> h, signature |-> s,
         signing_key_id |-> k, sig_alg |-> g, signed |-> d,
         covered_by |-> [anchor_id |-> a, chain |-> l], inclusion_proof |-> q]
<1>1. PICK i, c, p, h, s, k, g, d, a, l, q : r = Of(i, c, p, h, s, k, g, d, a, l, q)
  BY DEF SoundRow, IsRow
<1>2. i \in Int /\ c \in Int /\ (q = None \/ IsProof(q)) /\ Known(p, i) /\ Known(Stray, i)
  BY <1>1 DEF SoundRow, Known
<1>3. \A p_ \in {p, Stray} : \A h_, s_, d_, a_ :
          SoundRow(Of(i, c, p_, h_, s_, k, g, d_, a_, l, q))
  BY <1>2 DEF SoundRow, IsRow
<1>4. CASE x = [r EXCEPT !.payload = Stray]
  BY <1>1, <1>3, <1>4
<1>5. CASE x = [r EXCEPT !.payload_hash = NotHex]
  BY <1>1, <1>3, <1>5
<1>6. CASE x = [r EXCEPT !.payload = Stray, !.payload_hash = Sha256(Stray)]
  <2>1. PICK e : e = Sha256(Stray)
    OBVIOUS
  <2>2. x = Of(i, c, Stray, e, s, k, g, d, a, l, q)
    BY <1>1, <1>6, <2>1
  <2> QED BY <1>3, <2>2
<1>7. CASE x = [r EXCEPT !.signature = Stray]
  BY <1>1, <1>3, <1>7
<1>8. CASE x = [r EXCEPT !.signed = ~r.signed]
  <2>1. PICK e : e = ~r.signed
    OBVIOUS
  <2>2. x = [r EXCEPT !.signed = e]
    BY <1>8, <2>1
  <2>3. x = Of(i, c, p, h, s, k, g, e, a, l, q)
    BY <1>1, <2>2
  <2> QED BY <1>3, <2>3
<1>9. CASE x = [r EXCEPT !.id = r.id + 1]
  <2>1. x = Of(i + 1, c, p, h, s, k, g, d, a, l, q) /\ i + 1 \in Int
    BY <1>1, <1>2, <1>9
  <2>2. Len(log) \in Nat
    BY LastToOf
  <2>3. Known(p, i + 1)
    BY <1>2, <2>2 DEF Known
  <2> QED BY <1>2, <2>1, <2>3 DEF SoundRow, IsRow
<1>10. CASE x = [r EXCEPT !.created_at = r.created_at + 1]
  <2>1. x = Of(i, c + 1, p, h, s, k, g, d, a, l, q) /\ c + 1 \in Int
    BY <1>1, <1>2, <1>10
  <2> QED BY <1>2, <2>1 DEF SoundRow, IsRow
<1>11. CASE x = [r EXCEPT !.covered_by.anchor_id = @ + 1]
  BY <1>1, <1>3, <1>11
<1>12. ASSUME NEW v, v = None \/ IsProof(v), x = [r EXCEPT !.inclusion_proof = v]
       PROVE  SoundRow(x)
  <2>1. x = Of(i, c, p, h, s, k, g, d, a, l, v)
    BY <1>1, <1>12
  <2> QED BY <1>2, <1>12, <2>1 DEF SoundRow, IsRow
<1>13. ASSUME q # None,
              \/ x = [r EXCEPT !.inclusion_proof = None]
              \/ x = [r EXCEPT !.inclusion_proof.leaf_index = @ + 1]
              \/ x = [r EXCEPT !.inclusion_proof.leaf_count = MaxInt + 1]
              \/ x = [r EXCEPT !.inclusion_proof.path = Append(@, Stray)]
       PROVE  SoundRow(x)
  <2>1. IsProof(q)
    BY <1>2, <1>13
  <2>2. PICK m, n, t : q = [leaf_index |-> m, leaf_count |-> n, path |-> t]
    BY <2>1 DEF IsProof
  <2>3. m \in Nat /\ n \in 0..(2 * MaxInt + 1) /\ IsSeq(t)
    BY <2>1, <2>2 DEF IsProof
  <2>4. CASE x = [r EXCEPT !.inclusion_proof = None]
    BY <1>12, <2>4
  <2>5. CASE x = [r EXCEPT !.inclusion_proof.leaf_index = @ + 1]
    <3>1. PICK v : v = [leaf_index |-> m + 1, leaf_count |-> n, path |-> t]
      OBVIOUS
    <3>2. x = [r EXCEPT !.inclusion_proof = v]
      BY <1>1, <2>2, <2>5, <3>1
    <3>3. IsProof(v)
      BY <2>3, <3>1 DEF IsProof
    <3> QED BY <1>12, <3>2, <3>3
  <2>6. CASE x = [r EXCEPT !.inclusion_proof.leaf_count = MaxInt + 1]
    <3>1. PICK v : v = [leaf_index |-> m, leaf_count |-> MaxInt + 1, path |-> t]
      OBVIOUS
    <3>2. x = [r EXCEPT !.inclusion_proof = v]
      BY <1>1, <2>2, <2>6, <3>1
    <3>3. IsProof(v)
      BY <2>3, <3>1, WidthAssumption DEF IsProof
    <3> QED BY <1>12, <3>2, <3>3
  <2>7. CASE x = [r EXCEPT !.inclusion_proof.path = Append(@, Stray)]
    <3>1. PICK u : u = Append(t, Stray)
      OBVIOUS
    <3>2. PICK v : v = [leaf_index |-> m, leaf_count |-> n, path |-> u]
      OBVIOUS
    <3>3. q.path = t /\ v = [q EXCEPT !.path = u]
      BY <2>2, <3>2
    <3>4. x = [r EXCEPT !.inclusion_proof = v]
      BY <1>1, <2>7, <3>1, <3>3
    <3>5. IsSeq(u)
      BY <2>3, <3>1, AppendSeq
    <3>6. IsProof(v)
      BY <2>3, <3>2, <3>5 DEF IsProof
    <3> QED BY <1>12, <3>4, <3>6
  <2> QED BY <1>13, <2>4, <2>5, <2>6, <2>7
<1>14. r.inclusion_proof = q
  BY <1>1
<1> QED BY <1>4, <1>5, <1>6, <1>7, <1>8, <1>9, <1>10, <1>11, <1>13, <1>14 DEF AlteredRow

(* No fault of an anchor line makes a signature that decodes but was never *)
(* made.                                                                   *)
LEMMA AlteredAnchorIsSound ==
    ASSUME NEW a, SoundAnchor(a), NEW x \in AlteredAnchor(a)
    PROVE  SoundAnchor(x)
<1> DEFINE Of(i, l, f, t, n, r, p, q, s, k, g) ==
        [id |-> i, chain |-> l, from_id |-> f, to_id |-> t, row_count |-> n,
         merkle_root |-> r, prev_anchor_id |-> p, prev_root |-> q, signature |-> s,
         signing_key_id |-> k, sig_alg |-> g]
<1>1. PICK i, l, f, t, n, r, p, q, s, k, g : a = Of(i, l, f, t, n, r, p, q, s, k, g)
  BY DEF SoundAnchor, IsAnchor
<1>2. i \in Int /\ (s = NotHex \/ Genuine(s))
  BY <1>1 DEF SoundAnchor
<1>3. IsAnchor(x) /\ x.id \in {i, i + 1} /\ x.signature \in {s, NotHex}
  <2>1. CASE x = [a EXCEPT !.merkle_root = Stray]
    BY <1>1, <2>1 DEF IsAnchor
  <2>2. CASE x = [a EXCEPT !.row_count = @ + 1]
    BY <1>1, <2>2 DEF IsAnchor
  <2>3. CASE x = [a EXCEPT !.to_id = @ + 1]
    BY <1>1, <2>3 DEF IsAnchor
  <2>4. CASE x = [a EXCEPT !.from_id = MinInt]
    BY <1>1, <2>4 DEF IsAnchor
  <2>5. CASE x = [a EXCEPT !.prev_anchor_id = None]
    BY <1>1, <2>5 DEF IsAnchor
  <2>6. CASE x = [a EXCEPT !.prev_root = Stray]
    BY <1>1, <2>6 DEF IsAnchor
  <2>7. CASE x = [a EXCEPT !.signature = NotHex]
    BY <1>1, <2>7 DEF IsAnchor
  <2>8. CASE x = [a EXCEPT !.sig_alg = "FALCON-1024"]
    BY <1>1, <2>8 DEF IsAnchor
  <2>9. CASE x = [a EXCEPT !.id = @ + 1]
    BY <1>1, <2>9 DEF IsAnchor
  <2>10. CASE \E c \in (TenantChain \cup {"fleet"}) \ {a.chain} : x = [a EXCEPT !.chain = c]
    <3>1. PICK c : x = [a EXCEPT !.chain = c]
      BY <2>10
    <3> QED BY <1>1, <3>1 DEF IsAnchor
  <2> QED BY <2>1, <2>2, <2>3, <2>4, <2>5, <2>6, <2>7, <2>8, <2>9, <2>10 DEF AlteredAnchor
<1>4. i + 1 \in Int
  BY <1>2
<1> QED BY <1>2, <1>3, <1>4 DEF SoundAnchor

(* An altered manifest is still one.                                       *)
LEMMA AlteredManifestIsSound ==
    ASSUME NEW m \in Manifests, NEW x \in AlteredManifest(m)
    PROVE  x \in Manifests
<1>1. CASE x = [m EXCEPT !.counts.ai_audit = @ + 1]
  BY <1>1 DEF Manifests
<1>2. CASE x = [m EXCEPT !.counts.ai_signed = @ + 1]
  BY <1>2 DEF Manifests
<1>3. CASE x = [m EXCEPT !.tenant_id = Stray]
  BY <1>3 DEF Manifests
<1>4. CASE x = [m EXCEPT !.signing_key_ids = {}]
  BY <1>4 DEF Manifests
<1>5. ASSUME NEW h \in Handoffs, x = [m EXCEPT !.genesis_handoff = h]
      PROVE  x \in Manifests
  BY <1>5 DEF Manifests
<1>6. /\ HandoffAt(1) \in Handoffs /\ None \in Handoffs
      /\ [handoff_cursor_id |-> MaxInt, sovereign_first_from_id |-> MinInt] \in Handoffs
  <2>1. 1 \in MinInt..MaxInt /\ MaxInt \in MinInt..MaxInt /\ MinInt \in Int /\ 1 + 1 \in Int
    BY WidthAssumption DEF MinInt
  <2> QED BY <2>1 DEF Handoffs, HandoffAt
<1> QED BY <1>1, <1>2, <1>3, <1>4, <1>5, <1>6 DEF AlteredManifest

(* An altered header is still one. *)
LEMMA AlteredHeaderIsSound ==
    ASSUME NEW h \in Headers, NEW x \in AlteredHeader(h)
    PROVE  x \in Headers
  BY DEF Headers, AlteredHeader

(* Altered keys are still a list. *)
LEMMA AlteredKeysAreListed ==
    ASSUME NEW r, IsListOf(r.keys), NEW x \in AlteredKeys(r)
    PROVE  IsListOf(x.keys)
<1>1. PICK i \in DOMAIN r.keys, hex \in {Stray, NotHex} : x = [r EXCEPT !.keys[i].public_key_hex = hex]
  BY DEF AlteredKeys
<1>2. PICK s, k : s = r.keys /\ k = [s[i] EXCEPT !.public_key_hex = hex]
  OBVIOUS
<1>3. x.keys = r.keys \/ x.keys = [s EXCEPT ![i] = k]
  BY <1>1, <1>2
<1>4. s \in Seq(Range(s) \cup {k}) /\ k \in Range(s) \cup {k}
  BY <1>2 DEF IsListOf
<1>5. [s EXCEPT ![i] = k] \in Seq(Range(s) \cup {k})
  BY <1>1, <1>2, <1>4
<1> QED BY <1>3, <1>5, AnyList

(* Soundness is about the gateway's rows and signatures only.              *)
LEMMA SoundStable ==
    ASSUME log' = log, batches' = batches, NEW f, SoundFile(f)
    PROVE  SoundFile(f)'
<1>1. \A s : Genuine(s) => Genuine(s)'
  BY DEF Genuine
<1>2. \A a : SoundAnchor(a) => SoundAnchor(a)'
  BY <1>1 DEF SoundAnchor
<1>3. \A r : SoundRow(r) => SoundRow(r)'
  BY DEF SoundRow, Known
<1>4. \A l : Sound(l) => Sound(l)'
  BY <1>2, <1>3 DEF Sound
<1> QED BY <1>4 DEF SoundFile

(* One line replaced by a sound one. *)
LEMMA ReplacedIsSound ==
    ASSUME NEW f, SoundFile(f), NEW i \in DOMAIN f, NEW l, Sound(l)
    PROVE  SoundFile([f EXCEPT ![i] = l])
<1>1. PICK S : f \in Seq(S) /\ l \in S /\ \A x \in S : Sound(x)
  BY LinesOfFile
<1> QED BY <1>1, LinesLeft, SoundLines

(* A sound line stays one when a field changes.                            *)
LEMMA AlteredIsSound ==
    ASSUME Database, NEW l, Sound(l), NEW b \in Altered(l)
    PROVE  Sound(Line(l.kind, b))
<1>1. PICK k, c : k = l.kind /\ c = l.body
  OBVIOUS
<1>2. \/ k = "header" /\ b \in AlteredHeader(c)
      \/ k = "signing_keys" /\ b \in AlteredKeys(c)
      \/ k = "ai_audit" /\ b \in AlteredRow(c)
      \/ k = "anchor" /\ b \in AlteredAnchor(c)
      \/ k = "manifest" /\ b \in AlteredManifest(c)
  BY <1>1 DEF Altered
<1>3. \/ k = "header" /\ b \in Headers
      \/ k = "signing_keys" /\ IsListOf(b.keys)
      \/ k = "ai_audit" /\ SoundRow(b)
      \/ k = "anchor" /\ SoundAnchor(b)
      \/ k = "manifest" /\ b \in Manifests
  BY <1>1, <1>2, AlteredHeaderIsSound, AlteredKeysAreListed, AlteredRowIsSound,
     AlteredAnchorIsSound, AlteredManifestIsSound DEF Sound
<1> QED BY <1>1, <1>3 DEF Sound, Line

(* A body replaced by a sound one of its kind. *)
LEMMA NewBodyIsSound ==
    ASSUME NEW f, SoundFile(f), NEW i \in DOMAIN f, NEW b, Sound(Line(f[i].kind, b))
    PROVE  SoundFile([f EXCEPT ![i].body = b])
<1>1. f[i] = Line(f[i].kind, f[i].body)
  BY DEF SoundFile, Sound
<1>2. PICK l : l = Line(f[i].kind, b)
  OBVIOUS
<1>3. l = [f[i] EXCEPT !.body = b]
  BY <1>1, <1>2 DEF Line
<1>4. Sound(l)
  BY <1>2
<1>5. SoundFile([f EXCEPT ![i] = l])
  BY <1>4, ReplacedIsSound
<1>6. [f EXCEPT ![i].body = b] = [f EXCEPT ![i] = l]
  BY <1>3
<1> QED BY <1>5, <1>6

(* A row under another label is a row. *)
LEMMA RelabelledIsSound ==
    ASSUME NEW f, SoundFile(f), NEW i \in DOMAIN f, f[i].kind = "ai_audit", NEW chain
    PROVE  SoundFile([f EXCEPT ![i].body.covered_by.chain = chain])
<1>1. Sound(f[i])
  BY DEF SoundFile
<1>2. PICK r : r = f[i].body
  OBVIOUS
<1>3. SoundRow(r)
  BY <1>1, <1>2 DEF Sound
<1>4. PICK b : b = [r EXCEPT !.covered_by.chain = chain]
  OBVIOUS
<1>5. SoundRow(b)
  <2> DEFINE Of(j, c, p, h, s, k, g, d, a, l, q) ==
          [id |-> j, created_at |-> c, payload |-> p, payload_hash |-> h, signature |-> s,
           signing_key_id |-> k, sig_alg |-> g, signed |-> d,
           covered_by |-> [anchor_id |-> a, chain |-> l], inclusion_proof |-> q]
  <2>1. PICK j, c, p, h, s, k, g, d, a, l, q : r = Of(j, c, p, h, s, k, g, d, a, l, q)
    BY <1>3 DEF SoundRow, IsRow
  <2>2. j \in Int /\ c \in Int /\ (q = None \/ IsProof(q)) /\ Known(p, j)
    BY <1>3, <2>1 DEF SoundRow
  <2>3. b = Of(j, c, p, h, s, k, g, d, a, chain, q)
    BY <1>4, <2>1
  <2> QED BY <2>2, <2>3 DEF SoundRow, IsRow
<1>6. SoundFile([f EXCEPT ![i].body = b])
  <2>1. Sound(Line(f[i].kind, b))
    BY <1>5 DEF Sound, Line
  <2> QED BY <2>1, NewBodyIsSound
<1>7. [f EXCEPT ![i].body.covered_by.chain = chain] = [f EXCEPT ![i].body = b]
  BY <1>2, <1>4
<1> QED BY <1>6, <1>7

(* The lines that neither are nor name an anchor, in the order of the file.*)
LEMMA WithoutBatch ==
    ASSUME NEW S, NEW f \in Seq(S), NEW id
    PROVE  InListOrder(Without(f, id), f,
               {i \in DOMAIN f : ((f[i].kind = "anchor" => f[i].body.id # id)
                                  /\ (f[i].kind = "ai_audit" => f[i].body.covered_by.anchor_id # id))})
<1> DEFINE Test(i) == ((f[i].kind = "anchor" => f[i].body.id # id)
                       /\ (f[i].kind = "ai_audit" => f[i].body.covered_by.anchor_id # id))
           P(i) == {j \in DOMAIN f : /\ Test(j)
                                     /\ FALSE \/ (~FALSE /\ j < i)}
           R == {i \in DOMAIN f : Test(i)}
           Nth(k) == CHOOSE i \in DOMAIN f : /\ Test(i)
                                             /\ k = 1 + Cardinality(P(i))
           c == [k \in 1..Cardinality(R) |-> Nth(k)]
<1>1. PICK key : key = [i \in DOMAIN f |-> 0]
  OBVIOUS
<1>2. Len(f) \in Nat /\ DOMAIN f = 1..Len(f) /\ R \subseteq 1..Len(f)
  OBVIOUS
<1>3. Without(f, id) = [k \in 1..Cardinality(R) |-> f[c[k]]] \o <<>>
  <2>1. Without(f, id) = [k \in 1..Cardinality(R) |-> f[Nth(k)]] \o <<>>
    BY DEF Without, Selected, Arranged
  <2> HIDE DEF Nth, R
  <2> QED BY <2>1
<1>4. ASSUME NEW i \in R PROVE P(i) = Under(R, key, i)
  <2>1. \A j \in R : key[j] = 0
    BY <1>1
  <2>2. P(i) = {j \in R : j < i}
    OBVIOUS
  <2>3. \A j \in R : (key[j] < key[i] \/ (~(key[i] < key[j]) /\ j < i)) <=> j < i
    BY <1>2, <1>4, <2>1
  <2> HIDE DEF P, R
  <2>4. \A j : j \in Under(R, key, i) <=> j \in R /\ j < i
    BY <2>3 DEF Under
  <2> QED BY <2>2, <2>4
<1>5. ASSUME NEW k \in 1..Cardinality(R),
             \E i \in R : k = 1 + Cardinality(Under(R, key, i))
      PROVE  c[k] \in R /\ k = 1 + Cardinality(Under(R, key, c[k]))
  <2>1. \A i : i \in R <=> i \in DOMAIN f /\ Test(i)
    OBVIOUS
  <2> HIDE DEF P, R, Test
  <2>2. \E i \in DOMAIN f : /\ Test(i)
                            /\ k = 1 + Cardinality(P(i))
    BY <1>4, <1>5, <2>1
  <2>3. c[k] \in DOMAIN f /\ Test(c[k]) /\ k = 1 + Cardinality(P(c[k]))
    BY <2>2
  <2> QED BY <1>4, <2>1, <2>3
<1> HIDE DEF c, R
<1>6. \A i \in R : key[i] \in Int
  BY <1>1, <1>2
<1>7. ArrangedByKey(Without(f, id), f, R, key)
  BY <1>2, <1>3, <1>5, <1>6, Arranging
<1> QED BY <1>1, <1>7 DEF InListOrder, R

(* No fault makes a line that is not sound. *)
LEMMA SpoilKeepsFile ==
    ASSUME Database, SoundFile(file), Spoil
    PROVE  /\ SoundFile(file)' /\ UNCHANGED <<stage, gateway, export, vars>>
           /\ stage \in {"draft", "transit"}
<1>1. UNCHANGED <<stage, gateway, export, vars>> /\ stage \in {"draft", "transit"}
  BY DEF Spoil, Reorder, Newer, Omit, Repeat, OmitBatch, Relabel, Lose, Truncate,
         Duplicate, Misplace, Blank, Garble, Alter, Twin, Fault
<1>2. PICK g : g = file'
  OBVIOUS
<1>3. Sound(Line("other", None)) /\ Sound(Line("blank", None)) /\ Sound(Line("malformed", None))
  BY DEF Sound, Line
<1>4. ASSUME NEW l, Sound(l), g \in LinesSwapped(file) \/ g \in WithLine(file, l)
                  \/ g \in LineLost(file) \/ g \in LineRepeated(file) \/ g \in EndLost(file)
                  \/ g \in LastMoved(file)
      PROVE  SoundFile(g)
  <2>1. PICK S : file \in Seq(S) /\ l \in S /\ \A x \in S : Sound(x)
    BY <1>4, LinesOfFile
  <2>2. g \in Seq(S)
    BY <1>4, <2>1, LinesLeft
  <2> QED BY <2>1, <2>2, SoundLines
<1>5. ASSUME \/ Reorder \/ Newer \/ Omit \/ Repeat \/ Lose \/ Truncate \/ Duplicate
             \/ Misplace \/ Blank
      PROVE  SoundFile(g)
  BY <1>2, <1>3, <1>4, <1>5 DEF Reorder, Newer, Omit, Repeat, Lose, Truncate, Duplicate,
     Misplace, Blank, Fault
<1>6. ASSUME Garble PROVE SoundFile(g)
  <2>1. PICK i \in DOMAIN file : g = [file EXCEPT ![i] = Line("malformed", None)]
    BY <1>2, <1>6 DEF Garble, Fault, LineGarbled
  <2> QED BY <1>3, <2>1, ReplacedIsSound
<1>7. ASSUME OmitBatch PROVE SoundFile(g)
  <2>1. PICK id : g = Without(file, id)
    BY <1>2, <1>7 DEF OmitBatch, Fault
  <2>2. PICK S : file \in Seq(S) /\ \A x \in S : Sound(x)
    BY <1>3, LinesOfFile
  <2>3. PICK R : R = {i \in DOMAIN file :
                        ((file[i].kind = "anchor" => file[i].body.id # id)
                         /\ (file[i].kind = "ai_audit" => file[i].body.covered_by.anchor_id # id))}
    OBVIOUS
  <2>4. InListOrder(g, file, R)
    BY <2>1, <2>2, <2>3, WithoutBatch
  <2>5. g \in Seq(S)
    BY <2>2, <2>3, <2>4, SelectedTyped
  <2> QED BY <2>2, <2>5, SoundLines
<1>8. ASSUME Alter PROVE SoundFile(g)
  <2>1. PICK i \in DOMAIN file : g \in {[file EXCEPT ![i].body = b] : b \in Altered(file[i])}
    BY <1>2, <1>8 DEF Alter, Fault
  <2>2. PICK b \in Altered(file[i]) : g = [file EXCEPT ![i].body = b]
    BY <2>1
  <2>3. Sound(file[i])
    BY DEF SoundFile
  <2> QED BY <2>2, <2>3, AlteredIsSound, NewBodyIsSound
<1>9. ASSUME Relabel PROVE SoundFile(g)
  <2>1. g \in Relabelled(file)
    BY <1>2, <1>9 DEF Relabel, Fault
  <2>2. PICK i \in DOMAIN file, chain \in TenantChain \cup {"fleet"} :
            /\ file[i].kind = "ai_audit"
            /\ g = [file EXCEPT ![i].body.covered_by.chain = chain]
    BY <2>1 DEF Relabelled
  <2> QED BY <2>2, RelabelledIsSound
<1>10. ASSUME Twin PROVE SoundFile(g)
  <2>1. g \in Twinned(file)
    BY <1>2, <1>10 DEF Twin, Fault
  <2>2. PICK i \in DOMAIN file :
            g \in {InsertAt(file, k, Line(file[i].kind, b)) :
                      k \in {i, i + 1}, b \in Altered(file[i])}
    BY <2>1 DEF Twinned
  <2>3. PICK k \in {i, i + 1}, b \in Altered(file[i]) :
            g = InsertAt(file, k, Line(file[i].kind, b))
    BY <2>2
  <2>4. PICK l : l = Line(file[i].kind, b)
    OBVIOUS
  <2>5. Sound(l)
    <3>1. Sound(file[i])
      BY DEF SoundFile
    <3> QED BY <2>3, <2>4, <3>1, AlteredIsSound
  <2>6. DOMAIN file = 1..Len(file) /\ Len(file) \in Nat
    BY DEF SoundFile, IsListOf
  <2>7. k \in 1..(Len(file) + 1)
    BY <2>3, <2>6
  <2> QED BY <1>4, <2>3, <2>4, <2>5, <2>7 DEF WithLine
<1>11. SoundFile(g)
  BY <1>5, <1>6, <1>7, <1>8, <1>9, <1>10 DEF Spoil
<1>12. SoundFile(g)'
  BY <1>1, <1>11, SoundStable DEF gateway
<1>13. SoundFile(file)'
  BY <1>2, <1>12 DEF SoundFile
<1> QED BY <1>1, <1>13

(* A row as the exporter writes it.                                        *)
LEMMA RowMade ==
    ASSUME Database, NEW n \in 1..Len(log), NEW e, e = log[n],
           NEW id, NEW chain, NEW proof, proof = None \/ IsProof(proof)
    PROVE  SoundRow(MakeRow(e, id, chain, proof))
<1>1. PICK h, s, k, g, p : /\ h = Sha256(Payload(e)) /\ p = Payload(e)
                           /\ s = (IF e.signed THEN Sign("ed25519", RowKey, h) ELSE None)
                           /\ k = (IF e.signed THEN KeyId(RowKey) ELSE None)
                           /\ g = (IF e.signed THEN "ed25519" ELSE None)
  OBVIOUS
<1>2. PICK r : r = MakeRow(e, id, chain, proof)
  OBVIOUS
<1>3. r = [id |-> e.id, created_at |-> e.created_at, payload |-> p, payload_hash |-> h,
           signature |-> s, signing_key_id |-> k, sig_alg |-> g, signed |-> e.signed,
           covered_by |-> [anchor_id |-> id, chain |-> chain], inclusion_proof |-> proof]
  BY <1>1, <1>2 DEF MakeRow
<1>4. IsRow(r)
  BY <1>3 DEF IsRow
<1>5. IsEntry(e) /\ e.id = n
  BY DEF Database, RowsLogged
<1>6. r.id \in Int /\ r.created_at \in Int /\ (r.inclusion_proof = None \/ IsProof(r.inclusion_proof))
  BY <1>3, <1>5 DEF IsEntry
<1>7. Known(r.payload, r.id)
  <2>1. r.payload = Payload(log[n]) /\ r.id = n /\ Len(log) \in Nat
    BY <1>1, <1>3, <1>5, LastToOf
  <2> QED BY <2>1 DEF Known
<1> QED BY <1>2, <1>4, <1>6, <1>7 DEF SoundRow

(* What an export shows of the batches. *)
Window(lo, hi) == SubSeq(batches, lo, hi)

(* The batches of a window are batches. *)
LEMMA WindowOf ==
    ASSUME Database, NEW lo \in 1..Len(batches), NEW hi \in lo..Len(batches), NEW window,
           window = Window(lo, hi)
    PROVE  /\ window \in Seq(Range(batches)) /\ Len(window) = hi - lo + 1
           /\ DOMAIN window = 1..Len(window)
           /\ \A k \in 1..Len(window) : /\ window[k] = batches[lo + k - 1]
                                        /\ lo + k - 1 \in 1..Len(batches)
           /\ \A b \in Range(window) : \E n \in 1..Len(batches) : b = batches[n]
<1>1. PICK S : S = Range(batches)
  OBVIOUS
<1>2. batches \in Seq(S) /\ Len(batches) \in Nat
  BY <1>1 DEF Database, IsListOf
<1>3. lo \in Nat \ {0} /\ hi \in 0..Len(batches) /\ lo <= hi
  BY <1>2
<1>4. /\ window \in Seq(S) /\ Len(window) = hi - lo + 1
      /\ \A k \in 1..Len(window) : window[k] = batches[lo + k - 1]
  BY <1>2, <1>3, PartOf DEF Window
<1>5. DOMAIN window = 1..Len(window)
  BY <1>4
<1>6. \A k \in 1..Len(window) : lo + k - 1 \in 1..Len(batches)
  BY <1>2, <1>3, <1>4
<1>7. ASSUME NEW b \in Range(window) PROVE \E n \in 1..Len(batches) : b = batches[n]
  <2>1. PICK k \in 1..Len(window) : b = window[k]
    BY <1>5, <1>7 DEF Range
  <2> QED BY <1>4, <1>6, <2>1
<1> QED BY <1>1, <1>4, <1>5, <1>6, <1>7

(* A row of the window is exported with the anchor, and the place, it has. *)
LEMMA ExportedRow ==
    ASSUME Database, NEW lo \in 1..Len(batches), NEW hi \in lo..Len(batches), NEW window,
           window = Window(lo, hi), NEW e \in InWindow(window)
    PROVE  SoundRow(Exported(e, window))
<1>1. PICK b : b = CHOOSE x \in Range(window) : e \in Range(x.rows)
  OBVIOUS
<1>2. b \in Range(window) /\ e \in Range(b.rows)
  BY <1>1 DEF InWindow
<1>3. PICK n \in 1..Len(batches) : b = batches[n]
  <2>1. \A x \in Range(window) : \E n \in 1..Len(batches) : x = batches[n]
    BY WindowOf
  <2> QED BY <1>2, <2>1
<1>4. PICK rows : rows = b.rows
  OBVIOUS
<1>5. /\ IsListOf(rows) /\ Len(rows) \in 1..MaxInt /\ DOMAIN rows = 1..Len(rows)
      /\ \A k \in 1..Len(rows) : rows[k] = log[rows[k].id] /\ rows[k].id \in 1..Len(log)
  <2>1. Covering(n) /\ Sealing(n) /\ Len(log) \in Nat
    BY LastToOf DEF Database
  <2>2. /\ IsListOf(rows) /\ Len(rows) \in 1..MaxInt
        /\ \A k \in 1..Len(rows) :
              /\ rows[k] = log[rows[k].id]
              /\ rows[k].id \in batches[n].anchor.from_id..batches[n].anchor.to_id
    BY <1>3, <1>4, <2>1 DEF Sealing
  <2>3. batches[n].anchor.from_id \in Nat \ {0}
        /\ batches[n].anchor.to_id \in batches[n].anchor.from_id..Len(log)
    BY <2>1 DEF Covering
  <2>4. \A k \in 1..Len(rows) : rows[k].id \in 1..Len(log)
    <3>1. PICK x, y : x = batches[n].anchor.from_id /\ y = batches[n].anchor.to_id
      OBVIOUS
    <3>2. \A m \in x..y : m \in 1..Len(log)
      BY <2>1, <2>3, <3>1
    <3> QED BY <2>2, <3>1, <3>2
  <2>5. DOMAIN rows = 1..Len(rows)
    BY <2>2 DEF IsListOf
  <2> QED BY <2>2, <2>4, <2>5
<1>6. PICK i : i = CHOOSE k \in DOMAIN rows : rows[k] = e
  OBVIOUS
<1>7. i \in 1..Len(rows) /\ rows[i] = e
  <2>1. \E k \in DOMAIN rows : rows[k] = e
    BY <1>2, <1>4 DEF Range
  <2> QED BY <1>5, <1>6, <2>1
<1>8. PICK m \in 1..Len(log) : e = log[m]
  BY <1>5, <1>7
<1>9. PICK p : p = ProofFor(Leaves(rows), i - 1)
  OBVIOUS
<1>10. IsProof(p)
  <2>1. PICK s : s = Leaves(rows)
    OBVIOUS
  <2>2. IsSeq(s) /\ Len(s) = Len(rows)
    BY <1>5, <2>1, LeavesOf
  <2>3. PICK j, t : j = i - 1 /\ t = MerkleAuditPath(s, i - 1)
    OBVIOUS
  <2>4. IsSeq(t) /\ j \in Nat /\ Len(s) \in 0..(2 * MaxInt + 1)
    BY <1>5, <1>7, <2>2, <2>3, AuditPathIsSeq, WidthAssumption
  <2>5. p = [leaf_index |-> j, leaf_count |-> Len(s), path |-> t]
    BY <1>9, <2>1, <2>3 DEF ProofFor
  <2> QED BY <2>4, <2>5 DEF IsProof
<1>11. PICK q : q = IF b.anchor.chain = "fleet" THEN p ELSE None
  OBVIOUS
<1>12. q = None \/ IsProof(q)
  BY <1>10, <1>11
<1>13. Exported(e, window) = MakeRow(e, b.anchor.id, b.anchor.chain, q)
  BY <1>1, <1>4, <1>6, <1>9, <1>11 DEF Exported
<1> QED BY <1>8, <1>12, <1>13, RowMade

(* The lines of a kind, one for each body. *)
LEMMA LinesMade ==
    ASSUME NEW kind, NEW n \in Nat, NEW bodies, bodies = [i \in 1..n |-> bodies[i]],
           \A i \in 1..n : Sound(Line(kind, bodies[i]))
    PROVE  /\ \E S : Lines(kind, bodies) \in Seq(S) /\ \A l \in S : Sound(l)
           /\ Len(Lines(kind, bodies)) = n
           /\ \A i \in 1..n : Lines(kind, bodies)[i] = Line(kind, bodies[i])
<1>1. PICK S : S = {Line(kind, bodies[i]) : i \in 1..n}
  OBVIOUS
<1>2. PICK u : u = Lines(kind, bodies)
  OBVIOUS
<1>3. DOMAIN bodies = 1..n
  OBVIOUS
<1>4. u = [i \in 1..n |-> Line(kind, bodies[i])]
  BY <1>2, <1>3 DEF Lines
<1>5. \A i \in 1..n : Line(kind, bodies[i]) \in S
  BY <1>1
<1>6. u \in Seq(S) /\ Len(u) = n /\ \A i \in 1..n : u[i] = Line(kind, bodies[i])
  BY <1>4, <1>5
<1>7. \A l \in S : Sound(l)
  BY <1>1
<1> QED BY <1>2, <1>6, <1>7
(* The tenant's rows of a window, and the records made of them.            *)
RowsIn(window) == Selected(log, LAMBDA e : e.tenant = TenantId /\ e \in InWindow(window))

RowsShown(window) ==
    LET rows == RowsIn(window)
    IN  [i \in DOMAIN rows |-> Exported(rows[i], window)]

(* They are a list of sound rows.                                          *)
LEMMA ExportedRows ==
    ASSUME Database, NEW lo \in 1..Len(batches), NEW hi \in lo..Len(batches), NEW window,
           window = Window(lo, hi), NEW own, own = RowsShown(window)
    PROVE  \E m \in Nat : own = [i \in 1..m |-> own[i]] /\ \A i \in 1..m : SoundRow(own[i])
<1>1. PICK S, W, rows : S = Range(log) /\ W = InWindow(window) /\ rows = RowsIn(window)
  OBVIOUS
<1>2. PICK R : R = {i \in DOMAIN log : (log[i].tenant = TenantId /\ log[i] \in W)}
  OBVIOUS
<1>3. log \in Seq(S)
  BY <1>1 DEF Database, RowsLogged, IsListOf
<1>4. rows = Selected(log, LAMBDA e : e.tenant = TenantId /\ e \in W)
  BY <1>1 DEF RowsIn
<1>5. InListOrder(rows, log, R)
  BY <1>3, <1>2, <1>4, WindowSelected
<1>6. rows \in Seq(S) /\ \A k \in 1..Len(rows) : \E i \in R : rows[k] = log[i]
  <2>1. R \subseteq DOMAIN log
    BY <1>2
  <2> QED BY <1>3, <1>5, <2>1, SelectedTyped
<1>7. /\ Len(rows) \in Nat /\ DOMAIN rows = 1..Len(rows)
      /\ own = [i \in 1..Len(rows) |-> Exported(rows[i], window)]
  BY <1>1, <1>6 DEF RowsShown
<1>8. ASSUME NEW i \in 1..Len(rows) PROVE SoundRow(own[i])
  <2>1. rows[i] \in InWindow(window)
    BY <1>1, <1>2, <1>6
  <2>2. SoundRow(Exported(rows[i], window))
    BY <2>1, ExportedRow
  <2> QED BY <1>7, <2>2
<1> QED BY <1>7, <1>8

(* Lines that are sound make sound records. *)
LEMMA RecordsAreSound ==
    ASSUME NEW a, NEW r, NEW c,
           NEW A, Lines("audit", a) \in Seq(A), \A l \in A : Sound(l),
           NEW R, Lines("ai_audit", r) \in Seq(R), \A l \in R : Sound(l),
           NEW C, Lines("anchor", c) \in Seq(C), \A l \in C : Sound(l)
    PROVE  SoundFile(Records(a, r, c))
<1>1. PICK t, u, v : t = Lines("audit", a) /\ u = Lines("ai_audit", r) /\ v = Lines("anchor", c)
  OBVIOUS
<1>2. PICK x, y : x = Line("header", Header) /\ y = Line("signing_keys", [keys |-> SigningKeys])
  OBVIOUS
<1>3. Sound(x) /\ Sound(y)
  <2>1. IsListOf(SigningKeys)
    <3>1. PICK k1, k2, k3 : SigningKeys = <<k1, k2, k3>>
      BY DEF SigningKeys
    <3>2. SigningKeys \in Seq({k1, k2, k3})
      BY <3>1
    <3> QED BY <3>2, AnyList
  <2>2. Header \in Headers
    BY DEF Header, Headers
  <2> QED BY <1>2, <2>1, <2>2 DEF Sound, Line
<1>4. PICK S : S = A \cup R \cup C \cup {x, y}
  OBVIOUS
<1>5. \A l \in S : Sound(l)
  BY <1>3, <1>4
<1>6. A \subseteq S /\ R \subseteq S /\ C \subseteq S /\ <<x, y>> \in Seq(S)
  BY <1>4
<1>7. t \in Seq(S) /\ u \in Seq(S) /\ v \in Seq(S)
  BY <1>1, <1>6
<1>8. ((<<x, y>> \o t) \o u) \o v \in Seq(S)
  BY <1>6, <1>7
<1>9. Records(a, r, c) = ((<<x, y>> \o t) \o u) \o v
  BY <1>1, <1>2 DEF Records
<1> QED BY <1>5, <1>8, <1>9, SoundLines

(* The handoff an export declares is one.                                  *)
LEMMA HandoffMade ==
    ASSUME Database, NEW window, NEW seam \in BOOLEAN,
           \A b \in Range(window) : \E n \in 1..Len(batches) : b = batches[n],
           seam => \E b \in Range(window) : b.anchor.chain = OwnChain
    PROVE  (IF seam THEN HandoffAt(cursor) ELSE None) \in Handoffs
<1>1. CASE ~seam
  BY <1>1 DEF Handoffs
<1>2. CASE seam
  <2>1. PICK n \in 1..Len(batches) : batches[n].anchor.chain = OwnChain
    BY <1>2
  <2>2. cursor # None
    BY <2>1, LabelAssumption, OwnChainAssumption DEF Database
  <2>3. cursor \in MinInt..MaxInt
    <3>1. cursor \in 0..LastTo /\ LastTo \in 0..Len(log) /\ Len(log) \in Nat /\ Len(log) <= MaxInt
      BY <2>2, LastToOf DEF Database
    <3> QED BY <3>1, WidthAssumption DEF MinInt
  <2>4. cursor + 1 \in Int
    BY <2>3, WidthAssumption DEF MinInt
  <2> QED BY <1>2, <2>3, <2>4 DEF Handoffs, HandoffAt
<1> QED BY <1>1, <1>2

(* What the exporter writes: audit rows, the rows and anchors of a window  *)
(* of at least one batch.                                                  *)
LEMMA ExportWrites ==
    ASSUME Database, NEW lo \in 1..Len(batches), NEW hi \in lo..Len(batches), Export(lo, hi)
    PROVE  /\ \E a, r, c : /\ IsListOf(a) /\ IsListOf(r) /\ IsListOf(c) /\ Len(c) > 0
                           /\ file' = Records(a, r, c)
           /\ \E f : f = file' /\ SoundFile(f)
           /\ handoff' \in Handoffs /\ original' = SealedPack(file', handoff')
           /\ stage = "live" /\ stage' = "draft"
           /\ UNCHANGED <<gateway, faults, vars>>
<1>1. PICK window : window = Window(lo, hi)
  OBVIOUS
<1>3. PICK a, r, c : /\ a = [i \in 1..AuditRows |-> i]
                     /\ r = RowsShown(window)
                     /\ c = [i \in DOMAIN window |-> window[i].anchor]
  OBVIOUS
<1>4. PICK f : f = Records(a, r, c)
  OBVIOUS
<1>5. PICK seam : seam = /\ OnChain("fleet") # <<>>
                         /\ \E b \in Range(window) :
                               b.anchor.chain = OwnChain /\ b.anchor.prev_anchor_id = None
  OBVIOUS
<1>6. /\ stage = "live" /\ stage' = "draft" /\ file' = f
      /\ handoff' = (IF seam THEN HandoffAt(cursor) ELSE None)
      /\ original' = SealedPack(f, handoff')
      /\ UNCHANGED <<gateway, faults, vars>>
  BY <1>1, <1>3, <1>4, <1>5 DEF Export, Window, RowsShown, RowsIn
<1>7. /\ Len(window) = hi - lo + 1 /\ DOMAIN window = 1..Len(window)
      /\ \A k \in 1..Len(window) : /\ window[k] = batches[lo + k - 1]
                                   /\ lo + k - 1 \in 1..Len(batches)
      /\ \A b \in Range(window) : \E n \in 1..Len(batches) : b = batches[n]
  <2>1. Len(window) = hi - lo + 1 /\ DOMAIN window = 1..Len(window)
    BY <1>1, WindowOf
  <2>2. \A k \in 1..Len(window) : /\ window[k] = batches[lo + k - 1]
                                  /\ lo + k - 1 \in 1..Len(batches)
    BY <1>1, WindowOf
  <2>3. \A b \in Range(window) : \E n \in 1..Len(batches) : b = batches[n]
    BY <1>1, WindowOf
  <2> QED BY <2>1, <2>2, <2>3
<1>8. PICK n : n = Len(window)
  OBVIOUS
<1>9. n \in Nat \ {0} /\ lo \in Int /\ hi \in Int
  BY <1>7, <1>8, LastToOf
<1>10. PICK m \in Nat : r = [i \in 1..m |-> r[i]] /\ \A i \in 1..m : SoundRow(r[i])
  BY <1>1, <1>3, ExportedRows
<1>11. c = [i \in 1..n |-> c[i]] /\ \A i \in 1..n : SoundAnchor(c[i])
  <2>1. ASSUME NEW i \in 1..n PROVE SoundAnchor(c[i])
    <3>1. PICK k \in 1..Len(batches) : window[i] = batches[k]
      BY <1>7, <1>8
    <3>2. c[i] = batches[k].anchor
      BY <1>3, <1>7, <1>8, <3>1
    <3> QED BY <3>2, BatchIsSound
  <2> QED BY <1>3, <1>7, <1>8, <2>1
<1>12. AuditRows \in Nat /\ a = [i \in 1..AuditRows |-> a[i]]
  BY <1>3, SchedulesAssumption
<1>13. /\ \A i \in 1..AuditRows : Sound(Line("audit", a[i]))
       /\ \A i \in 1..m : Sound(Line("ai_audit", r[i]))
       /\ \A i \in 1..n : Sound(Line("anchor", c[i]))
  BY <1>10, <1>11 DEF Sound, Line
<1>14. PICK A : Lines("audit", a) \in Seq(A) /\ \A l \in A : Sound(l)
  BY <1>12, <1>13, LinesMade
<1>15. PICK R : Lines("ai_audit", r) \in Seq(R) /\ \A l \in R : Sound(l)
  BY <1>10, <1>13, LinesMade
<1>16. PICK C : Lines("anchor", c) \in Seq(C) /\ \A l \in C : Sound(l)
  BY <1>9, <1>11, <1>13, LinesMade
<1>17. SoundFile(f)
  BY <1>4, <1>14, <1>15, <1>16, RecordsAreSound
<1>18. handoff' \in Handoffs
  <2>1. seam \in BOOLEAN /\ (seam => \E b \in Range(window) : b.anchor.chain = OwnChain)
    BY <1>5
  <2> QED BY <1>6, <1>7, <2>1, HandoffMade
<1>19. ASSUME NEW k \in Nat, NEW s, s = [i \in 1..k |-> s[i]] PROVE IsListOf(s) /\ Len(s) = k
  <2>1. s \in Seq({s[i] : i \in 1..k}) /\ Len(s) = k
    BY <1>19
  <2> QED BY <2>1, AnyList
<1>20. IsListOf(a) /\ IsListOf(r) /\ IsListOf(c) /\ Len(c) > 0
  <2>1. IsListOf(a)
    BY <1>12, <1>19
  <2>2. IsListOf(r)
    BY <1>10, <1>19
  <2>3. IsListOf(c) /\ Len(c) = n
    BY <1>9, <1>11, <1>19
  <2> QED BY <1>9, <2>1, <2>2, <2>3
<1> QED BY <1>4, <1>6, <1>17, <1>18, <1>20

(* The manifest that closes a file. *)
LEMMA SealedIsSound ==
    ASSUME NEW f, SoundFile(f), NEW h \in Handoffs
    PROVE  SoundFile(SealedPack(f, h))
<1>1. Len(f) \in Nat /\ DOMAIN f = 1..Len(f)
  BY DEF SoundFile, IsListOf
<1>2. \A I : I \subseteq DOMAIN f => Cardinality(I) \in Nat
  <2>1. IsFiniteSet(DOMAIN f)
    BY <1>1, CountTo
  <2> QED BY <2>1, FS_Subset, FS_CardinalityType
<1>3. PICK b, r, g, a : /\ b = Cardinality({i \in DOMAIN f : f[i].kind = "audit"})
                        /\ r = Cardinality({i \in DOMAIN f : f[i].kind = "ai_audit"})
                        /\ g = Cardinality({i \in DOMAIN f : f[i].kind = "ai_audit"
                                                             /\ f[i].body.signed})
                        /\ a = Cardinality({i \in DOMAIN f : f[i].kind = "anchor"})
  OBVIOUS
<1>4. b \in Nat /\ r \in Nat /\ g \in Nat /\ a \in Nat
  BY <1>2, <1>3
<1>5. PICK m : m = ManifestOf(f, h)
  OBVIOUS
<1>6. m = [format_version |-> 2, tenant_id |-> TenantId,
           counts |-> [audit |-> b, ai_audit |-> r, ai_signed |-> g, anchors |-> a],
           signing_key_ids |-> {KeyId(FleetKey), KeyId(TenantKey)}, genesis_handoff |-> h]
  BY <1>3, <1>5 DEF ManifestOf, Count
<1>7. m \in Manifests
  BY <1>4, <1>6 DEF Manifests
<1>8. PICK l : l = Line("manifest", m)
  OBVIOUS
<1>9. Sound(l)
  BY <1>7, <1>8 DEF Sound, Line
<1>10. PICK S : f \in Seq(S) /\ l \in S /\ \A x \in S : Sound(x)
  BY <1>9, LinesOfFile
<1>11. Append(f, l) \in Seq(S)
  BY <1>10
<1>12. SoundFile(Append(f, l))
  BY <1>10, <1>11, SoundLines
<1> QED BY <1>5, <1>8, <1>12 DEF SealedPack

-----------------------------------------------------------------------------
(* The invariant holds *)

(* A text that can be delivered is one verify() can be handed.             *)
LEMMA FileIsText ==
    ASSUME SoundFile(file)
    PROVE  IsText(file)
<1>1. Len(file) \in Nat /\ DOMAIN file = 1..Len(file)
  BY DEF SoundFile, IsListOf
<1>2. ASSUME NEW i \in DOMAIN file
      PROVE  /\ file[i].kind = "signing_keys" =>
                   file[i].body.keys \in Seq(Range(file[i].body.keys))
             /\ file[i].kind \in {"header", "manifest"} => file[i].body # None
  <2>1. Sound(file[i])
    BY DEF SoundFile
  <2>2. file[i].kind = "signing_keys" => IsListOf(file[i].body.keys)
    BY <2>1 DEF Sound
  <2>3. file[i].kind \in {"header", "manifest"} => file[i].body # None
    BY <2>1, RecordAssumption DEF Sound
  <2> QED BY <2>2, <2>3 DEF IsListOf
<1> QED BY <1>1, <1>2 DEF IsText

(* A check is never followed by the start. *)
LEMMA NeverBack ==
    ASSUME Inv, Verify
    PROVE  pc # "idle" /\ pc' # "idle" /\ pack' = pack
<1>1. CASE Parse
  BY <1>1 DEF Parse, ReadBlank, ReadHeader, ReadSigningKeys, ReadAudit, ReadAiAudit,
     ReadAnchor, ReadManifest, ReadOther, ReadMalformed, ParseDone, AtLine
<1>2. CASE Check
  BY <1>2, CheckVerdict DEF Inv
<1> QED BY <1>1, <1>2 DEF Verify

(* Every row logged, anchor, export, fault and step of verify().           *)
LEMMA StepSystem == SystemInv /\ [SystemNext]_<<system, vars>> => SystemInv'
<1> SUFFICES ASSUME SystemInv, [SystemNext]_<<system, vars>> PROVE SystemInv'
  OBVIOUS
<1> USE DEF SystemInv
<1>1. ASSUME UNCHANGED gateway PROVE Database'
  <2>1. log' = log /\ batches' = batches /\ cursor' = cursor /\ LastTo' = LastTo
    BY <1>1 DEF gateway, LastTo
  <2>2. ASSUME NEW n \in 1..Len(batches) PROVE Covering(n)' /\ Sealing(n)' /\ Linked(n)'
    <3>1. Covering(n) /\ Sealing(n) /\ Linked(n)
      BY DEF Database
    <3> QED BY <2>1, <3>1 DEF Covering, Sealing, Linked, OnSame
  <2>3. RowsLogged' /\ FleetFirst'
    BY <2>1 DEF Database, RowsLogged, FleetFirst
  <2> QED BY <2>1, <2>2, <2>3 DEF Database
<1>2. ASSUME UNCHANGED vars PROVE Inv' /\ Listing'
  BY <1>2, StepInv, StepListing
<1>3. ASSUME UNCHANGED <<gateway, file>> PROVE SoundFile(file)'
  <2>1. PICK f : f = file
    OBVIOUS
  <2>2. SoundFile(f)'
    BY <1>3, <2>1, SoundStable DEF Delivered, gateway
  <2> QED BY <1>3, <2>1, <2>2 DEF SoundFile
<1>4. ASSUME UNCHANGED vars PROVE pc' = pc /\ pack' = pack
  BY <1>4 DEF vars
<1>5. ASSUME Gateway PROVE SystemInv'
  <2>1. /\ UNCHANGED vars /\ UNCHANGED <<stage, file, handoff>> /\ stage = "live"
        /\ Database'
    BY <1>5, GatewayKeepsDatabase DEF Gateway, LogRow, FleetTick, Handoff, SovereignTick,
       AnchorRows, export
  <2>2. file' = <<>>
    BY <2>1 DEF Delivered, Stages
  <2>3. SoundFile(file)'
    BY <2>2 DEF SoundFile, IsListOf
  <2> QED BY <1>2, <1>4, <2>1, <2>2, <2>3 DEF Delivered, Stages
<1>6. ASSUME NEW lo \in DOMAIN batches, NEW hi \in DOMAIN batches, lo <= hi, Export(lo, hi)
      PROVE  SystemInv'
  <2>1. DOMAIN batches = 1..Len(batches) /\ Len(batches) \in Nat
    BY LastToOf
  <2>2. lo \in 1..Len(batches) /\ hi \in lo..Len(batches)
    BY <1>6, <2>1
  <2>3. PICK f : f = file' /\ SoundFile(f)
    BY <1>6, <2>2, ExportWrites
  <2>4. /\ handoff' \in Handoffs /\ stage = "live" /\ stage' = "draft"
        /\ UNCHANGED gateway /\ UNCHANGED vars
    BY <1>6, <2>2, ExportWrites
  <2>5. SoundFile(file)'
    <3>1. SoundFile(f)'
      BY <2>3, <2>4, SoundStable DEF gateway
    <3> QED BY <2>3, <3>1 DEF SoundFile
  <2> QED BY <1>1, <1>2, <1>4, <2>4, <2>5 DEF Delivered, Stages
<1>7. ASSUME Spoil PROVE SystemInv'
  <2>1. /\ SoundFile(file)' /\ UNCHANGED <<stage, gateway, export, vars>>
        /\ stage \in {"draft", "transit"}
    BY <1>7, SpoilKeepsFile DEF Delivered
  <2> QED BY <1>1, <1>2, <1>4, <2>1 DEF Delivered, Stages, export
<1>8. ASSUME Seal PROVE SystemInv'
  <2>1. PICK f : f = SealedPack(file, handoff)
    OBVIOUS
  <2>2. /\ stage = "draft" /\ stage' = "transit" /\ file' = f
        /\ UNCHANGED gateway /\ UNCHANGED handoff /\ UNCHANGED vars
    BY <1>8, <2>1 DEF Seal, export
  <2>3. SoundFile(f)
    BY <2>1, SealedIsSound DEF Delivered, Stages
  <2>4. SoundFile(file)'
    <3>1. SoundFile(f)'
      BY <2>2, <2>3, SoundStable DEF gateway
    <3> QED BY <2>2, <3>1 DEF SoundFile
  <2> QED BY <1>1, <1>2, <1>4, <2>2, <2>4 DEF Delivered, Stages
<1>9. ASSUME Deliver PROVE SystemInv'
  <2>1. /\ stage = "transit" /\ stage' = "verify" /\ Submit(file)
        /\ UNCHANGED gateway /\ UNCHANGED <<handoff, file>>
    BY <1>9 DEF Deliver, export
  <2>2. IsText(file)
    BY FileIsText DEF Delivered
  <2>3. Inv' /\ Listing'
    BY <2>1, <2>2, StepInv, StepListing
  <2>4. pc' = "parse" /\ pack' = file
    BY <2>1 DEF Submit
  <2> QED BY <1>1, <1>3, <2>1, <2>3, <2>4 DEF Delivered, Stages
<1>10. ASSUME Verify, UNCHANGED system PROVE SystemInv'
  <2>1. UNCHANGED gateway /\ UNCHANGED <<stage, handoff, file>>
    BY <1>10 DEF system, export
  <2>2. Inv' /\ Listing' /\ pc # "idle" /\ pc' # "idle" /\ pack' = pack
    BY <1>10, StepInv, StepListing, NeverBack
  <2> QED BY <1>1, <1>3, <2>1, <2>2 DEF Delivered, Stages
<1>11. ASSUME UNCHANGED <<system, vars>> PROVE SystemInv'
  <2>1. UNCHANGED gateway /\ UNCHANGED <<stage, handoff, file>> /\ UNCHANGED vars
    BY <1>11 DEF system, export
  <2> QED BY <1>1, <1>2, <1>3, <1>4, <2>1 DEF Delivered, Stages
<1> QED BY <1>5, <1>6, <1>7, <1>8, <1>9, <1>10, <1>11 DEF SystemNext, Verifier

(* Database, Delivered, Inv and Listing hold throughout.                   *)
LEMMA SystemInvariant == SystemSpec => []SystemInv
  BY InitSystem, StepSystem, PTL DEF SystemSpec

-----------------------------------------------------------------------------
(* The faults *)

(* What Fault keeps count of. *)
FaultsTyped ==
    IsListOf(faults) /\ Len(faults) \in 0..MaxFaults /\ Range(faults) \subseteq Faults

(* What spoils a file is one of the faults.                                *)
LEMMA SpoilIsFault ==
    ASSUME Spoil
    PROVE  \E kind, at, files :
               /\ Fault(kind, at, files)
               /\ kind \in {"lose", "truncate"} =>
                     at = "transit" /\ files \subseteq LineLost(file) \cup EndLost(file)
<1>1. CASE Reorder
  BY <1>1, "reorder" \notin {"lose", "truncate"} DEF Reorder
<1>2. CASE Newer
  BY <1>2, "newer" \notin {"lose", "truncate"} DEF Newer
<1>3. CASE Omit
  BY <1>3, "omit" \notin {"lose", "truncate"} DEF Omit
<1>4. CASE Repeat
  BY <1>4, "repeat" \notin {"lose", "truncate"} DEF Repeat
<1>5. CASE OmitBatch
  BY <1>5, "omit_batch" \notin {"lose", "truncate"} DEF OmitBatch
<1>6. CASE Relabel
  BY <1>6, "relabel" \notin {"lose", "truncate"} DEF Relabel
<1>7. CASE Duplicate
  BY <1>7, "duplicate" \notin {"lose", "truncate"} DEF Duplicate
<1>8. CASE Misplace
  BY <1>8, "misplace" \notin {"lose", "truncate"} DEF Misplace
<1>9. CASE Blank
  BY <1>9, "blank" \notin {"lose", "truncate"} DEF Blank
<1>10. CASE Garble
  BY <1>10, "garble" \notin {"lose", "truncate"} DEF Garble
<1>11. CASE Alter
  BY <1>11, "alter" \notin {"lose", "truncate"} DEF Alter
<1>12. CASE Lose
  BY <1>12 DEF Lose
<1>13. CASE Truncate
  BY <1>13 DEF Truncate
<1>14. CASE Twin
  BY <1>14, "twin" \notin {"lose", "truncate"} DEF Twin
<1> QED BY <1>1, <1>2, <1>3, <1>4, <1>5, <1>6, <1>7, <1>8, <1>9, <1>10, <1>11, <1>12,
           <1>13, <1>14 DEF Spoil

(* One fault more. *)
LEMMA OneFaultMore ==
    ASSUME IsListOf(faults), NEW kind, NEW at, NEW files, Fault(kind, at, files)
    PROVE  /\ IsListOf(faults)' /\ Len(faults') = Len(faults) + 1
           /\ Range(faults)' = Range(faults) \cup {kind}
           /\ \A K : Suffered(K)' => Suffered(K) /\ kind \in K
           /\ stage = at /\ file' \in files /\ kind \in Faults /\ Len(faults) < MaxFaults
           /\ UNCHANGED <<stage, original, handoff>>
<1>1. PICK s, S, t : s = faults /\ S = Range(faults) \cup {kind} /\ t = Append(faults, kind)
  OBVIOUS
<1>2. s \in Seq(S) /\ kind \in S
  BY <1>1 DEF IsListOf
<1>3. /\ t \in Seq(S) /\ Len(s) \in Nat /\ DOMAIN s = 1..Len(s) /\ DOMAIN t = 1..(Len(s) + 1)
      /\ t[Len(s) + 1] = kind /\ \A k \in 1..Len(s) : t[k] = s[k]
      /\ Len(t) = Len(s) + 1
  BY <1>1, <1>2, ListGrows
<1>4. faults' = t
  BY <1>1 DEF Fault
<1>5. IsListOf(t)
  BY <1>3, AnyList
<1>6. Range(t) = Range(s) \cup {kind}
  <2>1. \A k \in DOMAIN t : k \in DOMAIN s \/ k = Len(s) + 1
    BY <1>3
  <2>2. \A k \in DOMAIN s : k \in DOMAIN t
    BY <1>3
  <2>3. Len(s) + 1 \in DOMAIN t
    BY <1>3
  <2> QED BY <1>3, <2>1, <2>2, <2>3 DEF Range
<1>7. \A K : Suffered(K)' => Suffered(K) /\ kind \in K
  BY <1>1, <1>4, <1>6 DEF Suffered
<1> QED BY <1>1, <1>3, <1>4, <1>5, <1>6, <1>7 DEF Fault, IsListOf, export, Range

(* No fault yet. *)
LEMMA InitFaults == SystemInit => FaultsTyped
  BY SchedulesAssumption DEF SystemInit, FaultsTyped, IsListOf, Range

(* A fault strikes only while there may be one more.                       *)
LEMMA StepFaults == FaultsTyped /\ [SystemNext]_<<system, vars>> => FaultsTyped'
<1> SUFFICES ASSUME FaultsTyped, [SystemNext]_<<system, vars>> PROVE FaultsTyped'
  OBVIOUS
<1>1. CASE Spoil
  <2>1. PICK kind, at, files : Fault(kind, at, files)
    BY <1>1, SpoilIsFault
  <2>2. /\ IsListOf(faults)' /\ Len(faults') = Len(faults) + 1
        /\ Range(faults)' = Range(faults) \cup {kind}
        /\ kind \in Faults /\ Len(faults) < MaxFaults
    BY <2>1, OneFaultMore DEF FaultsTyped
  <2>3. Len(faults') \in 0..MaxFaults
    BY <2>2, SchedulesAssumption DEF FaultsTyped
  <2> QED BY <2>2, <2>3 DEF FaultsTyped
<1>2. CASE UNCHANGED faults
  BY <1>2 DEF FaultsTyped, IsListOf, Range
<1>3. ASSUME ~Spoil PROVE UNCHANGED faults
  BY <1>3 DEF SystemNext, Gateway, LogRow, FleetTick, Handoff, SovereignTick, AnchorRows,
     Export, Seal, Deliver, Verifier, system
<1> QED BY <1>1, <1>2, <1>3

(* Batches are numbered and their ranges adjoin, the pack's faults are     *)
(* counted, and verify() runs in its stage and in no other.                *)
THEOREM SystemTypeCorrect == SystemSpec => []SystemTypeOK
<1>1. ASSUME SystemInv, FaultsTyped PROVE SystemTypeOK
  <2>1. Database /\ Stages
    BY <1>1 DEF SystemInv, Delivered
  <2>2. DOMAIN batches = 1..Len(batches)
    BY <2>1, LastToOf
  <2>3. ASSUME NEW i \in DOMAIN batches
        PROVE  LET a == batches[i].anchor
               IN  /\ a.id = i
                   /\ a.from_id = IF i = 1 THEN 1 ELSE batches[i-1].anchor.to_id + 1
                   /\ a.to_id \in a.from_id..Len(log)
                   /\ a.row_count = Len(batches[i].rows)
    <3>1. Covering(i) /\ Sealing(i)
      BY <2>1, <2>2 DEF Database
    <3> QED BY <3>1 DEF Covering, Sealing
  <2>4. cursor \in {None} \cup 0..LastTo
    BY <2>1 DEF Database
  <2>5. stage = "verify" <=> pc # "idle"
    BY <2>1 DEF Stages
  <2>6. stage \in {"live", "draft", "transit", "verify"}
    BY <2>1 DEF Stages
  <2> QED BY <1>1, <2>3, <2>4, <2>5, <2>6 DEF SystemTypeOK, FaultsTyped
<1>2. SystemSpec => []FaultsTyped
  BY InitFaults, StepFaults, PTL DEF SystemSpec
<1> QED BY <1>1, <1>2, SystemInvariant, PTL

-----------------------------------------------------------------------------
(* Lost lines *)

(* A pack as it was sealed: a header, the keys, the rows and anchors its   *)
(* manifest counts, and the manifest.                                      *)
Whole(o) ==
    /\ IsListOf(o) /\ Len(o) \in Nat \ {0}
    /\ LET counts == o[Len(o)].body.counts
       IN  /\ counts.audit \in Nat /\ counts.ai_audit \in Nat /\ counts.anchors \in Nat \ {0}
           /\ Len(o) = 3 + counts.audit + counts.ai_audit + counts.anchors
    /\ \A i \in 1..Len(o) : o[i].kind = "manifest" => i = Len(o)

(* Fewer lines than o, under the manifest of o or none. *)
Short(f, o) ==
    /\ Len(f) < Len(o)
    /\ \A i \in DOMAIN f : f[i].kind = "manifest" => f[i].body = o[Len(o)].body

(* As long as the faults so far have only lost lines, the file is the whole *)
(* pack it was or shorter.                                                 *)
OnlyLost ==
    /\ IsListOf(faults)
    /\ stage # "live" => Whole(original)
    /\ Suffered({"lose", "truncate"}) =>
          /\ stage = "draft" => original = SealedPack(file, handoff)
          /\ stage \in {"transit", "verify"} => file = original \/ Short(file, original)

(* A block of lines of one kind, n of them behind the first m lines.       *)
Block(f, kind, m, n) == \A i \in 1..Len(f) : f[i].kind = kind <=> i \in (m + 1)..(m + n)

With(f, kind, bodies) == f \o Lines(kind, bodies)

Placed(g, f, kind, n) ==
    /\ IsListOf(g) /\ Len(f) \in Nat /\ n \in Nat /\ Len(g) = Len(f) + n
    /\ Block(g, kind, Len(f), n)
    /\ \A i \in 1..Len(f) : g[i] = f[i]
    /\ \A i \in 1..Len(g) : i \notin 1..Len(f) => g[i].kind = kind

(* Lines of a kind behind lines of other kinds.                            *)
LEMMA Behind ==
    ASSUME NEW f, IsListOf(f), NEW kind, NEW s, IsListOf(s), NEW g, g = With(f, kind, s),
           \A i \in 1..Len(f) : f[i].kind # kind
    PROVE  Placed(g, f, kind, Len(s))
<1>1. PICK u, n, m : u = Lines(kind, s) /\ n = Len(s) /\ m = Len(f)
  OBVIOUS
<1>2. n \in Nat /\ DOMAIN s = 1..n /\ m \in Nat
  BY <1>1 DEF IsListOf
<1>3. u = [k \in 1..n |-> Line(kind, s[k])]
  BY <1>1, <1>2 DEF Lines
<1>4. PICK S : u \in Seq(S) /\ Len(u) = n
  <2>1. PICK S : S = {Line(kind, s[k]) : k \in 1..n}
    OBVIOUS
  <2>2. \A k \in 1..n : Line(kind, s[k]) \in S
    BY <2>1
  <2>3. u \in Seq(S) /\ Len(u) = n
    BY <1>2, <1>3, <2>2
  <2> QED BY <2>3
<1>5. IsListOf(u)
  BY <1>4, AnyList
<1>6. \A k \in 1..n : u[k].kind = kind
  BY <1>3 DEF Line
<1>7. Joined(f \o u, f, u)
  BY <1>5, Concatenated
<1>8. Joined(g, f, u)
  BY <1>1, <1>7 DEF With
<1>9. /\ IsListOf(g) /\ Len(g) = m + n /\ \A i \in 1..m : g[i] = f[i]
      /\ \A k \in 1..n : g[m + k] = u[k]
  BY <1>1, <1>4, <1>8 DEF Joined
<1>10. ASSUME NEW i \in 1..Len(g), i \notin 1..m PROVE g[i].kind = kind /\ i \in (m + 1)..(m + n)
  <2>1. PICK k : k = i - m
    OBVIOUS
  <2>2. k \in 1..n /\ m + k = i /\ i \in (m + 1)..(m + n)
    BY <1>2, <1>9, <1>10, <2>1
  <2> QED BY <1>6, <1>9, <2>2
<1>11. ASSUME NEW i \in 1..m PROVE g[i].kind # kind /\ i \notin (m + 1)..(m + n)
  BY <1>1, <1>2, <1>9
<1>12. Block(g, kind, m, n)
  BY <1>10, <1>11 DEF Block
<1> QED BY <1>1, <1>2, <1>9, <1>10, <1>12 DEF Placed

(* Header and keys, x lines of audit, y rows, z anchors, and no manifest.  *)
Laid(f, x, y, z) ==
    /\ IsListOf(f) /\ Len(f) = 2 + x + y + z /\ x \in Nat /\ y \in Nat /\ z \in Nat
    /\ Block(f, "audit", 2, x) /\ Block(f, "ai_audit", 2 + x, y)
    /\ Block(f, "anchor", 2 + x + y, z)
    /\ \A i \in 1..Len(f) : f[i].kind # "manifest"

(* What the records of a pack are. *)
LEMMA RecordKinds ==
    ASSUME NEW a, IsListOf(a), NEW r, IsListOf(r), NEW c, IsListOf(c),
           NEW f, f = Records(a, r, c)
    PROVE  Laid(f, Len(a), Len(r), Len(c))
<1>1. PICK h : h = <<Line("header", Header), Line("signing_keys", [keys |-> SigningKeys])>>
  OBVIOUS
<1>2. /\ IsListOf(h) /\ Len(h) = 2
      /\ \A i \in 1..2 : h[i].kind \in {"header", "signing_keys"}
  <2>1. h \in Seq({h[1], h[2]}) /\ Len(h) = 2
    BY <1>1
  <2>2. IsListOf(h)
    BY <2>1, AnyList
  <2> QED BY <1>1, <2>1, <2>2 DEF Line
<1>3. PICK s : s = With(h, "audit", a)
  OBVIOUS
<1>4. PICK t : t = With(s, "ai_audit", r)
  OBVIOUS
<1>5. f = With(t, "anchor", c)
  BY <1>1, <1>3, <1>4 DEF Records, With
<1>6. PICK k, m, n : k = Len(a) /\ m = Len(r) /\ n = Len(c)
  OBVIOUS
<1>7. /\ IsListOf(s) /\ k \in Nat /\ Len(s) = 2 + k /\ Block(s, "audit", 2, k)
      /\ \A i \in 1..Len(s) : s[i].kind \in {"header", "signing_keys", "audit"}
  <2>1. \A i \in 1..Len(h) : h[i].kind # "audit"
    BY <1>2
  <2>2. Placed(s, h, "audit", k)
    BY <1>2, <1>3, <1>6, <2>1, Behind
  <2> QED BY <1>2, <2>2 DEF Placed
<1>8. /\ IsListOf(t) /\ m \in Nat /\ Len(t) = 2 + k + m
      /\ Block(t, "ai_audit", 2 + k, m) /\ \A i \in 1..Len(s) : t[i] = s[i]
      /\ \A i \in 1..Len(t) : i \notin 1..Len(s) => t[i].kind = "ai_audit"
      /\ \A i \in 1..Len(t) : t[i].kind \in {"header", "signing_keys", "audit", "ai_audit"}
  <2>1. \A i \in 1..Len(s) : s[i].kind # "ai_audit"
    BY <1>7
  <2>2. Placed(t, s, "ai_audit", m)
    BY <1>4, <1>6, <1>7, <2>1, Behind
  <2>3. ASSUME NEW i \in 1..Len(t)
        PROVE  t[i].kind \in {"header", "signing_keys", "audit", "ai_audit"}
    BY <1>7, <2>2 DEF Placed
  <2> QED BY <1>7, <2>2, <2>3 DEF Placed
<1>9. /\ IsListOf(f) /\ n \in Nat /\ Len(f) = 2 + k + m + n
      /\ Block(f, "anchor", 2 + k + m, n) /\ \A i \in 1..Len(t) : f[i] = t[i]
      /\ \A i \in 1..Len(f) : i \notin 1..Len(t) => f[i].kind = "anchor"
  <2>1. \A i \in 1..Len(t) : t[i].kind # "anchor"
    BY <1>8
  <2>2. Placed(f, t, "anchor", n)
    BY <1>5, <1>6, <1>8, <2>1, Behind
  <2> QED BY <1>8, <2>2 DEF Placed
<1>10. Block(f, "audit", 2, k)
  <2>1. ASSUME NEW i \in 1..Len(f) PROVE f[i].kind = "audit" <=> i \in 3..(2 + k)
    <3>1. CASE i \in 1..Len(s)
      <4>1. f[i] = s[i]
        BY <1>7, <1>8, <1>9, <3>1
      <4> QED BY <1>7, <3>1, <4>1 DEF Block
    <3>2. CASE i \notin 1..Len(s)
      <4>1. f[i].kind # "audit"
        BY <1>8, <1>9, <3>2
      <4> QED BY <1>7, <3>2, <4>1
    <3> QED BY <3>1, <3>2
  <2> QED BY <2>1 DEF Block
<1>11. Block(f, "ai_audit", 2 + k, m)
  <2>1. ASSUME NEW i \in 1..Len(f)
        PROVE  f[i].kind = "ai_audit" <=> i \in (2 + k + 1)..(2 + k + m)
    <3>1. CASE i \in 1..Len(t)
      BY <1>8, <1>9, <3>1 DEF Block
    <3>2. CASE i \notin 1..Len(t)
      <4>1. f[i].kind # "ai_audit"
        BY <1>9, <3>2
      <4> QED BY <1>7, <1>8, <3>2, <4>1
    <3> QED BY <3>1, <3>2
  <2> QED BY <2>1 DEF Block
<1>12. \A i \in 1..Len(f) : f[i].kind # "manifest"
  BY <1>8, <1>9
<1> QED BY <1>6, <1>7, <1>8, <1>9, <1>10, <1>11, <1>12 DEF Laid

(* What the manifest counts of a block of lines. *)
LEMMA BlockCounted ==
    ASSUME NEW f, IsListOf(f), NEW kind, NEW m \in Nat, NEW n \in Nat, Block(f, kind, m, n),
           m + n <= Len(f)
    PROVE  Cardinality({i \in DOMAIN f : f[i].kind = kind}) = n
<1>1. PICK R : R = {i \in DOMAIN f : f[i].kind = kind}
  OBVIOUS
<1>2. DOMAIN f = 1..Len(f) /\ Len(f) \in Nat
  BY DEF IsListOf
<1>3. PICK a, b : a = m + 1 /\ b = m + n
  OBVIOUS
<1>4. R = a..b
  <2>1. a..b \subseteq 1..Len(f)
    BY <1>2, <1>3
  <2> QED BY <1>1, <1>2, <1>3, <2>1 DEF Block
<1>5. a \in Int /\ b \in Int /\ (a > b => n = 0) /\ (~(a > b) => b - a + 1 = n)
  BY <1>3
<1>6. Cardinality(a..b) = IF a > b THEN 0 ELSE b - a + 1
  BY <1>5, FS_Interval
<1> QED BY <1>1, <1>4, <1>5, <1>6

(* What the manifest of a sealed pack counts. *)
LEMMA SealedIsWhole ==
    ASSUME NEW a, IsListOf(a), NEW r, IsListOf(r), NEW c, IsListOf(c), Len(c) > 0,
           NEW f, f = Records(a, r, c), NEW h
    PROVE  Whole(SealedPack(f, h))
<1>1. PICK x, y, z : x = Len(a) /\ y = Len(r) /\ z = Len(c)
  OBVIOUS
<1>2. /\ x \in Nat /\ y \in Nat /\ z \in Nat /\ z > 0
      /\ IsListOf(f) /\ Len(f) = 2 + x + y + z /\ DOMAIN f = 1..Len(f)
      /\ Block(f, "audit", 2, x) /\ Block(f, "ai_audit", 2 + x, y) /\ Block(f, "anchor", 2 + x + y, z)
      /\ \A i \in 1..Len(f) : f[i].kind # "manifest"
  <2>1. Laid(f, x, y, z)
    BY <1>1, RecordKinds
  <2> QED BY <1>1, <2>1 DEF Laid, IsListOf
<1>3. Cardinality({i \in DOMAIN f : f[i].kind = "audit"}) = x
  <2>1. 2 + x <= Len(f)
    BY <1>2
  <2> QED BY <1>2, <2>1, BlockCounted
<1>4. Cardinality({i \in DOMAIN f : f[i].kind = "ai_audit"}) = y
  <2>1. 2 + x \in Nat /\ (2 + x) + y <= Len(f)
    BY <1>2
  <2> QED BY <1>2, <2>1, BlockCounted
<1>5. Cardinality({i \in DOMAIN f : f[i].kind = "anchor"}) = z
  <2>1. 2 + x + y \in Nat /\ (2 + x + y) + z <= Len(f)
    BY <1>2
  <2> QED BY <1>2, <2>1, BlockCounted
<1>6. PICK m, o : m = ManifestOf(f, h) /\ o = SealedPack(f, h)
  OBVIOUS
<1>7. m.counts.audit = x /\ m.counts.ai_audit = y /\ m.counts.anchors = z
  BY <1>3, <1>4, <1>5, <1>6 DEF ManifestOf, Count
<1>8. PICK l : l = Line("manifest", m)
  OBVIOUS
<1>9. o = Append(f, l)
  BY <1>6, <1>8 DEF SealedPack
<1>10. /\ Len(o) = Len(f) + 1 /\ o[Len(o)] = l /\ IsListOf(o)
       /\ \A i \in 1..Len(f) : o[i] = f[i]
  <2>1. PICK S : S = Range(f) \cup {l}
    OBVIOUS
  <2>2. f \in Seq(S) /\ l \in S
    BY <1>2, <2>1 DEF IsListOf
  <2>3. /\ Append(f, l) \in Seq(S) /\ Len(Append(f, l)) = Len(f) + 1 /\ Len(f) \in Nat
        /\ Append(f, l)[Len(f) + 1] = l /\ \A i \in 1..Len(f) : Append(f, l)[i] = f[i]
    BY <2>2, ListGrows
  <2>4. IsListOf(o)
    BY <1>9, <2>3, AnyList
  <2> QED BY <1>9, <2>3, <2>4
<1>11. ASSUME NEW i \in 1..Len(o), o[i].kind = "manifest" PROVE i = Len(o)
  <2>1. i \in 1..Len(f) \/ i = Len(o)
    BY <1>2, <1>10
  <2> QED BY <1>2, <1>10, <1>11, <2>1
<1>12. o[Len(o)].body = m
  BY <1>8, <1>10 DEF Line
<1>13. Len(o) \in Nat \ {0} /\ Len(o) = 3 + x + y + z
  BY <1>2, <1>10
<1>14. PICK q : q = o[Len(o)].body.counts
  OBVIOUS
<1>15. q.audit = x /\ q.ai_audit = y /\ q.anchors = z
  BY <1>7, <1>12, <1>14
<1>16. /\ q.audit \in Nat /\ q.ai_audit \in Nat /\ q.anchors \in Nat \ {0}
       /\ Len(o) = 3 + q.audit + q.ai_audit + q.anchors
  BY <1>2, <1>13, <1>15
<1>17. Whole(o)
  BY <1>10, <1>11, <1>13, <1>14, <1>16 DEF Whole
<1> QED BY <1>6, <1>17

(* A line lost or the end cut off leaves fewer lines, none of them new.    *)
LEMMA FewerLines ==
    ASSUME NEW f, IsListOf(f), NEW g, g \in LineLost(f) \cup EndLost(f)
    PROVE  /\ Len(g) < Len(f)
           /\ \A i \in DOMAIN g : \E j \in DOMAIN f : g[i] = f[j]
<1>1. PICK S : f \in Seq(S)
  BY DEF IsListOf
<1>2. CASE g \in LineLost(f)
  BY <1>1, <1>2, Removed DEF LineLost
<1>3. CASE g \in EndLost(f)
  BY <1>1, <1>3, CutOff DEF EndLost
<1> QED BY <1>2, <1>3

(* So it leaves a whole pack short, and a short one too.                   *)
LEMMA ShortStays ==
    ASSUME NEW o, Whole(o), NEW f, IsListOf(f), f = o \/ Short(f, o),
           NEW g, g \in LineLost(f) \cup EndLost(f)
    PROVE  Short(g, o)
<1>1. /\ Len(g) < Len(f) /\ Len(f) \in Nat /\ DOMAIN f = 1..Len(f) /\ Len(o) \in Nat
      /\ \A i \in DOMAIN g : \E j \in DOMAIN f : g[i] = f[j]
  BY FewerLines DEF Whole, IsListOf
<1>2. Len(f) <= Len(o)
  BY <1>1 DEF Short
<1>3. \A j \in DOMAIN f : f[j].kind = "manifest" => f[j].body = o[Len(o)].body
  BY <1>1 DEF Short, Whole
<1>4. \A i \in DOMAIN g : g[i].kind = "manifest" => g[i].body = o[Len(o)].body
  BY <1>1, <1>3
<1>5. Len(g) < Len(o)
  <2>1. \E S : g \in Seq(S)
    <3>1. PICK S, l : S = Range(f) /\ l = f[1] /\ f \in Seq(S)
      BY DEF IsListOf
    <3>2. l \in S
      <4>1. f # <<>>
        <5> SUFFICES ASSUME f = <<>> PROVE FALSE
          OBVIOUS
        <5> QED BY FewerLines DEF LineLost, EndLost
      <4> QED BY <3>1, <4>1
    <3> QED BY <3>1, <3>2, LinesLeft
  <2>2. Len(g) \in Nat
    BY <2>1
  <2> QED BY <1>1, <1>2, <2>2
<1> QED BY <1>4, <1>5 DEF Short

(* Only the two faults that lose lines leave anything to say, and they     *)
(* strike a sealed pack.                                                   *)
LEMMA SpoilKeepsOnlyLost ==
    ASSUME SystemInv, OnlyLost, Spoil
    PROVE  OnlyLost'
<1>1. PICK kind, at, files : /\ Fault(kind, at, files)
                             /\ kind \in {"lose", "truncate"} =>
                                   /\ at = "transit"
                                   /\ files \subseteq LineLost(file) \cup EndLost(file)
  BY SpoilIsFault
<1>2. /\ IsListOf(faults)' /\ stage = at /\ file' \in files
      /\ \A K : Suffered(K)' => Suffered(K) /\ kind \in K
      /\ UNCHANGED <<stage, original, handoff>>
  BY <1>1, OneFaultMore DEF OnlyLost
<1>3. PICK K : K = {"lose", "truncate"}
  OBVIOUS
<1>4. stage \in {"draft", "transit"}
  BY SpoilKeepsFile DEF SystemInv, Delivered
<1>5. Whole(original)
  BY <1>4 DEF OnlyLost
<1>6. Whole(original)'
  BY <1>2, <1>5 DEF Whole, IsListOf
<1>7. ASSUME Suffered(K)'
      PROVE  stage' = "transit" /\ Short(file, original)'
  <2>1. /\ Suffered(K) /\ kind \in K /\ stage = "transit"
        /\ file' \in LineLost(file) \cup EndLost(file)
    BY <1>1, <1>2, <1>3, <1>7
  <2>2. file = original \/ Short(file, original)
    BY <1>3, <2>1 DEF OnlyLost
  <2>3. PICK f, g, o : f = file /\ g = file' /\ o = original
    OBVIOUS
  <2>4. Short(g, o)
    BY <1>5, <2>1, <2>2, <2>3, ShortStays DEF SystemInv, Delivered, SoundFile
  <2> QED BY <1>2, <2>1, <2>3, <2>4 DEF Short
<1> QED BY <1>2, <1>3, <1>6, <1>7 DEF OnlyLost

(* An exported pack is whole.                                              *)
LEMMA ExportIsWhole ==
    ASSUME Database, NEW lo \in DOMAIN batches, NEW hi \in DOMAIN batches, lo <= hi,
           Export(lo, hi)
    PROVE  Whole(original') /\ original' = SealedPack(file', handoff')
<1>1. lo \in 1..Len(batches) /\ hi \in lo..Len(batches)
  BY LastToOf
<1>2. PICK a, r, c : /\ IsListOf(a) /\ IsListOf(r) /\ IsListOf(c) /\ Len(c) > 0
                     /\ file' = Records(a, r, c)
  BY <1>1, ExportWrites
<1>3. original' = SealedPack(file', handoff')
  BY <1>1, ExportWrites
<1>4. PICK f, h : f = file' /\ h = handoff'
  OBVIOUS
<1>5. Whole(SealedPack(f, h))
  BY <1>2, <1>4, SealedIsWhole
<1> QED BY <1>3, <1>4, <1>5

LostInv == SystemInv /\ OnlyLost

(* Before any fault.                                                       *)
LEMMA InitLost == SystemInit => LostInv
<1> SUFFICES ASSUME SystemInit PROVE OnlyLost
  BY InitSystem DEF LostInv
<1>1. stage = "live" /\ faults = <<>>
  BY DEF SystemInit
<1>2. IsListOf(faults)
  BY <1>1 DEF IsListOf
<1> QED BY <1>1, <1>2 DEF OnlyLost

(* Every further fault, and every step that is none.                       *)
LEMMA StepLost == LostInv /\ [SystemNext]_<<system, vars>> => LostInv'
<1> SUFFICES ASSUME SystemInv, OnlyLost, [SystemNext]_<<system, vars>> PROVE OnlyLost'
  BY StepSystem DEF LostInv
<1>1. ASSUME UNCHANGED <<faults, original>>,
             stage' # "live" => Whole(original'),
             Suffered({"lose", "truncate"}) =>
                /\ stage' = "draft" => original' = SealedPack(file', handoff')
                /\ stage' \in {"transit", "verify"} =>
                      file' = original' \/ Short(file', original')
      PROVE  OnlyLost'
  BY <1>1 DEF OnlyLost, Suffered, Whole, Short, IsListOf, SealedPack
<1>2. CASE Gateway
  <2>1. stage' = "live" /\ UNCHANGED <<faults, original>>
    BY <1>2, GatewayKeepsDatabase DEF SystemInv, export
  <2> QED BY <1>1, <2>1
<1>3. ASSUME NEW lo \in DOMAIN batches, NEW hi \in DOMAIN batches, lo <= hi, Export(lo, hi)
      PROVE  OnlyLost'
  <2>1. Whole(original') /\ original' = SealedPack(file', handoff')
    BY <1>3, ExportIsWhole DEF SystemInv
  <2>2. stage' = "draft" /\ faults' = faults
    BY <1>3 DEF Export
  <2> QED BY <2>1, <2>2 DEF OnlyLost, Whole, IsListOf, SealedPack
<1>4. CASE Spoil
  BY <1>4, SpoilKeepsOnlyLost
<1>5. CASE Seal
  <2>1. /\ stage = "draft" /\ stage' = "transit" /\ UNCHANGED <<faults, original>>
        /\ file' = SealedPack(file, handoff)
    BY <1>5 DEF Seal, export
  <2>2. Whole(original')
    BY <2>1 DEF OnlyLost
  <2>3. Suffered({"lose", "truncate"}) => file' = original'
    BY <2>1 DEF OnlyLost
  <2> QED BY <1>1, <2>1, <2>2, <2>3
<1>6. CASE Deliver
  <2>1. /\ stage = "transit" /\ stage' = "verify" /\ UNCHANGED <<faults, original, file>>
    BY <1>6 DEF Deliver, export
  <2> QED BY <1>1, <2>1 DEF OnlyLost
<1>7. CASE UNCHANGED system
  <2>1. UNCHANGED <<stage, faults, original, file, handoff>>
    BY <1>7 DEF system, export
  <2> QED BY <1>1, <2>1 DEF OnlyLost
<1> QED BY <1>2, <1>3, <1>4, <1>5, <1>6, <1>7 DEF SystemNext, Verifier

(* SystemInv and OnlyLost hold throughout.                                 *)
LEMMA LostInvariant == SystemSpec => []LostInv
  BY InitLost, StepLost, PTL DEF SystemSpec

(* An accepted text has at least a header, a line of keys if it has an     *)
(* anchor, the lines its manifest counts and the manifest.                 *)
LEMMA AcceptedCount ==
    ASSUME Inv, Accepted
    PROVE  \E i \in LinesOf("manifest") :
               LET counts == pack[i].body.counts
               IN  /\ Len(pack) \in Nat /\ DOMAIN pack = 1..Len(pack)
                   /\ counts.audit \in Nat /\ counts.ai_audit \in Nat /\ counts.anchors \in Nat
                   /\ counts.anchors > 0 =>
                         Len(pack) >= 3 + counts.audit + counts.ai_audit + counts.anchors
<1>1. /\ \A k : Before(k) = LinesOf(k)
      /\ Len(pack) \in Nat /\ DOMAIN pack = 1..Len(pack)
      /\ HeaderIsV2 /\ ManifestIsLast /\ CountsAgree /\ AnchorsVerify
  BY AtReport DEF Inv, Loaded, Place
<1>2. PICK i \in LinesOf("manifest") : manifest = pack[i].body
  BY <1>1 DEF Inv, Loaded, Ends, LastManifest, ManifestIsLast
<1>3. PICK h \in LinesOf("header") : TRUE
  BY <1>1 DEF Inv, Loaded, Ends, HeaderIsV2, Bodies
<1>4. PICK B, R, A, n : /\ B = LinesOf("audit") /\ R = LinesOf("ai_audit")
                        /\ A = LinesOf("anchor") /\ n = Len(pack)
  OBVIOUS
<1>5. /\ B \subseteq 1..n /\ R \subseteq 1..n /\ A \subseteq 1..n /\ i \in 1..n /\ h \in 1..n
      /\ B \cap R = {} /\ (B \cup R) \cap A = {}
      /\ i \notin B \cup R \cup A /\ h \notin B \cup R \cup A \cup {i}
  BY <1>1, <1>2, <1>3, <1>4 DEF LinesOf
<1>6. /\ IsFiniteSet(1..n) /\ Cardinality(1..n) = n /\ n \in Nat
      /\ IsFiniteSet(B) /\ Cardinality(B) \in Nat /\ IsFiniteSet(R) /\ Cardinality(R) \in Nat
      /\ IsFiniteSet(A) /\ Cardinality(A) \in Nat
  <2>1. IsFiniteSet(1..n) /\ Cardinality(1..n) = n
    BY <1>1, <1>4, CountTo
  <2> QED BY <1>1, <1>4, <1>5, <2>1, FS_Subset, FS_CardinalityType
<1>7. /\ manifest.counts.audit = Cardinality(B) /\ manifest.counts.ai_audit = Cardinality(R)
      /\ manifest.counts.anchors = Cardinality(A) /\ Len(anchors) = Cardinality(A)
  BY <1>1, <1>4 DEF CountsAgree, CountsOK, ManifestIsLast, Inv, Loaded, Counters
<1>8. ASSUME NEW S, NEW T, IsFiniteSet(S), IsFiniteSet(T), S \cap T = {}
      PROVE  IsFiniteSet(S \cup T) /\ Cardinality(S \cup T) = Cardinality(S) + Cardinality(T)
  <2>1. Cardinality(S \cap T) = 0
    BY <1>8, FS_EmptySet
  <2>2. /\ IsFiniteSet(S \cup T)
        /\ Cardinality(S \cup T) = Cardinality(S) + Cardinality(T) - Cardinality(S \cap T)
    BY <1>8, FS_Union
  <2>3. PICK x, y : x = Cardinality(S) /\ y = Cardinality(T)
    OBVIOUS
  <2>4. x \in Nat /\ y \in Nat
    BY <1>8, <2>3, FS_CardinalityType
  <2>5. Cardinality(S \cup T) = x + y
    BY <2>1, <2>2, <2>3, <2>4
  <2> QED BY <2>2, <2>3, <2>5
<1>9. ASSUME Cardinality(A) > 0
      PROVE  n >= 3 + Cardinality(B) + Cardinality(R) + Cardinality(A)
  <2>1. PICK k \in LinesOf("signing_keys") : TRUE
    <3>1. PICK j \in DOMAIN anchors : TRUE
      <4>1. anchors \in Seq(Bodies("anchor")) /\ Len(anchors) > 0
        BY <1>7, <1>9 DEF Inv, Loaded, Lists
      <4>2. 1 \in DOMAIN anchors
        BY <4>1
      <4> QED BY <4>2
    <3>2. AnchorSignatureOK(anchors[j])
      BY <1>1 DEF AnchorsVerify
    <3>3. KeyById(anchors[j].signing_key_id) \in DeclaredKeys
      BY <3>2, KeyFound DEF AnchorSignatureOK, Inv
    <3> QED BY <3>3 DEF DeclaredKeys, Bodies
  <2>2. k \in 1..n /\ k \notin B \cup R \cup A \cup {i, h}
    BY <1>1, <1>2, <1>3, <1>4, <2>1 DEF LinesOf
  <2>3. PICK C : C = B \cup R
    OBVIOUS
  <2>4. IsFiniteSet(C) /\ Cardinality(C) = Cardinality(B) + Cardinality(R)
    BY <1>5, <1>6, <1>8, <2>3
  <2>5. PICK T : T = C \cup A
    OBVIOUS
  <2>6. IsFiniteSet(T) /\ Cardinality(T) = Cardinality(C) + Cardinality(A)
    BY <1>5, <1>6, <1>8, <2>3, <2>4, <2>5
  <2>7. PICK U : U = T \cup {i}
    OBVIOUS
  <2>8. IsFiniteSet(U) /\ Cardinality(U) = Cardinality(T) + 1
    BY <1>5, <2>3, <2>5, <2>6, <2>7, FS_AddElement
  <2>9. PICK V : V = U \cup {h}
    OBVIOUS
  <2>10. IsFiniteSet(V) /\ Cardinality(V) = Cardinality(U) + 1
    BY <1>5, <2>3, <2>5, <2>7, <2>8, <2>9, FS_AddElement
  <2>11. PICK W : W = V \cup {k}
    OBVIOUS
  <2>12. IsFiniteSet(W) /\ Cardinality(W) = Cardinality(V) + 1
    BY <2>2, <2>3, <2>5, <2>7, <2>9, <2>10, <2>11, FS_AddElement
  <2>13. W \subseteq 1..n
    BY <1>5, <2>2, <2>3, <2>5, <2>7, <2>9, <2>11
  <2>14. Cardinality(W) <= n
    BY <1>6, <2>13, FS_Subset
  <2>15. PICK x, y, z, w : /\ x = Cardinality(B) /\ y = Cardinality(R) /\ z = Cardinality(A)
                           /\ w = Cardinality(W)
    OBVIOUS
  <2>16. w = (((x + y) + z) + 1) + 1 + 1 /\ x \in Nat /\ y \in Nat /\ z \in Nat
    BY <1>6, <2>4, <2>6, <2>8, <2>10, <2>12, <2>15
  <2>17. w <= n /\ n \in Nat
    BY <1>6, <2>14, <2>15
  <2>18. n >= 3 + x + y + z
    BY <2>16, <2>17
  <2> QED BY <2>15, <2>18
<1> QED BY <1>1, <1>2, <1>4, <1>6, <1>7, <1>9

(* Of the packs that only lost lines, the whole one alone passes           *)
(* (README.md:17-18, 219).                                                 *)
THEOREM LostLinesDetected == SystemSpec => []LossDetected
<1>1. ASSUME LostInv PROVE LossDetected
  <2> SUFFICES ASSUME Accepted, Suffered({"lose", "truncate"}) PROVE pack = original
    BY DEF LossDetected
  <2>1. SystemInv /\ OnlyLost /\ Inv
    BY <1>1 DEF LostInv, SystemInv
  <2>2. stage = "verify" /\ pack = file
    BY <2>1 DEF SystemInv, Delivered, Stages, Accepted
  <2>3. Whole(original) /\ (pack = original \/ Short(pack, original))
    BY <2>1, <2>2 DEF OnlyLost
  <2> SUFFICES ASSUME Short(pack, original) PROVE FALSE
    BY <2>3
  <2>4. PICK i \in LinesOf("manifest") :
            LET counts == pack[i].body.counts
            IN  /\ Len(pack) \in Nat /\ DOMAIN pack = 1..Len(pack)
                /\ counts.audit \in Nat /\ counts.ai_audit \in Nat /\ counts.anchors \in Nat
                /\ counts.anchors > 0 =>
                      Len(pack) >= 3 + counts.audit + counts.ai_audit + counts.anchors
    BY <2>1, AcceptedCount
  <2>5. pack[i].body = original[Len(original)].body
    BY <2>4 DEF Short, LinesOf
  <2>6. PICK b, r, a, n, m : /\ b = pack[i].body.counts.audit
                             /\ r = pack[i].body.counts.ai_audit
                             /\ a = pack[i].body.counts.anchors
                             /\ n = Len(pack) /\ m = Len(original)
    OBVIOUS
  <2>7. m = 3 + b + r + a /\ a > 0 /\ m \in Nat
    BY <2>3, <2>5, <2>6 DEF Whole
  <2>8. n < m
    BY <2>6 DEF Short
  <2>9. n >= 3 + b + r + a /\ n \in Nat
    BY <2>4, <2>6, <2>7
  <2> QED BY <2>7, <2>8, <2>9
<1> QED BY <1>1, LostInvariant, PTL

-----------------------------------------------------------------------------
(* The anchors and rows of an accepted pack *)

(* What AnchorPayloadHash binds: neither the id nor the chain. *)
Alike(a, b) ==
    /\ a.from_id = b.from_id /\ a.to_id = b.to_id /\ a.row_count = b.row_count
    /\ a.merkle_root = b.merkle_root
    /\ a.prev_anchor_id = b.prev_anchor_id /\ a.prev_root = b.prev_root

(* Signed alike is alike.                                                  *)
LEMMA SignedAlike ==
    ASSUME NEW a, NEW b, AnchorPayloadHash(a) = AnchorPayloadHash(b)
    PROVE  Alike(a, b)
<1>1. PICK f, t, c, m, p, q : /\ f = a.from_id /\ t = a.to_id /\ c = a.row_count
                              /\ m = a.merkle_root /\ p = a.prev_anchor_id /\ q = a.prev_root
  OBVIOUS
<1>2. PICK g, u, d, n, r, s : /\ g = b.from_id /\ u = b.to_id /\ d = b.row_count
                              /\ n = b.merkle_root /\ r = b.prev_anchor_id /\ s = b.prev_root
  OBVIOUS
<1>3. Sha256(<<1, f, t, c, m, p, q>>) = Sha256(<<1, g, u, d, n, r, s>>)
  BY <1>1, <1>2 DEF AnchorPayloadHash, ANCHOR_PAYLOAD_VERSION
<1>4. f = g /\ t = u /\ c = d /\ m = n /\ p = r /\ q = s
  BY <1>3 DEF Sha256
<1> QED BY <1>1, <1>2, <1>4 DEF Alike

(* Every line of an accepted pack is sound. *)
LEMMA SoundBodies ==
    ASSUME SystemInv, Accepted
    PROVE  /\ Database /\ Inv /\ Listing
           /\ \A a \in Bodies("anchor") : SoundAnchor(a)
           /\ \A r \in Bodies("ai_audit") : SoundRow(r)
<1>1. pack = file /\ SoundFile(file)
  BY DEF SystemInv, Delivered, Stages, Accepted
<1>2. \A i \in DOMAIN pack : Sound(pack[i])
  BY <1>1 DEF SoundFile
<1>3. ASSUME NEW a \in Bodies("anchor") PROVE SoundAnchor(a)
  <2>1. PICK i \in DOMAIN pack : pack[i].kind = "anchor" /\ a = pack[i].body
    BY <1>3 DEF Bodies, LinesOf
  <2> QED BY <1>2, <2>1 DEF Sound
<1>4. ASSUME NEW r \in Bodies("ai_audit") PROVE SoundRow(r)
  <2>1. PICK i \in DOMAIN pack : pack[i].kind = "ai_audit" /\ r = pack[i].body
    BY <1>4 DEF Bodies, LinesOf
  <2> QED BY <1>2, <2>1 DEF Sound
<1> QED BY <1>3, <1>4 DEF SystemInv

(* An anchor of an accepted pack is alike one the gateway made: there are  *)
(* no other signatures to verify.                                          *)
LEMMA AnchorGenuine ==
    ASSUME SystemInv, Accepted, NEW a \in Bodies("anchor")
    PROVE  \E n \in 1..Len(batches) : Alike(a, batches[n].anchor)
<1>1. Database /\ Inv /\ SoundAnchor(a)
  BY SoundBodies
<1>2. AnchorSignatureOK(a)
  BY <1>1, EveryLineChecked, AtReport DEF AnchorsVerify
<1>3. PICK k : a.signature = Sign(a.sig_alg, k, AnchorPayloadHash(a)) /\ a.signature # NotHex
  BY <1>2 DEF AnchorSignatureOK, SignatureValid
<1>4. PICK n \in 1..Len(batches) : a.signature = batches[n].anchor.signature
  BY <1>1, <1>3 DEF SoundAnchor, Genuine
<1>5. PICK b : b = batches[n].anchor
  OBVIOUS
<1>6. b.signature = Sign(AnchorAlg(b.chain), AnchorKey(b.chain), AnchorPayloadHash(b))
  BY <1>1, <1>5 DEF Database, Sealing
<1>7. PICK h, g : h = AnchorPayloadHash(a) /\ g = AnchorPayloadHash(b)
  OBVIOUS
<1>8. h = g
  BY <1>3, <1>4, <1>5, <1>6, <1>7 DEF Sign
<1> QED BY <1>5, <1>7, <1>8, SignedAlike

(* Its rows are logged and anchored, as many as it says and under its root.*)
LEMMA AnchoredRows ==
    ASSUME Database, NEW n \in 1..Len(batches), NEW a, Alike(a, batches[n].anchor), NEW rows,
           rows = batches[n].rows
    PROVE  /\ IsListOf(rows) /\ Len(rows) \in 1..MaxInt /\ a.row_count = Len(rows)
           /\ IsSeq(Leaves(rows)) /\ Len(Leaves(rows)) = Len(rows)
           /\ \A k \in 1..Len(rows) : Leaves(rows)[k] = Sha256(Payload(rows[k]))
           /\ a.merkle_root = MerkleRoot(Leaves(rows))
           /\ batches[n] \in Range(batches)
<1>1. Sealing(n) /\ DOMAIN batches = 1..Len(batches)
  BY LastToOf DEF Database
<1>2. IsListOf(rows) /\ Len(rows) \in 1..MaxInt
  BY <1>1 DEF Sealing
<1>3. PICK s : s = Leaves(rows)
  OBVIOUS
<1>4. a.row_count = Len(rows) /\ a.merkle_root = MerkleRoot(s)
  BY <1>1, <1>3 DEF Sealing, Alike
<1>5. /\ IsSeq(s) /\ Len(s) = Len(rows)
      /\ \A k \in 1..Len(rows) : s[k] = Sha256(Payload(rows[k]))
  BY <1>2, <1>3, LeavesOf
<1>6. batches[n] \in Range(batches)
  BY <1>1 DEF Range
<1> QED BY <1>2, <1>3, <1>4, <1>5, <1>6

(* An i64 that is a natural number was not wrapped.                        *)
LEMMA NotWrapped ==
    ASSUME NEW n \in 0..(2 * MaxInt + 1), I64(n) \in Nat
    PROVE  I64(n) = n
<1>1. PICK w, m, x : w = MaxInt + 1 /\ m = MaxInt - MinInt + 1 /\ x = n - MinInt
  OBVIOUS
<1>2. w \in Nat \ {0} /\ m = 2 * w /\ x = n + w /\ MinInt = -w /\ n \in 0..(m - 1) /\ x \in Nat
  BY <1>1, WidthAssumption DEF MinInt
<1>3. I64(n) = -w + (x % m)
  BY <1>1, <1>2 DEF I64
<1>4. x % m \in 0..(m - 1) /\ x = m * (x \div m) + (x % m) /\ x \div m \in Int
  BY <1>2
<1>5. PICK q, r : q = x \div m /\ r = x % m
  OBVIOUS
<1>6. r \in 0..(m - 1) /\ x = m * q + r /\ q \in Int /\ m \in Nat \ {0}
  BY <1>2, <1>4, <1>5
<1>7. q < 2
  <2> SUFFICES ASSUME q >= 2 PROVE FALSE
    BY <1>6
  <2>1. m * q >= m * 2
    BY <1>6
  <2> QED BY <1>2, <1>6, <2>1
<1>8. q >= 0
  <2> SUFFICES ASSUME q <= -1 PROVE FALSE
    BY <1>6
  <2>1. m * q <= m * (-1)
    BY <1>6
  <2> QED BY <1>2, <1>6, <2>1
<1>9. q = 0 \/ q = 1
  BY <1>6, <1>7, <1>8
<1>10. I64(n) = r - w
  BY <1>2, <1>3, <1>5, <1>6
<1>11. CASE q = 0
  BY <1>2, <1>6, <1>10, <1>11
<1>12. CASE q = 1
  <2>1. r = n - w
    BY <1>2, <1>6, <1>12
  <2>2. r - w < 0
    BY <1>2, <2>1
  <2> QED BY <1>2, <1>6, <1>10, <2>2
<1> QED BY <1>9, <1>11, <1>12

(* A PASS vouches that a row labelled fleet was logged and anchored at the *)
(* leaf its proof names (verify.rs:309-352).                               *)
THEOREM FleetRowsExact == SystemSpec => []FleetRowsLogged
<1>1. ASSUME SystemInv PROVE FleetRowsLogged
  <2> SUFFICES ASSUME Accepted, NEW r \in Bodies("ai_audit"), r.covered_by.chain = "fleet"
               PROVE  \E a \in Bodies("anchor"), b \in Range(batches) :
                          /\ a.id = r.covered_by.anchor_id
                          /\ a.merkle_root = b.anchor.merkle_root
                          /\ r.inclusion_proof # None
                          /\ r.inclusion_proof.leaf_index + 1 \in DOMAIN b.rows
                          /\ r.payload = Payload(b.rows[r.inclusion_proof.leaf_index + 1])
    BY DEF FleetRowsLogged
  <2>1. Database /\ Inv /\ SoundRow(r)
    BY <1>1, SoundBodies
  <2>2. FleetInclusionOK(r) /\ RowIntegrityOK(r)
    BY <2>1, EveryLineChecked, AtReport DEF FleetRowsIncluded, RowsIntact
  <2>3. PICK a, p : a = AnchorById(r.covered_by.anchor_id) /\ p = r.inclusion_proof
    OBVIOUS
  <2>4. /\ a # None /\ p # None /\ I64(p.leaf_count) = a.row_count
        /\ MerkleInclusionVerify(r.payload_hash, p.leaf_index, p.leaf_count, p.path, a.merkle_root)
        /\ r.payload_hash = Sha256(r.payload)
    BY <2>2, <2>3 DEF FleetInclusionOK, RowIntegrityOK
  <2>5. a \in Bodies("anchor") /\ a.id = r.covered_by.anchor_id
    BY <2>1, <2>3, <2>4, AnchorFound DEF Inv
  <2>6. PICK n \in 1..Len(batches) : Alike(a, batches[n].anchor)
    BY <1>1, <2>5, AnchorGenuine
  <2>7. PICK rows, s : rows = batches[n].rows /\ s = Leaves(rows)
    OBVIOUS
  <2>8. /\ IsListOf(rows) /\ Len(rows) \in 1..MaxInt /\ a.row_count = Len(rows)
        /\ IsSeq(s) /\ Len(s) = Len(rows)
        /\ \A k \in 1..Len(rows) : s[k] = Sha256(Payload(rows[k]))
        /\ a.merkle_root = MerkleRoot(s) /\ batches[n] \in Range(batches)
    BY <2>1, <2>6, <2>7, AnchoredRows
  <2>9. p.leaf_index \in Nat /\ p.leaf_count \in 0..(2 * MaxInt + 1) /\ Len(p.path) \in Nat
    BY <2>1, <2>3, <2>4 DEF SoundRow, IsProof, IsSeq
  <2>10. p.leaf_count = Len(s)
    <3>1. I64(p.leaf_count) \in Nat
      BY <2>4, <2>8
    <3> QED BY <2>4, <2>8, <2>9, <3>1, NotWrapped
  <2>11. PICK h, i, path : h = r.payload_hash /\ i = p.leaf_index /\ path = p.path
    OBVIOUS
  <2>12. MerkleInclusionVerify(h, i, Len(s), path, MerkleRoot(s))
    BY <2>4, <2>8, <2>10, <2>11
  <2>13. i < Len(s) /\ h = s[i + 1]
    BY <2>8, <2>9, <2>11, <2>12, FoldBinds
  <2>14. i + 1 \in 1..Len(rows) /\ i + 1 \in DOMAIN rows
    BY <2>8, <2>9, <2>11, <2>13 DEF IsListOf
  <2>15. Sha256(r.payload) = Sha256(Payload(rows[i + 1]))
    BY <2>4, <2>8, <2>11, <2>13, <2>14
  <2>16. PICK x, y : x = r.payload /\ y = Payload(rows[i + 1])
    OBVIOUS
  <2>17. x = y
    BY <2>15, <2>16 DEF Sha256
  <2>18. a.merkle_root = batches[n].anchor.merkle_root
    BY <2>6 DEF Alike
  <2> QED BY <2>3, <2>4, <2>5, <2>7, <2>8, <2>11, <2>14, <2>16, <2>17, <2>18
<1> QED BY <1>1, SystemInvariant, PTL

(* The rows under an anchor of an accepted pack are sound, and hashed as   *)
(* their payloads are.                                                     *)
LEMMA RowsUnder ==
    ASSUME SystemInv, Accepted, NEW id, NEW t, t = RowsByAnchor(id)
    PROVE  /\ t = [k \in DOMAIN RowLinesUnder(id) |-> RowLinesUnder(id)[k].body]
           /\ \E S : /\ t \in Seq(S) /\ S \subseteq Bodies("ai_audit")
                     /\ \A r \in S : SoundRow(r) /\ r.payload_hash = Sha256(r.payload)
<1>1. /\ Database /\ Inv /\ Listing /\ \A r \in Bodies("ai_audit") : SoundRow(r)
      /\ Before("ai_audit") = LinesOf("ai_audit") /\ RowsIntact
  BY SoundBodies, AtReport
<1>2. t = [k \in DOMAIN RowLinesUnder(id) |-> RowLinesUnder(id)[k].body]
  BY <1>1, RowsOfLines
<1>3. PICK S : S = Bodies("ai_audit")
  OBVIOUS
<1>4. ai \in Seq(S)
  BY <1>1, <1>3 DEF Inv, Loaded, Lists
<1>5. PICK R : R = {i \in DOMAIN ai : ai[i].covered_by.anchor_id = id}
  OBVIOUS
<1>6. R \subseteq DOMAIN ai /\ InListOrder(t, ai, R)
  BY <1>4, <1>5, RowsSelected
<1>7. t \in Seq(S)
  BY <1>4, <1>6, SelectedTyped
<1>8. \A r \in S : SoundRow(r) /\ r.payload_hash = Sha256(r.payload)
  <2>1. \A r \in S : \E k \in DOMAIN ai : ai[k] = r
    BY <1>1, <1>3, EveryLineChecked
  <2>2. \A k \in DOMAIN ai : ai[k].payload_hash = Sha256(ai[k].payload)
    BY <1>1 DEF RowsIntact, RowIntegrityOK
  <2> QED BY <1>1, <1>3, <2>1, <2>2
<1> QED BY <1>2, <1>3, <1>7, <1>8

(* Rows and batch have the payloads of one in the order of the other.      *)
SamePayloads(own, rows) ==
    [i \in DOMAIN own |-> own[i].payload] = [i \in DOMAIN rows |-> Payload(rows[i])]

(* The rows recomputed under a tenant anchor are those of its batch.       *)
LEMMA BatchRecomputed ==
    ASSUME SystemInv, Accepted, NEW a \in Bodies("anchor"), OnTenantChain(a.chain),
           NEW n \in 1..Len(batches), Alike(a, batches[n].anchor)
    PROVE  SamePayloads(InLeafOrder(RowsByAnchor(a.id)), batches[n].rows)
<1>1. Database /\ Inv
  BY SoundBodies
<1>2. SovereignRecomputeOK(a)
  BY <1>1, EveryLineChecked, AtReport DEF TenantAnchorsRecompute
<1>3. PICK t : t = RowsByAnchor(a.id)
  OBVIOUS
<1>4. Len(t) = a.row_count /\ MerkleRoot(PayloadHashes(InLeafOrder(t))) = a.merkle_root
  BY <1>2, <1>3 DEF SovereignRecomputeOK
<1>5. PICK S : /\ t \in Seq(S)
               /\ \A r \in S : SoundRow(r) /\ r.payload_hash = Sha256(r.payload)
  BY <1>3, RowsUnder
<1>6. \A r \in S : r.created_at \in Int /\ r.id \in Int
  BY <1>5 DEF SoundRow
<1>7. PICK own : own = InLeafOrder(t)
  OBVIOUS
<1>8. own \in Seq(S) /\ Len(own) = Len(t)
  BY <1>5, <1>6, <1>7, LeafOrdered
<1>9. PICK rows, s : rows = batches[n].rows /\ s = Leaves(rows)
  OBVIOUS
<1>10. /\ IsListOf(rows) /\ Len(rows) \in 1..MaxInt /\ a.row_count = Len(rows)
       /\ IsSeq(s) /\ Len(s) = Len(rows)
       /\ \A k \in 1..Len(rows) : s[k] = Sha256(Payload(rows[k]))
       /\ a.merkle_root = MerkleRoot(s)
  BY <1>1, <1>9, AnchoredRows
<1>11. PICK m : m = Len(rows)
  OBVIOUS
<1>12. /\ m \in Nat \ {0} /\ Len(own) = m /\ DOMAIN own = 1..m /\ DOMAIN rows = 1..m
       /\ Len(s) = m
  BY <1>4, <1>8, <1>10, <1>11, WidthAssumption DEF IsListOf
<1>13. PICK h : h = PayloadHashes(own)
  OBVIOUS
<1>14. h = [k \in 1..m |-> own[k].payload_hash]
  BY <1>12, <1>13 DEF PayloadHashes
<1>15. IsSeq(h) /\ Len(h) = m
  <2>1. h = [k \in 1..m |-> h[k]]
    BY <1>14
  <2> QED BY <1>12, <2>1, SeqOfFunction
<1>16. MerkleRoot(h) = MerkleRoot(s)
  BY <1>4, <1>7, <1>10, <1>13
<1>17. h = s
  BY <1>10, <1>12, <1>15, <1>16, RootBinds
<1>18. ASSUME NEW k \in 1..m PROVE own[k].payload = Payload(rows[k])
  <2>1. own[k] \in S
    BY <1>8, <1>12
  <2>2. PICK x, y : x = own[k].payload /\ y = Payload(rows[k])
    OBVIOUS
  <2>3. h[k] = Sha256(x) /\ s[k] = Sha256(y)
    BY <1>5, <1>10, <1>11, <1>14, <2>1, <2>2
  <2>4. x = y
    BY <1>17, <2>3 DEF Sha256
  <2> QED BY <2>2, <2>4
<1>19. SamePayloads(own, rows)
  BY <1>12, <1>18 DEF SamePayloads
<1> QED BY <1>3, <1>7, <1>9, <1>19

(* A PASS vouches that the rows under a tenant anchor are all the rows of  *)
(* a batch of the gateway, in leaf order (verify.rs:277-307).              *)
THEOREM SovereignBatchesExact == SystemSpec => []SovereignBatchExact
<1>1. ASSUME SystemInv, Accepted, NEW a \in Bodies("anchor"), OnTenantChain(a.chain)
      PROVE  \E b \in Range(batches) :
                 /\ a.merkle_root = b.anchor.merkle_root
                 /\ SamePayloads(InLeafOrder([i \in DOMAIN RowLinesUnder(a.id) |->
                                                 RowLinesUnder(a.id)[i].body]), b.rows)
  <2>1. PICK n \in 1..Len(batches) : Alike(a, batches[n].anchor)
    BY <1>1, AnchorGenuine
  <2>2. PICK t, u : /\ t = RowsByAnchor(a.id)
                    /\ u = [k \in DOMAIN RowLinesUnder(a.id) |-> RowLinesUnder(a.id)[k].body]
    OBVIOUS
  <2>3. t = u
    BY <1>1, <2>2, RowsUnder
  <2>4. SamePayloads(InLeafOrder(t), batches[n].rows)
    BY <1>1, <2>1, <2>2, BatchRecomputed
  <2>5. a.merkle_root = batches[n].anchor.merkle_root
    BY <2>1 DEF Alike
  <2>6. batches[n] \in Range(batches)
    BY <1>1, SoundBodies, LastToOf DEF Range
  <2> QED BY <2>2, <2>3, <2>4, <2>5, <2>6
<1>2. SystemInv => SovereignBatchExact
  BY <1>1 DEF SovereignBatchExact, SamePayloads
<1> QED BY <1>2, SystemInvariant, PTL

-----------------------------------------------------------------------------
(* The anchors of the tenant's chain *)

(* chains.get(label): the anchors with the label, in the order of their ids*)
(* (verify.rs:381).                                                        *)
LEMMA ChainArranged ==
    ASSUME NEW S, anchors \in Seq(S), \A i \in DOMAIN anchors : anchors[i].id \in Int, NEW label
    PROVE  ArrangedByKey(Chain(label), anchors, {i \in DOMAIN anchors : anchors[i].chain = label},
                         [i \in DOMAIN anchors |-> anchors[i].id])
<1> DEFINE T(i) == anchors[i].chain = label
           P(i) == {j \in DOMAIN anchors :
                         /\ T(j)
                         /\ \/ anchors[j].id < anchors[i].id
                            \/ ~(anchors[i].id < anchors[j].id) /\ j < i}
           I    == {i \in DOMAIN anchors : T(i)}
           Nth(k) == CHOOSE i \in DOMAIN anchors : /\ T(i)
                                                   /\ k = 1 + Cardinality(P(i))
           c == [k \in 1..Cardinality(I) |-> Nth(k)]
<1>1. PICK key : key = [i \in DOMAIN anchors |-> anchors[i].id]
  OBVIOUS
<1>2. /\ Len(anchors) \in Nat /\ DOMAIN anchors = 1..Len(anchors) /\ I \subseteq 1..Len(anchors)
      /\ \A i \in DOMAIN anchors : key[i] \in Int /\ key[i] = anchors[i].id
  BY <1>1
<1>3. Chain(label) = [k \in 1..Cardinality(I) |-> anchors[c[k]]] \o <<>>
  <2>1. Chain(label) = [k \in 1..Cardinality(I) |-> anchors[Nth(k)]] \o <<>>
    BY DEF Chain, Arranged
  <2> HIDE DEF Nth, I
  <2> QED BY <2>1
<1>4. \A i \in I : P(i) = Under(I, key, i)
  BY <1>2 DEF Under
<1>5. ASSUME NEW k \in 1..Cardinality(I),
             \E i \in I : k = 1 + Cardinality(Under(I, key, i))
      PROVE  c[k] \in I /\ k = 1 + Cardinality(Under(I, key, c[k]))
  <2>1. \A i : i \in I <=> i \in DOMAIN anchors /\ T(i)
    OBVIOUS
  <2> HIDE DEF P, T, I
  <2>2. \E i \in DOMAIN anchors : /\ T(i)
                                  /\ k = 1 + Cardinality(P(i))
    BY <1>4, <1>5, <2>1
  <2>3. Nth(k) \in I /\ k = 1 + Cardinality(P(Nth(k)))
    BY <2>1, <2>2
  <2>4. c[k] = Nth(k)
    OBVIOUS
  <2> QED BY <1>4, <2>3, <2>4
<1> HIDE DEF c
<1>6. \A i \in I : key[i] \in Int
  BY <1>2
<1> HIDE DEF I
<1>7. ArrangedByKey(Chain(label), anchors, I, key)
  BY <1>2, <1>3, <1>5, <1>6, Arranging
<1> QED BY <1>1, <1>7 DEF I

(* Different batches have different first rows, hence different roots.     *)
LEMMA RootsDiffer ==
    ASSUME Database, NEW m \in 1..Len(batches), NEW n \in 1..Len(batches),
           batches[m].anchor.merkle_root = batches[n].anchor.merkle_root
    PROVE  m = n
<1>1. PICK r, s, a, b : /\ r = batches[m].rows /\ s = batches[n].rows
                        /\ a = batches[m].anchor /\ b = batches[n].anchor
  OBVIOUS
<1>2. PICK h, g : h = Leaves(r) /\ g = Leaves(s)
  OBVIOUS
<1>3. /\ Len(r) \in 1..MaxInt /\ IsSeq(h) /\ Len(h) = Len(r)
      /\ \A k \in 1..Len(r) : h[k] = Sha256(Payload(r[k]))
      /\ a.merkle_root = MerkleRoot(h)
  <2>1. Alike(a, batches[m].anchor)
    BY <1>1 DEF Alike
  <2> QED BY <1>1, <1>2, <2>1, AnchoredRows
<1>4. /\ Len(s) \in 1..MaxInt /\ IsSeq(g) /\ Len(g) = Len(s)
      /\ \A k \in 1..Len(s) : g[k] = Sha256(Payload(s[k]))
      /\ b.merkle_root = MerkleRoot(g)
  <2>1. Alike(b, batches[n].anchor)
    BY <1>1 DEF Alike
  <2> QED BY <1>1, <1>2, <2>1, AnchoredRows
<1>5. h[1] = g[1]
  <2>1. a.merkle_root = b.merkle_root
    BY <1>1
  <2>2. MerkleRoot(h) = MerkleRoot(g)
    BY <1>3, <1>4, <2>1
  <2>3. Len(h) > 0 /\ Len(g) > 0
    BY <1>3, <1>4, WidthAssumption
  <2> QED BY <1>3, <1>4, <2>2, <2>3, RootFirst
<1>6. 1 \in 1..Len(r) /\ 1 \in 1..Len(s)
  BY <1>3, <1>4, WidthAssumption
<1>7. r[1].id = s[1].id
  <2>1. Sha256(Payload(r[1])) = Sha256(Payload(s[1]))
    BY <1>3, <1>4, <1>5, <1>6
  <2>2. PICK x, y : x = Payload(r[1]) /\ y = Payload(s[1])
    OBVIOUS
  <2>3. x = y
    BY <2>1, <2>2 DEF Sha256
  <2> QED BY <2>2, <2>3 DEF Payload
<1>8. r[1].id \in a.from_id..a.to_id /\ s[1].id \in b.from_id..b.to_id
  BY <1>1, <1>6 DEF Database, Sealing
<1>9. /\ a.from_id \in Int /\ a.to_id \in Int /\ b.from_id \in Int /\ b.to_id \in Int
      /\ m < n => a.to_id < b.from_id
      /\ n < m => b.to_id < a.from_id
  <2>1. Len(log) \in Nat
    BY LastToOf
  <2> QED BY <1>1, <2>1 DEF Database, Covering
<1>10. ~(m < n) /\ ~(n < m)
  BY <1>7, <1>8, <1>9
<1>11. Len(batches) \in Nat
  BY LastToOf
<1> QED BY <1>10, <1>11

(* m is the last batch before n on the chain of n. *)
Precedes(m, n) ==
    /\ m < n /\ OnSame(m, n)
    /\ \A k \in 1..(n - 1) : OnSame(k, n) => k <= m

(* u are the pack's anchors under a label, and N[k] is the batch that u[k] *)
(* is alike: each the one before the next on its chain.                    *)
Consecutive(N, u, label) ==
    /\ Len(u) \in Nat /\ DOMAIN u = 1..Len(u)
    /\ \A k \in 1..Len(u) :
          /\ u[k] \in Bodies("anchor") /\ u[k].chain = label
          /\ N[k] \in 1..Len(batches) /\ Alike(u[k], batches[N[k]].anchor)
    /\ \A a \in Bodies("anchor") : a.chain = label => \E k \in 1..Len(u) : u[k] = a
    /\ \A k \in 2..Len(u) : Precedes(N[k-1], N[k])

(* The signed link of an accepted anchor leads to the batch before its own.*)
LEMMA ChainConsecutive ==
    ASSUME SystemInv, Accepted, NEW label, NEW u, u = Chain(label)
    PROVE  \E N : Consecutive(N, u, label)
<1>1. /\ Database /\ Inv /\ \A a \in Bodies("anchor") : SoundAnchor(a)
      /\ anchors \in Seq(Bodies("anchor")) /\ DOMAIN anchors = 1..Len(anchors)
      /\ Len(anchors) \in Nat
  <2>1. Database /\ Inv /\ \A a \in Bodies("anchor") : SoundAnchor(a)
    BY SoundBodies
  <2>2. anchors \in Seq(Bodies("anchor"))
    BY <2>1 DEF Inv, Loaded, Lists
  <2> QED BY <2>1, <2>2
<1>2. PICK S, I : /\ S = Bodies("anchor")
                  /\ I = {i \in DOMAIN anchors : anchors[i].chain = label}
  OBVIOUS
<1>3. \A i \in DOMAIN anchors : anchors[i] \in S /\ anchors[i].id \in Int
  <2>1. \A i \in DOMAIN anchors : anchors[i] \in S
    BY <1>1, <1>2
  <2> QED BY <1>1, <1>2, <2>1 DEF SoundAnchor
<1>4. ArrangedByKey(u, anchors, I, [i \in DOMAIN anchors |-> anchors[i].id])
  <2>1. anchors \in Seq(S)
    BY <1>1, <1>2
  <2> QED BY <1>2, <1>3, <2>1, ChainArranged
<1>5. PICK key, c : /\ EnumeratesByKey(I, key, c)
                    /\ u = [k \in 1..Cardinality(I) |-> anchors[c[k]]]
                    /\ Len(u) = Cardinality(I) /\ DOMAIN u = 1..Cardinality(I)
  BY <1>4 DEF ArrangedByKey
<1>6. PICK p : p = Cardinality(I)
  OBVIOUS
<1>7. /\ p \in Nat /\ Len(u) = p /\ DOMAIN u = 1..p
      /\ \A k \in 1..p : c[k] \in I /\ u[k] = anchors[c[k]]
      /\ \A i \in I : \E k \in 1..p : c[k] = i
  BY <1>5, <1>6 DEF EnumeratesByKey, Enumerates
<1>8. \A k \in 1..p : u[k] \in S /\ u[k].chain = label
  <2>1. \A i \in I : anchors[i] \in S /\ anchors[i].chain = label
    BY <1>2, <1>3
  <2> QED BY <1>7, <2>1
<1>9. \A a \in S : a.chain = label => \E k \in 1..p : u[k] = a
  <2>1. \A a \in S : \E i \in DOMAIN anchors : anchors[i] = a
    BY <1>1, <1>2, EveryLineChecked
  <2>2. \A i \in DOMAIN anchors : anchors[i].chain = label => i \in I
    BY <1>2
  <2> QED BY <1>7, <2>1, <2>2
<1>10. PICK N : N = [k \in 1..p |-> CHOOSE n \in 1..Len(batches) : Alike(u[k], batches[n].anchor)]
  OBVIOUS
<1>11. \A k \in 1..p : /\ N[k] \in 1..Len(batches)
                       /\ Alike(u[k], batches[N[k]].anchor)
  <2> SUFFICES ASSUME NEW k \in 1..p
               PROVE  N[k] \in 1..Len(batches) /\ Alike(u[k], batches[N[k]].anchor)
    OBVIOUS
  <2>1. \E n \in 1..Len(batches) : Alike(u[k], batches[n].anchor)
    BY <1>2, <1>8, AnchorGenuine
  <2> QED BY <1>10, <2>1
<1>12. ASSUME NEW k \in 2..p PROVE Precedes(N[k-1], N[k])
  <2>1. k \in 1..p /\ k - 1 \in 1..p
    BY <1>7
  <2>2. label \in {anchors[i].chain : i \in DOMAIN anchors}
    <3>1. c[k] \in DOMAIN anchors /\ anchors[c[k]].chain = label
      BY <1>2, <1>7, <2>1
    <3> QED BY <3>1
  <2>3. ChainLinks(label)
    BY <1>1, <2>2, AtReport DEF ChainsLink
  <2>4. LinksTo(u[k], u[k-1])
    BY <1>7, <2>3 DEF ChainLinks
  <2>5. PICK m, n : m = N[k-1] /\ n = N[k]
    OBVIOUS
  <2>6. m \in 1..Len(batches) /\ n \in 1..Len(batches)
    BY <1>11, <2>1, <2>5
  <2>7. /\ batches[n].anchor.prev_root # None
        /\ batches[n].anchor.prev_root = batches[m].anchor.merkle_root
    <3>1. u[k].prev_root = batches[n].anchor.prev_root
      BY <1>11, <2>1, <2>5 DEF Alike
    <3>2. u[k-1].merkle_root = batches[m].anchor.merkle_root
      BY <1>11, <2>1, <2>5 DEF Alike
    <3> QED BY <2>4, <3>1, <3>2 DEF LinksTo
  <2>8. PICK j \in 1..(n - 1) : /\ OnSame(j, n) /\ \A i \in 1..(n - 1) : OnSame(i, n) => i <= j
                                /\ batches[n].anchor.prev_root = batches[j].anchor.merkle_root
    BY <1>1, <2>6, <2>7 DEF Database, Linked
  <2>9. Len(batches) \in Nat
    BY <1>1, LastToOf
  <2>10. j \in 1..Len(batches) /\ j < n
    BY <2>6, <2>8, <2>9
  <2>11. batches[j].anchor.merkle_root = batches[m].anchor.merkle_root
    BY <2>7, <2>8
  <2>12. j = m
    BY <1>1, <2>6, <2>10, <2>11, RootsDiffer
  <2> QED BY <2>5, <2>8, <2>10, <2>12 DEF Precedes
<1>13. Consecutive(N, u, label)
  <2>1. \A k \in 1..p : u[k] \in Bodies("anchor")
    BY <1>2, <1>8
  <2>2. \A a \in Bodies("anchor") : a.chain = label => \E k \in 1..p : u[k] = a
    BY <1>2, <1>9
  <2> QED BY <1>7, <1>8, <1>11, <1>12, <2>1, <2>2 DEF Consecutive
<1> QED BY <1>13

(* From the i-th on, c lists the batches N. *)
InARow(N, p, c, n, i) ==
    /\ i \in 1..n /\ i + p - 1 <= n
    /\ \A k \in 1..p : N[k] = c[i + k - 1]

(* So they are a part of the batches of one chain. *)
LEMMA PartOfChain ==
    ASSUME Database, NEW N, NEW u, NEW label, Consecutive(N, u, label), Len(u) > 0
    PROVE  \E chain \in Chains : \E c, n, i :
               Numbers(c, n, OnChain(chain), chain) /\ InARow(N, Len(u), c, n, i)
<1>1. PICK p, q : p = Len(u) /\ q = Len(batches)
  OBVIOUS
<1>2. /\ p \in Nat \ {0} /\ q \in Nat
      /\ \A k \in 1..p : N[k] \in 1..q
      /\ \A k \in 2..p : Precedes(N[k-1], N[k])
  BY <1>1, LastToOf DEF Consecutive
<1>3. PICK chain : chain = batches[N[1]].anchor.chain
  OBVIOUS
<1>4. 1 \in 1..p /\ N[1] \in 1..q
  BY <1>2
<1>5. chain \in Chains
  BY <1>1, <1>3, <1>4 DEF Database, Sealing, Chains
<1>6. PICK c, n : Numbers(c, n, OnChain(chain), chain)
  BY OnChainAt
<1>7. /\ n \in Nat
      /\ \A k \in 1..n : c[k] \in 1..q /\ batches[c[k]].anchor.chain = chain
      /\ \A m \in 1..q : batches[m].anchor.chain = chain => \E k \in 1..n : c[k] = m
      /\ \A j, k \in 1..n : j < k => c[j] < c[k]
  BY <1>1, <1>6 DEF Numbers
<1>8. PICK i \in 1..n : c[i] = N[1]
  BY <1>3, <1>4, <1>7
<1>9. PICK S : S = {k \in 1..p : i + k - 1 <= n /\ N[k] = c[i + k - 1]}
  OBVIOUS
<1>10. 1 \in S
  BY <1>4, <1>7, <1>8, <1>9
<1>11. ASSUME NEW k \in 1..p, k < p, k \in S PROVE k + 1 \in S
  <2>1. PICK x, m, l : x = i + k - 1 /\ m = N[k] /\ l = N[k+1]
    OBVIOUS
  <2>2. x \in 1..n /\ m = c[x] /\ k + 1 \in 2..p /\ (k + 1) - 1 = k /\ i + (k + 1) - 1 = x + 1
    BY <1>2, <1>7, <1>9, <1>11, <2>1
  <2>3. Precedes(m, l) /\ l \in 1..q /\ m \in 1..q
    <3>1. Precedes(N[(k + 1) - 1], N[k+1])
      BY <1>2, <2>2
    <3>2. k + 1 \in 1..p
      BY <1>2, <2>2
    <3> QED BY <1>2, <2>1, <2>2, <3>1, <3>2
  <2>4. /\ m < l /\ batches[l].anchor.chain = chain
        /\ \A y \in 1..(l - 1) : batches[y].anchor.chain = chain => y <= m
    <3>1. batches[m].anchor.chain = chain
      BY <1>7, <2>2
    <3> QED BY <2>3, <3>1 DEF Precedes, OnSame
  <2>5. PICK y \in 1..n : c[y] = l
    BY <1>7, <2>3, <2>4
  <2>6. x < y
    <3>1. y < x => c[y] < c[x]
      BY <1>7, <2>2
    <3>2. ~(y < x) /\ y # x
      BY <2>2, <2>3, <2>4, <2>5, <3>1
    <3> QED BY <1>7, <2>2, <3>2
  <2>7. y = x + 1
    <3> SUFFICES ASSUME y # x + 1 PROVE FALSE
      OBVIOUS
    <3>1. x + 1 \in 1..n /\ x < x + 1 /\ x + 1 < y
      BY <1>7, <2>2, <2>6
    <3>2. c[x] < c[x+1] /\ c[x+1] < c[y] /\ c[x+1] \in 1..q
      BY <1>7, <2>2, <3>1
    <3>3. c[x+1] \in 1..(l - 1) /\ batches[c[x+1]].anchor.chain = chain
      BY <1>2, <1>7, <2>3, <2>5, <3>1, <3>2
    <3> QED BY <2>2, <2>3, <2>4, <3>2, <3>3
  <2>8. x + 1 <= n /\ N[k+1] = c[x+1] /\ k + 1 \in 1..p
    BY <1>2, <1>7, <2>1, <2>2, <2>5, <2>7
  <2> QED BY <1>9, <2>2, <2>8
<1>12. \A k \in 1..p : k \in S
  BY <1>2, <1>10, <1>11, InductiveTo
<1>13. InARow(N, p, c, n, i)
  <2>1. p \in 1..p
    BY <1>2
  <2> QED BY <1>9, <1>12, <2>1 DEF InARow
<1> QED BY <1>1, <1>5, <1>6, <1>13

(* A PASS vouches that the tenant anchors of the pack are consecutive      *)
(* batches of the chain the gateway built (verify.rs:381-411).             *)
THEOREM NoAnchorMissing == SystemSpec => []AnchorsConsecutive
<1>1. ASSUME SystemInv, Accepted, NEW t, t = OnChain(OwnChain), NEW present,
             present = {i \in DOMAIN t : \E a \in Bodies("anchor") :
                           a.chain = OwnChain /\ a.merkle_root = t[i].anchor.merkle_root},
             NEW i \in present, NEW j \in present
      PROVE  i..j \subseteq present
  <2>1. Database /\ Len(batches) \in Nat
    BY <1>1, SoundBodies, LastToOf
  <2>2. PICK u : u = Chain(OwnChain)
    OBVIOUS
  <2>3. PICK N : Consecutive(N, u, OwnChain)
    BY <1>1, <2>2, ChainConsecutive
  <2>4. PICK p : p = Len(u)
    OBVIOUS
  <2>5. /\ p \in Nat
        /\ \A k \in 1..p : /\ u[k] \in Bodies("anchor") /\ u[k].chain = OwnChain
                           /\ N[k] \in 1..Len(batches)
                           /\ u[k].merkle_root = batches[N[k]].anchor.merkle_root
        /\ \A a \in Bodies("anchor") : a.chain = OwnChain => \E k \in 1..p : u[k] = a
    BY <2>3, <2>4 DEF Consecutive, Alike
  <2>6. PICK k1 \in 1..p : u[k1].merkle_root = t[i].anchor.merkle_root
    BY <1>1, <2>5
  <2>7. PICK chain \in Chains : \E c, n, x :
               Numbers(c, n, OnChain(chain), chain) /\ InARow(N, p, c, n, x)
    <3>1. Len(u) > 0
      BY <2>4, <2>5, <2>6
    <3> QED BY <2>1, <2>3, <2>4, <3>1, PartOfChain
  <2>8. PICK c, n, x : Numbers(c, n, OnChain(chain), chain) /\ InARow(N, p, c, n, x)
    BY <2>7
  <2>9. /\ x \in 1..n /\ n \in Nat /\ x + p - 1 <= n
        /\ \A k \in 1..p : N[k] = c[x + k - 1]
        /\ \A k \in 1..n : c[k] \in 1..Len(batches) /\ batches[c[k]].anchor.chain = chain
        /\ \A l, k \in 1..n : l < k => c[l] < c[k]
    BY <2>8 DEF Numbers, InARow
  <2>10. chain = OwnChain
    <3>1. PICK d, m : Numbers(d, m, t, OwnChain)
      BY <1>1, <2>1, OnChainAt
    <3>2. /\ d[i] \in 1..Len(batches) /\ t[i] = batches[d[i]]
          /\ batches[d[i]].anchor.chain = OwnChain
      BY <1>1, <3>1 DEF Numbers
    <3>3. batches[N[k1]].anchor.merkle_root = batches[d[i]].anchor.merkle_root
      BY <2>5, <2>6, <3>2
    <3>4. N[k1] = d[i]
      BY <2>1, <2>5, <3>2, <3>3, RootsDiffer
    <3>5. x + k1 - 1 \in 1..n /\ N[k1] = c[x + k1 - 1]
      BY <2>5, <2>9
    <3> QED BY <2>9, <3>2, <3>4, <3>5
  <2>11. Numbers(c, n, t, OwnChain)
    BY <1>1, <2>8, <2>10
  <2>12. DOMAIN t = 1..n /\ \A k \in 1..n : t[k] = batches[c[k]]
    BY <2>11 DEF Numbers
  <2>13. \A k \in present : k \in x..(x + p - 1)
    <3> SUFFICES ASSUME NEW k \in present PROVE k \in x..(x + p - 1)
      OBVIOUS
    <3>1. k \in 1..n
      BY <1>1, <2>12
    <3>2. PICK l \in 1..p : u[l].merkle_root = t[k].anchor.merkle_root
      BY <1>1, <2>5
    <3>3. batches[N[l]].anchor.merkle_root = batches[c[k]].anchor.merkle_root
      BY <2>5, <2>12, <3>1, <3>2
    <3>4. N[l] = c[k]
      BY <2>1, <2>5, <2>9, <3>1, <3>3, RootsDiffer
    <3>5. x + l - 1 \in 1..n /\ c[x + l - 1] = c[k]
      BY <2>5, <2>9, <3>4
    <3>6. ~(k < x + l - 1) /\ ~(x + l - 1 < k)
      <4>1. c[k] \in Int
        BY <2>9, <3>1
      <4> QED BY <2>9, <3>1, <3>5, <4>1
    <3> QED BY <2>5, <2>9, <3>1, <3>6
  <2>14. ASSUME NEW k \in x..(x + p - 1) PROVE k \in present
    <3>1. PICK l \in 1..p : k = x + l - 1
      <4>1. k - x + 1 \in 1..p /\ k = x + (k - x + 1) - 1
        BY <2>5, <2>9, <2>14
      <4> QED BY <4>1
    <3>2. k \in 1..n
      BY <2>5, <2>9, <2>14
    <3>3. N[l] = c[k]
      BY <2>9, <3>1
    <3>4. u[l].merkle_root = batches[N[l]].anchor.merkle_root
      BY <2>5
    <3>5. t[k] = batches[c[k]]
      BY <2>12, <3>2
    <3>6. u[l].merkle_root = t[k].anchor.merkle_root
      BY <3>3, <3>4, <3>5
    <3> QED BY <1>1, <2>5, <2>12, <3>2, <3>6
  <2>15. i \in x..(x + p - 1) /\ j \in x..(x + p - 1)
    BY <2>13
  <2>16. \A k \in i..j : k \in x..(x + p - 1)
    BY <2>5, <2>9, <2>15
  <2> QED BY <2>14, <2>16
<1>2. SystemInv => AnchorsConsecutive
  <2> SUFFICES ASSUME SystemInv, Accepted PROVE AnchorsConsecutive
    BY DEF AnchorsConsecutive
  <2>1. PICK t : t = OnChain(OwnChain)
    OBVIOUS
  <2>2. PICK present : present = {i \in DOMAIN t : \E a \in Bodies("anchor") :
                          a.chain = OwnChain /\ a.merkle_root = t[i].anchor.merkle_root}
    OBVIOUS
  <2>3. \A i, j \in present : i..j \subseteq present
    BY <1>1, <2>1, <2>2
  <2> QED BY <2>1, <2>2, <2>3 DEF AnchorsConsecutive
<1> QED BY <1>2, SystemInvariant, PTL
-----------------------------------------------------------------------------
(* The seam *)

(* A sum that wraps is not a natural number.                               *)
LEMMA SuccessorNotWrapped ==
    ASSUME NEW c \in MinInt..MaxInt, I64(c + 1) \in Nat
    PROVE  c \in Int /\ I64(c + 1) = c + 1
<1>1. c \in Int /\ MinInt < 0 /\ MaxInt \in Nat
  BY WidthAssumption DEF MinInt
<1>2. CASE c = MaxInt
  <2>1. I64(c + 1) = MinInt
    BY <1>2, WidthAssumption DEF I64, MinInt
  <2> QED BY <1>1, <2>1
<1>3. CASE c # MaxInt
  <2>1. c + 1 \in MinInt..MaxInt
    BY <1>1, <1>3, WidthAssumption DEF MinInt
  <2>2. I64(c + 1) = c + 1
    BY <2>1, WidthAssumption DEF I64, MinInt
  <2> QED BY <1>1, <2>2
<1> QED BY <1>2, <1>3

(* The first tenant anchor of an accepted pack begins at the row after the *)
(* declared cursor, and rows past the cursor are on the tenant's chain.    *)
LEMMA SeamAt ==
    ASSUME SystemInv, Accepted, NEW h, h = manifest.genesis_handoff, h # None,
           NEW m, m = Min(Sovereign), m \in Nat
    PROVE  /\ h.handoff_cursor_id \in Int /\ m = h.handoff_cursor_id + 1
           /\ \A r \in Bodies("ai_audit") :
                 r.id > h.handoff_cursor_id => OnTenantChain(r.covered_by.chain)
<1>1. Inv /\ pack = file /\ SoundFile(file) /\ \A r \in Bodies("ai_audit") : SoundRow(r)
  BY SoundBodies DEF SystemInv, Delivered, Stages, Accepted
<1>2. manifest # None /\ last_was_manifest /\ SeamHolds
  BY <1>1, AtReport DEF ManifestIsLast
<1>3. PICK i \in DOMAIN pack : pack[i].kind = "manifest" /\ manifest = pack[i].body
  BY <1>1, <1>2 DEF Inv, Loaded, Ends, LastManifest, Before, LinesOf
<1>4. manifest \in Manifests
  BY <1>1, <1>3 DEF SoundFile, Sound
<1>5. h \in Handoffs
  BY <1>4 DEF Manifests
<1>6. PICK c : c = h.handoff_cursor_id
  OBVIOUS
<1>7. c \in MinInt..MaxInt
  BY <1>5, <1>6 DEF Handoffs
<1>8. SeamOK(h)
  BY <1>2 DEF SeamHolds
<1>9. m = I64(c + 1)
  BY <1>6, <1>8 DEF SeamOK
<1>10. c \in Int /\ m = c + 1
  BY <1>7, <1>9, SuccessorNotWrapped
<1>11. ASSUME NEW r \in Bodies("ai_audit"), r.id > c PROVE OnTenantChain(r.covered_by.chain)
  <2>1. PICK k \in DOMAIN ai : ai[k] = r
    BY <1>1, EveryLineChecked
  <2>2. r.id \in Int
    BY <1>1 DEF SoundRow
  <2>3. ~(ai[k].id <= c)
    BY <1>10, <1>11, <2>1, <2>2
  <2>4. OnTenantChain(ai[k].covered_by.chain)
    BY <1>6, <1>8, <2>3 DEF SeamOK
  <2> QED BY <2>1, <2>4
<1> QED BY <1>6, <1>10, <1>11

(* The ranges of the batches leave no row out.                             *)
LEMMA BatchHolding ==
    ASSUME Database, NEW i \in 1..Len(batches), NEW j \in 1..Len(batches), NEW x \in Int,
           batches[i].anchor.from_id <= x, x <= batches[j].anchor.to_id
    PROVE  \E n \in i..j : x \in batches[n].anchor.from_id..batches[n].anchor.to_id
<1>1. PICK q, f, t : /\ q = Len(batches)
                     /\ f = [n \in 1..q |-> batches[n].anchor.from_id]
                     /\ t = [n \in 1..q |-> batches[n].anchor.to_id]
  OBVIOUS
<1>2. /\ q \in Nat /\ i \in 1..q /\ j \in 1..q /\ f[i] <= x /\ x <= t[j]
      /\ \A n \in 1..q : f[n] \in Int /\ t[n] \in Int
      /\ \A n \in 2..q : f[n] = t[n-1] + 1
      /\ \A m, n \in 1..q : m < n => t[m] < f[n]
  <2>1. q \in Nat /\ Len(log) \in Nat
    BY <1>1, LastToOf
  <2>2. \A n \in 1..q : Covering(n)
    BY <1>1 DEF Database
  <2>3. \A n \in 1..q : f[n] \in Int /\ t[n] \in Int
    BY <1>1, <2>1, <2>2 DEF Covering
  <2>4. ASSUME NEW n \in 2..q PROVE f[n] = t[n-1] + 1
    <3>1. n \in 1..q /\ n - 1 \in 1..q /\ n # 1
      BY <2>1
    <3> QED BY <1>1, <2>2, <3>1 DEF Covering
  <2>5. \A m, n \in 1..q : m < n => t[m] < f[n]
    BY <1>1 DEF Database
  <2> QED BY <1>1, <2>1, <2>3, <2>4, <2>5
<1>3. i <= j
  BY <1>2
<1>4. PICK K : K = {n \in i..j : f[n] <= x}
  OBVIOUS
<1>5. K \subseteq 1..q /\ i \in K
  BY <1>2, <1>3, <1>4
<1>6. Max(K) \in K /\ \A n \in K : n <= Max(K)
  BY <1>2, <1>5, MaxIn
<1>7. PICK n : n = Max(K)
  OBVIOUS
<1>8. n \in i..j /\ f[n] <= x /\ n \in 1..q /\ \A k \in K : k <= n
  BY <1>4, <1>5, <1>6, <1>7
<1>9. x <= t[n]
  <2>1. CASE n = j
    BY <1>2, <2>1
  <2>2. CASE n # j
    <3>1. n + 1 \in i..j /\ n + 1 \in 2..q /\ n + 1 \in 1..q /\ (n + 1) - 1 = n
      BY <1>2, <1>8, <2>2
    <3>2. n + 1 \notin K
      BY <1>2, <1>8
    <3>3. ~(f[n+1] <= x) /\ f[n+1] = t[n] + 1
      BY <1>2, <1>4, <3>1, <3>2
    <3> QED BY <1>2, <1>8, <3>1, <3>3
  <2> QED BY <2>1, <2>2
<1> QED BY <1>1, <1>2, <1>8, <1>9

(* The batches between two that a pack's anchors under one label are alike *)
(* are alike others of them.                                               *)
LEMMA NoneBetween ==
    ASSUME Database, NEW N, NEW u, NEW label, Consecutive(N, u, label),
           NEW j \in 1..Len(u), NEW k \in 1..Len(u), NEW b \in N[j]..N[k]
    PROVE  \E l \in 1..Len(u) : N[l] = b
<1>1. PICK p, q : p = Len(u) /\ q = Len(batches)
  OBVIOUS
<1>2. /\ p \in Nat \ {0} /\ q \in Nat /\ j \in 1..p /\ k \in 1..p
      /\ \A l \in 1..p : N[l] \in 1..q
  BY <1>1, LastToOf DEF Consecutive
<1>3. b \in 1..q /\ N[j] <= b /\ b <= N[k]
  BY <1>2
<1>4. PICK chain \in Chains : \E c, n, i :
          Numbers(c, n, OnChain(chain), chain) /\ InARow(N, p, c, n, i)
  BY <1>1, <1>2, PartOfChain
<1>5. PICK c, n, i : Numbers(c, n, OnChain(chain), chain) /\ InARow(N, p, c, n, i)
  BY <1>4
<1>6. /\ n \in Nat
      /\ \A l \in 1..n : c[l] \in 1..q /\ batches[c[l]].anchor.chain = chain
      /\ \A m \in 1..q : batches[m].anchor.chain = chain => \E l \in 1..n : c[l] = m
      /\ \A l, m \in 1..n : l < m => c[l] < c[m]
  BY <1>1, <1>5 DEF Numbers
<1>7. i \in 1..n /\ i + p - 1 <= n /\ \A l \in 1..p : N[l] = c[i + l - 1]
  BY <1>5 DEF InARow
<1>8. PICK x, y : x = i + j - 1 /\ y = i + k - 1
  OBVIOUS
<1>9. x \in 1..n /\ y \in 1..n /\ c[x] = N[j] /\ c[y] = N[k]
  BY <1>2, <1>6, <1>7, <1>8
<1>10. batches[b].anchor.chain = chain
  <2>1. batches[N[j]].anchor.chain = chain /\ batches[N[k]].anchor.chain = chain
    BY <1>6, <1>9
  <2>2. batches[b].anchor.chain \in {"fleet", OwnChain} /\ chain \in {"fleet", OwnChain}
    BY <1>1, <1>3, <1>4 DEF Database, Sealing, Chains
  <2>3. CASE chain = "fleet"
    <3>1. b < N[k] => batches[b].anchor.chain = "fleet"
      BY <1>1, <1>2, <1>3, <2>1, <2>3 DEF Database, FleetFirst
    <3>2. b < N[k] \/ b = N[k]
      BY <1>2, <1>3
    <3> QED BY <2>1, <2>3, <3>1, <3>2
  <2>4. CASE chain # "fleet"
    <3>1. N[j] < b /\ batches[b].anchor.chain = "fleet" => batches[N[j]].anchor.chain = "fleet"
      BY <1>1, <1>2, <1>3 DEF Database, FleetFirst
    <3>2. N[j] < b \/ b = N[j]
      BY <1>2, <1>3
    <3> QED BY <2>1, <2>2, <2>4, <3>1, <3>2
  <2> QED BY <2>3, <2>4
<1>11. PICK z \in 1..n : c[z] = b
  BY <1>3, <1>6, <1>10
<1>12. x <= z /\ z <= y
  <2>1. z < x => c[z] < c[x]
    BY <1>6, <1>9
  <2>2. y < z => c[y] < c[z]
    BY <1>6, <1>9
  <2>3. c[x] \in Int /\ c[y] \in Int /\ c[z] \in Int /\ x \in Int /\ y \in Int /\ z \in Int
    BY <1>2, <1>6, <1>9
  <2> QED BY <1>3, <1>9, <1>11, <2>1, <2>2, <2>3
<1>13. z - i + 1 \in 1..p /\ i + (z - i + 1) - 1 = z
  BY <1>2, <1>6, <1>7, <1>8, <1>12
<1>14. N[z - i + 1] = b
  BY <1>7, <1>11, <1>13
<1> QED BY <1>1, <1>13, <1>14

(* A row of the tenant in the range of a tenant anchor is in the pack.     *)
LEMMA RowUnder ==
    ASSUME SystemInv, Accepted, NEW a \in Bodies("anchor"), OnTenantChain(a.chain),
           NEW n \in 1..Len(batches), Alike(a, batches[n].anchor),
           NEW m \in batches[n].anchor.from_id..batches[n].anchor.to_id,
           log[m].tenant = TenantId
    PROVE  \E r \in Bodies("ai_audit") : r.payload = Payload(log[m])
<1>1. PICK t, own, rows : /\ t = RowsByAnchor(a.id) /\ own = InLeafOrder(t)
                          /\ rows = batches[n].rows
  OBVIOUS
<1>2. [i \in DOMAIN own |-> own[i].payload] = [i \in DOMAIN rows |-> Payload(rows[i])]
  BY <1>1, BatchRecomputed DEF SamePayloads
<1>3. PICK S : /\ t \in Seq(S) /\ S \subseteq Bodies("ai_audit")
               /\ \A r \in S : SoundRow(r) /\ r.payload_hash = Sha256(r.payload)
  BY <1>1, RowsUnder
<1>4. \A r \in S : r.created_at \in Int /\ r.id \in Int
  BY <1>3 DEF SoundRow
<1>5. own \in Seq(S)
  BY <1>1, <1>3, <1>4, LeafOrdered
<1>6. Sealing(n) /\ IsListOf(rows)
  BY <1>1, SoundBodies DEF Database, Sealing
<1>7. PICK k \in 1..Len(rows) : rows[k] = log[m]
  BY <1>1, <1>6 DEF Sealing
<1>8. k \in DOMAIN rows /\ DOMAIN own = DOMAIN rows
  BY <1>2, <1>6, <1>7 DEF IsListOf
<1>9. own[k].payload = Payload(log[m])
  BY <1>2, <1>7, <1>8
<1>10. own[k] \in Bodies("ai_audit")
  BY <1>3, <1>5, <1>8
<1> QED BY <1>9, <1>10

(* A PASS vouches that from the row after the handoff to the last the      *)
(* tenant's chain covers every row logged for the tenant is in the pack,   *)
(* and on that chain only (verify.rs:277-307, 381-411, 545-575).           *)
THEOREM SeamIsClosed == SystemSpec => []SeamHasNoGap
<1>1. ASSUME SystemInv, Accepted, NEW h, h = manifest.genesis_handoff, h # None,
             NEW e \in Range(log), e.tenant = TenantId, e.id > h.handoff_cursor_id,
             NEW first \in Bodies("anchor"), NEW a \in Bodies("anchor"),
             OnTenantChain(a.chain), first.chain = a.chain,
             first.from_id = Min(Sovereign), e.id <= a.to_id
      PROVE  /\ \E r \in Bodies("ai_audit") : r.payload = Payload(e)
             /\ \A r \in Bodies("ai_audit") :
                   r.payload = Payload(e) => OnTenantChain(r.covered_by.chain)
  <2>1. Database /\ Inv /\ \A r \in Bodies("ai_audit") : SoundRow(r)
    BY <1>1, SoundBodies
  <2>2. PICK m \in 1..Len(log) : e = log[m]
    BY <1>1, <2>1 DEF Database, RowsLogged, IsListOf, Range
  <2>3. e.id = m /\ m \in Nat /\ Payload(e) # Stray
    BY <2>1, <2>2, LastToOf DEF Database, RowsLogged
  <2>4. PICK u : u = Chain(a.chain)
    OBVIOUS
  <2>5. PICK N : Consecutive(N, u, a.chain)
    BY <1>1, <2>4, ChainConsecutive
  <2>6. PICK j \in 1..Len(u), k \in 1..Len(u) : u[j] = first /\ u[k] = a
    BY <1>1, <2>5 DEF Consecutive
  <2>7. /\ N[j] \in 1..Len(batches) /\ N[k] \in 1..Len(batches)
        /\ first.from_id = batches[N[j]].anchor.from_id
        /\ a.to_id = batches[N[k]].anchor.to_id
    BY <2>5, <2>6 DEF Consecutive, Alike
  <2>8. first.from_id \in Nat
    BY <2>1, <2>7 DEF Database, Covering
  <2>9. /\ h.handoff_cursor_id \in Int /\ first.from_id = h.handoff_cursor_id + 1
        /\ \A r \in Bodies("ai_audit") :
              r.id > h.handoff_cursor_id => OnTenantChain(r.covered_by.chain)
    <3>1. PICK f : f = Min(Sovereign)
      OBVIOUS
    <3>2. f \in Nat /\ first.from_id = f
      BY <1>1, <2>8, <3>1
    <3> QED BY <1>1, <3>1, <3>2, SeamAt
  <2>10. batches[N[j]].anchor.from_id <= m /\ m <= batches[N[k]].anchor.to_id
    BY <1>1, <2>3, <2>7, <2>9
  <2>11. PICK b \in N[j]..N[k] : m \in batches[b].anchor.from_id..batches[b].anchor.to_id
    <3>1. PICK x, y : x = N[j] /\ y = N[k]
      OBVIOUS
    <3>2. /\ x \in 1..Len(batches) /\ y \in 1..Len(batches) /\ m \in Int
          /\ batches[x].anchor.from_id <= m /\ m <= batches[y].anchor.to_id
      BY <2>3, <2>7, <2>10, <3>1
    <3>3. \E b \in x..y : m \in batches[b].anchor.from_id..batches[b].anchor.to_id
      BY ONLY <2>1, <3>2, BatchHolding
    <3> QED BY <3>1, <3>3
  <2>12. PICK l \in 1..Len(u) : N[l] = b
    BY <2>1, <2>5, <2>6, <2>11, NoneBetween
  <2>13. PICK c : c = u[l]
    OBVIOUS
  <2>14. /\ c \in Bodies("anchor") /\ OnTenantChain(c.chain)
         /\ b \in 1..Len(batches) /\ Alike(c, batches[b].anchor)
    BY <1>1, <2>5, <2>12, <2>13 DEF Consecutive
  <2>15. log[m].tenant = TenantId
    BY <1>1, <2>2
  <2>16. \E r \in Bodies("ai_audit") : r.payload = Payload(e)
    <3>1. \E r \in Bodies("ai_audit") : r.payload = Payload(log[m])
      BY <1>1, <2>11, <2>14, <2>15, RowUnder
    <3> QED BY <2>2, <3>1
  <2>17. ASSUME NEW r \in Bodies("ai_audit"), r.payload = Payload(e)
         PROVE  OnTenantChain(r.covered_by.chain)
    <3>1. Known(r.payload, r.id) /\ r.id \in Int
      BY <2>1 DEF SoundRow
    <3>2. PICK n \in 1..Len(log) : Payload(e) = Payload(log[n]) /\ n <= r.id
      BY <2>3, <2>17, <3>1 DEF Known
    <3>3. e.id = log[n].id
      BY <3>2 DEF Payload
    <3>4. log[n].id = n
      BY <2>1 DEF Database, RowsLogged
    <3>5. r.id > h.handoff_cursor_id
      BY <1>1, <2>3, <2>9, <3>1, <3>2, <3>3, <3>4
    <3> QED BY <2>9, <3>5
  <2> QED BY <2>16, <2>17
<1>2. SystemInv => SeamHasNoGap
  <2> SUFFICES ASSUME SystemInv, Accepted, NEW h, h = manifest.genesis_handoff, h # None,
                      NEW e \in Range(log), e.tenant = TenantId, e.id > h.handoff_cursor_id,
                      NEW first \in Bodies("anchor"), NEW a \in Bodies("anchor"),
                      OnTenantChain(a.chain), first.chain = a.chain,
                      first.from_id = Min(Sovereign), e.id <= a.to_id,
                      NEW copies, copies = {r \in Bodies("ai_audit") : r.payload = Payload(e)}
               PROVE  copies # {} /\ \A r \in copies : OnTenantChain(r.covered_by.chain)
    BY DEF SeamHasNoGap
  <2>1. /\ \E r \in Bodies("ai_audit") : r.payload = Payload(e)
        /\ \A r \in Bodies("ai_audit") :
              r.payload = Payload(e) => OnTenantChain(r.covered_by.chain)
    BY <1>1
  <2> QED BY <2>1
<1> QED BY <1>2, SystemInvariant, PTL
-----------------------------------------------------------------------------
(* The ledger *)

(* Where the batches of a chain are in the list. *)
Places(chain) == {i \in DOMAIN batches : batches[i].anchor.chain = chain}

InOrder(chain) == InListOrder(OnChain(chain), batches, Places(chain))

(* The entries of a chain, and how many of them are anchored: all.         *)
LEMMA EntriesOf ==
    ASSUME Database, NEW chain, NEW t, t = OnChain(chain)
    PROVE  /\ InOrder(chain)
           /\ Len(t) = Cardinality(Places(chain)) /\ Len(t) \in Nat /\ DOMAIN t = 1..Len(t)
           /\ Anchored(chain) = [k \in 1..Len(t) |-> Entry(t[k])]
           /\ IsListOf(Anchored(chain)) /\ Len(Anchored(chain)) = Len(t)
<1>1. PICK S : S = Range(batches)
  OBVIOUS
<1>2. batches \in Seq(S)
  BY <1>1 DEF Database, IsListOf
<1>3. InOrder(chain)
  BY <1>2, ChainSelected DEF InOrder, Places
<1>4. Places(chain) \subseteq DOMAIN batches
  BY DEF Places
<1>5. InListOrder(t, batches, Places(chain))
  BY <1>3 DEF InOrder
<1>6. t \in Seq(S) /\ Len(t) = Cardinality(Places(chain))
  <2>1. t \in Seq(S)
    BY <1>2, <1>4, <1>5, SelectedTyped
  <2>2. Len(t) = Cardinality(Places(chain))
    BY <1>5 DEF InListOrder, ArrangedByKey
  <2> QED BY <2>1, <2>2
<1>7. Len(t) \in Nat /\ DOMAIN t = 1..Len(t)
  BY <1>6
<1>8. PICK h : h = Anchored(chain)
  OBVIOUS
<1>9. h = [k \in 1..Len(t) |-> Entry(t[k])]
  BY <1>7, <1>8 DEF Anchored
<1>10. h \in Seq({Entry(t[k]) : k \in 1..Len(t)}) /\ Len(h) = Len(t)
  BY <1>7, <1>9
<1>11. IsListOf(h)
  BY <1>10, AnyList
<1> QED BY <1>3, <1>6, <1>7, <1>8, <1>9, <1>10, <1>11

(* What a PASS shows is a window of one chain.                             *)
Windowed ==
    \E chain \in Chains :
        \E from \in 1..(SealedTo[chain] + 1), to \in 0..SealedTo[chain] :
            Shown = SubSeq(Anchored(chain), from, to)

(* The tenant anchors of an accepted pack, with the rows under them, are a *)
(* window of the chain the gateway built.                                  *)
LEMMA ShownIsWindow == SystemInv /\ Accepted => Windowed
<1> SUFFICES ASSUME SystemInv, Accepted PROVE Windowed
  OBVIOUS
<1>1. Database
  BY SoundBodies
<1>2. PICK u : u = Chain(OwnChain)
  OBVIOUS
<1>3. PICK N : Consecutive(N, u, OwnChain)
  BY <1>2, ChainConsecutive
<1>4. PICK p : p = Len(u)
  OBVIOUS
<1>5. /\ p \in Nat /\ DOMAIN u = 1..p
      /\ \A k \in 1..p : /\ u[k] \in Bodies("anchor") /\ u[k].chain = OwnChain
                         /\ N[k] \in 1..Len(batches) /\ Alike(u[k], batches[N[k]].anchor)
  BY <1>3, <1>4 DEF Consecutive
<1>6. Shown = [k \in 1..p |-> PayloadsUnder(u[k].id)]
  BY <1>2, <1>5 DEF Shown
<1>7. ASSUME NEW k \in 1..p PROVE PayloadsUnder(u[k].id) = Entry(batches[N[k]])
  <2>1. OnTenantChain(u[k].chain)
    BY <1>5, OwnChainAssumption DEF OnTenantChain
  <2>2. SamePayloads(InLeafOrder(RowsByAnchor(u[k].id)), batches[N[k]].rows)
    BY <1>5, <2>1, BatchRecomputed
  <2> QED BY <2>2 DEF SamePayloads, PayloadsUnder, Entry
<1>8. CASE p = 0
  <2>1. Shown = <<>>
    BY <1>6, <1>8
  <2>2. OwnChain \in Chains
    BY DEF Chains
  <2>3. PICK h, n : h = Anchored(OwnChain) /\ n = SealedTo[OwnChain]
    OBVIOUS
  <2>4. n \in Nat /\ IsListOf(h)
    <3>1. n = Cardinality(Places(OwnChain))
      BY <2>2, <2>3 DEF SealedTo, Places
    <3>2. PICK t : t = OnChain(OwnChain)
      OBVIOUS
    <3>3. Cardinality(Places(OwnChain)) = Len(t) /\ Len(t) \in Nat /\ IsListOf(h)
      BY <1>1, <2>3, <3>2, EntriesOf
    <3> QED BY <3>1, <3>3
  <2>5. SubSeq(h, 1, 0) = <<>> /\ 1 \in 1..(n + 1) /\ 0 \in 0..n
    BY <2>4
  <2> QED BY <2>1, <2>2, <2>3, <2>5 DEF Windowed
<1>9. CASE p > 0
  <2>1. PICK chain \in Chains : \E c, n, x :
               Numbers(c, n, OnChain(chain), chain) /\ InARow(N, p, c, n, x)
    BY <1>1, <1>3, <1>4, <1>9, PartOfChain
  <2>2. PICK c, n, x : Numbers(c, n, OnChain(chain), chain) /\ InARow(N, p, c, n, x)
    BY <2>1
  <2>3. PICK t, h : t = OnChain(chain) /\ h = Anchored(chain)
    OBVIOUS
  <2>4. /\ x \in 1..n /\ n \in Nat /\ x + p - 1 <= n
        /\ \A k \in 1..p : N[k] = c[x + k - 1]
        /\ Len(t) = n /\ \A k \in 1..n : t[k] = batches[c[k]]
    BY <2>2, <2>3 DEF Numbers, InARow
  <2>5. /\ Len(t) = Cardinality(Places(chain))
        /\ h = [k \in 1..Len(t) |-> Entry(t[k])] /\ IsListOf(h) /\ Len(h) = Len(t)
    BY <1>1, <2>3, EntriesOf
  <2>6. SealedTo[chain] = n
    BY <2>1, <2>4, <2>5 DEF SealedTo, Places
  <2>7. ASSUME NEW k \in 1..p PROVE PayloadsUnder(u[k].id) = h[x + k - 1]
    <3>1. x + k - 1 \in 1..n
      BY <1>5, <2>4
    <3>2. h[x + k - 1] = Entry(t[x + k - 1])
      BY <2>4, <2>5, <3>1
    <3>3. t[x + k - 1] = batches[N[k]]
      BY <2>4, <3>1
    <3> QED BY <1>7, <3>2, <3>3
  <2>8. Shown = [k \in 1..p |-> h[x + k - 1]]
    BY <1>6, <2>7
  <2>9. PICK y : y = x + p - 1
    OBVIOUS
  <2>10. y \in 1..n /\ x <= y /\ y - x + 1 = p /\ x \in 1..(n + 1) /\ y \in 0..n
    BY <1>5, <1>9, <2>4, <2>9
  <2>11. SubSeq(h, x, y) = [k \in 1..(y - x + 1) |-> h[x + k - 1]]
    <3>1. h \in Seq(Range(h)) /\ x \in 1..Len(h) /\ y \in 1..Len(h)
      BY <2>4, <2>5, <2>10 DEF IsListOf
    <3> QED BY <3>1
  <2>12. Shown = SubSeq(Anchored(chain), x, y)
    BY <2>3, <2>8, <2>10, <2>11
  <2> QED BY <2>6, <2>10, <2>12 DEF Windowed
<1> QED BY <1>5, <1>8, <1>9

(* What the mapping to the ledger needs of a state. *)
Mapped ==
    /\ Accepted => Windowed
    /\ \A chain \in Chains : InOrder(chain)

(* Nothing is shown before the report.                                     *)
LEMMA NothingShown ==
    ASSUME pc # "report"
    PROVE  Answer = "none" /\ Shown = <<>>
BY DEF Answer, Shown, Accepted

(* No batches, no entries.                                                 *)
LEMMA InitLedger == SystemInit => L!Init
<1> SUFFICES ASSUME SystemInit PROVE L!Init
  OBVIOUS
<1>1. batches = <<>> /\ pc = "idle" /\ Database
  BY InitSystem DEF SystemInit, Init, SystemInv
<1>2. ASSUME NEW chain \in Chains
      PROVE  Anchored(chain) = <<>> /\ Cardinality(Places(chain)) = 0
  <2>1. Places(chain) = {}
    BY <1>1 DEF Places
  <2>2. Cardinality(Places(chain)) = 0
    BY <2>1, FS_EmptySet
  <2>3. PICK t, h : t = OnChain(chain) /\ h = Anchored(chain)
    OBVIOUS
  <2>4. Len(t) = 0 /\ h = [k \in 1..Len(t) |-> Entry(t[k])] /\ IsListOf(h) /\ Len(h) = Len(t)
    BY <1>1, <2>2, <2>3, EntriesOf
  <2>5. h = <<>>
    BY <2>4 DEF IsListOf
  <2> QED BY <2>2, <2>3, <2>5
<1>3. Histories = [c \in Chains |-> <<>>]
  BY <1>2 DEF Histories
<1>4. SealedTo = [c \in Chains |-> 0]
  BY <1>2 DEF SealedTo, Places
<1>5. Answer = "none" /\ Shown = <<>>
  BY <1>1, NothingShown
<1> QED BY <1>3, <1>4, <1>5 DEF L!Init

(* Entries of a list that is one longer are one longer. *)
LEMMA EntriesGrow ==
    ASSUME NEW a, NEW b, OneLonger(b, a), NEW h, NEW g,
           h = [k \in 1..Len(a) |-> Entry(a[k])], IsListOf(h),
           g = [k \in 1..Len(b) |-> Entry(b[k])], IsListOf(g), Len(g) = Len(b), Len(h) = Len(a)
    PROVE  L!IsBook(g) /\ L!IsPrefix(h, g)
<1>1. PICK n : n = Len(a)
  OBVIOUS
<1>2. /\ n \in Nat /\ Len(b) = n + 1 /\ Len(h) = n /\ Len(g) = n + 1
      /\ \A k \in 1..n : b[k] = a[k]
  BY <1>1 DEF OneLonger
<1>3. \A k \in 1..n : h[k] = g[k]
  <2> SUFFICES ASSUME NEW k \in 1..n PROVE h[k] = g[k]
    OBVIOUS
  <2>1. k \in 1..(n + 1) /\ h[k] = Entry(a[k]) /\ g[k] = Entry(b[k])
    BY <1>1, <1>2
  <2> QED BY <1>2, <2>1
<1>4. h \in Seq(Range(h)) /\ g \in Seq(Range(g))
  BY DEF IsListOf
<1>5. SubSeq(h, 1, n) = [k \in 1..n |-> h[k]] /\ SubSeq(g, 1, n) = [k \in 1..n |-> g[k]]
  BY <1>2, <1>4
<1>6. SubSeq(h, 1, n) = SubSeq(g, 1, n)
  <2>1. [k \in 1..n |-> h[k]] = [k \in 1..n |-> g[k]]
    BY ONLY <1>3
  <2> QED BY <1>5, <2>1
<1>7. L!IsPrefix(h, g)
  BY <1>2, <1>6 DEF L!IsPrefix
<1>8. L!IsBook(g)
  BY <1>4 DEF L!IsBook, L!Range, Range
<1> QED BY <1>7, <1>8

(* The books are read off the batches. *)
LEMMA BooksStay ==
    ASSUME batches' = batches
    PROVE  Histories' = Histories /\ SealedTo' = SealedTo
<1>1. ASSUME NEW c \in Chains PROVE OnChain(c)' = OnChain(c)
  BY DEF OnChain, Selected, Arranged
<1>2. ASSUME NEW c \in Chains PROVE Anchored(c)' = Anchored(c)
  <2>1. OnChain(c)' = OnChain(c)
    BY <1>1
  <2> QED BY <2>1 DEF Anchored
<1> QED BY <1>2 DEF Histories, SealedTo, Chains

(* A batch more is a step of the ledger, in the book of its chain.         *)
LEMMA ChainGrows ==
    ASSUME SystemInv, Database', \A c \in Chains : InOrder(c) /\ InOrder(c)',
           NEW chain \in Chains, NEW n, n = Len(batches) + 1, Len(batches') = n,
           \A k \in 1..(n - 1) : batches'[k] = batches[k],
           batches'[n].anchor.chain = chain, stage = "live", UNCHANGED vars
    PROVE  L!Grow(chain)
<1>1. /\ Database /\ pc = "idle" /\ pc' = "idle" /\ Len(batches) \in Nat
      /\ DOMAIN batches = 1..Len(batches) /\ DOMAIN batches' = 1..n
      /\ n \in Nat /\ n - 1 = Len(batches) /\ n \notin DOMAIN batches
  <2>1. Database /\ pc = "idle" /\ pc' = "idle"
    BY DEF SystemInv, Delivered, Stages, vars
  <2>2. Len(batches) \in Nat /\ DOMAIN batches = 1..Len(batches)
    BY <2>1, LastToOf
  <2>3. DOMAIN batches' = 1..n
    BY DEF Database, IsListOf
  <2> QED BY <2>1, <2>2, <2>3
<1>2. UNCHANGED <<Answer, Shown>>
  <2>1. (Answer = "none" /\ Shown = <<>>)'
    BY <1>1 DEF Answer, Shown, Accepted
  <2> QED BY <1>1, <2>1, NothingShown
<1>3. PICK s, t : s = batches /\ t = batches'
  OBVIOUS
<1>4. OneLonger(t, s) /\ DOMAIN s = 1..Len(s) /\ Len(t) = n
  BY <1>1, <1>3 DEF OneLonger
<1>5. ASSUME NEW c \in Chains
      PROVE  Places(c)' = Places(c) \cup (IF c = chain THEN {n} ELSE {})
  <2>1. \A i \in 1..n : i \in 1..(n - 1) \/ i = n
    BY <1>1
  <2>2. \A i \in 1..(n - 1) : i \in 1..n /\ i # n
    BY <1>1
  <2>3. \A i : i \in Places(c)' <=> i \in 1..n /\ batches'[i].anchor.chain = c
    BY <1>1 DEF Places
  <2>4. \A i : i \in Places(c) <=> i \in 1..(n - 1) /\ batches[i].anchor.chain = c
    BY <1>1 DEF Places
  <2>5. n \in 1..n
    BY <1>1
  <2> QED BY <2>1, <2>2, <2>3, <2>4, <2>5
<1>6. ASSUME NEW c \in Chains, NEW a, a = OnChain(c), NEW b, b = OnChain(c)'
      PROVE  /\ c # chain => b = a
             /\ c = chain => Len(a) = Cardinality(Places(c)) /\ OneLonger(b, a)
             /\ Len(b) = Cardinality(Places(c)') /\ DOMAIN b = 1..Len(b)
  <2>1. PICK R, T : R = Places(c) /\ T = Places(c)'
    OBVIOUS
  <2>2. Selection(a, s, R) /\ InListOrder(b, t, T)
    BY <1>3, <1>6, <2>1 DEF InOrder, Selection, Places
  <2>3. Len(a) = Cardinality(R)
    BY <2>2 DEF Selection, InListOrder, ArrangedByKey
  <2>4. c # chain => T = R
    BY <1>5, <2>1
  <2>5. c = chain => T = R \cup {Len(t)}
    BY <1>4, <1>5, <2>1
  <2>6. /\ T = R => b = a
        /\ T = R \cup {Len(t)} => OneLonger(b, a)
    BY ONLY <1>4, <2>2, SelectionGrows
  <2>7. Len(b) = Cardinality(T) /\ DOMAIN b = 1..Cardinality(T)
    BY <2>2 DEF InListOrder, ArrangedByKey
  <2> QED BY <2>1, <2>3, <2>4, <2>5, <2>6, <2>7
<1>7. /\ Histories' = [c \in Chains |-> Anchored(c)'] /\ Histories = [c \in Chains |-> Anchored(c)]
      /\ SealedTo' = [c \in Chains |-> Cardinality(Places(c)')]
      /\ SealedTo = [c \in Chains |-> Cardinality(Places(c))]
  BY DEF Histories, SealedTo, Places
<1>8. ASSUME NEW c \in Chains, c # chain
      PROVE  Anchored(c)' = Anchored(c) /\ Places(c)' = Places(c)
  <2>1. OnChain(c)' = OnChain(c)
    BY <1>6, <1>8
  <2>2. Anchored(c)' = Anchored(c)
    BY <2>1 DEF Anchored
  <2> QED BY <1>5, <1>8, <2>2
<1>9. /\ Histories' = [Histories EXCEPT ![chain] = Histories'[chain]]
      /\ SealedTo' = [SealedTo EXCEPT ![chain] = SealedTo'[chain]]
  BY <1>7, <1>8
<1>10. PICK a, b, h, g : /\ a = OnChain(chain) /\ b = OnChain(chain)'
                         /\ h = Anchored(chain) /\ g = Anchored(chain)'
  OBVIOUS
<1>11. /\ Len(a) = Cardinality(Places(chain)) /\ OneLonger(b, a)
       /\ Len(b) = Cardinality(Places(chain)') /\ DOMAIN b = 1..Len(b)
  BY <1>6, <1>10
<1>12. h = [k \in 1..Len(a) |-> Entry(a[k])] /\ IsListOf(h) /\ Len(h) = Len(a)
  BY <1>1, <1>10, EntriesOf
<1>13. g = [k \in 1..Len(b) |-> Entry(b[k])] /\ IsListOf(g) /\ Len(g) = Len(b)
  <2>1. g = [k \in 1..Len(b) |-> Entry(b[k])]
    BY <1>10, <1>11 DEF Anchored
  <2>2. g \in Seq({Entry(b[k]) : k \in 1..Len(b)}) /\ Len(g) = Len(b)
    BY <1>11, <2>1 DEF OneLonger
  <2> QED BY <2>1, <2>2, AnyList
<1>14. L!IsBook(g) /\ L!IsPrefix(h, g)
  BY <1>11, <1>12, <1>13, EntriesGrow
<1>15. /\ Histories[chain] = h /\ Histories'[chain] = g
       /\ SealedTo[chain] = Len(a) /\ SealedTo'[chain] = Len(b)
  BY <1>7, <1>10, <1>11
<1>16. Len(b) \in Len(a)..Len(g)
  BY <1>11, <1>13 DEF OneLonger
<1> QED BY <1>2, <1>9, <1>14, <1>15, <1>16 DEF L!Grow, L!answer

(* A step of verify() tells nothing before its last check.                 *)
LEMMA VerifyTells ==
    ASSUME SystemInv, Mapped', Verify, UNCHANGED system
    PROVE  L!Next \/ UNCHANGED L!vars
<1>1. batches' = batches /\ pc # "report"
  <2>1. pc # "report"
    BY DEF Verify, Parse, ReadBlank, ReadHeader, ReadSigningKeys, ReadAudit, ReadAiAudit,
       ReadAnchor, ReadManifest, ReadOther, ReadMalformed, ParseDone, AtLine, Check,
       CheckParse, CheckHeader, CheckManifestTerminal, CheckCounts, CheckIdentity,
       CheckSigningKeys, CheckRowIntegrity, CheckRowSignature, CheckAnchorSignature,
       CheckSovereignRecompute, CheckFleetInclusion, CheckContinuity, CheckSeam,
       CheckCoverage, Record, Skip
  <2> QED BY <2>1 DEF system, gateway
<1>2. Histories' = Histories /\ SealedTo' = SealedTo
  BY <1>1, BooksStay
<1>3. Answer = "none" /\ Shown = <<>>
  BY <1>1, NothingShown
<1>4. "fleet" \in Chains
  BY DEF Chains
<1>5. CASE pc' # "report"
  <2>1. Answer' = "none" /\ Shown' = <<>>
    BY <1>5 DEF Answer, Shown, Accepted
  <2> QED BY <1>2, <1>3, <2>1 DEF L!vars, L!books, L!answer
<1>6. CASE pc' = "report" /\ ~Passed'
  <2>1. Answer' = "FAIL" /\ Shown' = <<>>
    BY <1>6 DEF Answer, Shown, Accepted
  <2>2. L!Reject
    BY <1>2, <1>3, <2>1 DEF L!Reject, L!books
  <2> QED BY <1>4, <2>2 DEF L!Next
<1>7. CASE pc' = "report" /\ Passed'
  <2>1. Answer' = "PASS"
    BY <1>7 DEF Answer
  <2>2. Windowed'
    BY <1>7 DEF Mapped, Accepted
  <2>3. PICK chain \in Chains :
            \E from \in 1..(SealedTo'[chain] + 1), to \in 0..SealedTo'[chain] :
                Shown' = SubSeq(Anchored(chain)', from, to)
    BY <2>2 DEF Windowed, Chains
  <2>4. Anchored(chain)' = Histories[chain]
    BY <1>2 DEF Histories
  <2>5. PICK from \in 1..(SealedTo[chain] + 1), to \in 0..SealedTo[chain] :
                Shown' = SubSeq(Histories[chain], from, to)
    BY <1>2, <2>3, <2>4
  <2>6. Shown' \in L!Windows(chain)
    BY <2>5 DEF L!Windows
  <2>7. L!Show(chain)
    BY <1>2, <1>3, <2>1, <2>6 DEF L!Show, L!books
  <2> QED BY <2>7 DEF L!Next
<1> QED BY <1>5, <1>6, <1>7

(* Every step maps to a step of the ledger or to none. *)
LEMMA StepLedger ==
    /\ SystemInv /\ SystemInv' /\ Mapped /\ Mapped' /\ [SystemNext]_<<system, vars>>
    => [L!Next]_L!vars
<1> SUFFICES ASSUME SystemInv, SystemInv', Mapped, Mapped', [SystemNext]_<<system, vars>>
             PROVE  L!Next \/ UNCHANGED L!vars
  OBVIOUS
<1>1. ASSUME batches' = batches, pc # "report", pc' # "report" PROVE UNCHANGED L!vars
  <2>1. Histories' = Histories /\ SealedTo' = SealedTo
    BY <1>1, BooksStay
  <2>2. Answer = "none" /\ Shown = <<>>
    BY <1>1, NothingShown
  <2>3. Answer' = "none" /\ Shown' = <<>>
    BY <1>1 DEF Answer, Shown, Accepted
  <2> QED BY <2>1, <2>2, <2>3 DEF L!vars, L!books, L!answer
<1>2. ASSUME stage # "verify", batches' = batches, UNCHANGED vars PROVE UNCHANGED L!vars
  <2>1. pc = "idle" /\ pc' = pc
    BY <1>2 DEF SystemInv, Delivered, Stages, vars
  <2> QED BY <1>1, <1>2, <2>1
<1>3. ASSUME NEW chain \in {"fleet", OwnChain}, NEW unordered,
             NEW T, T = {log[k] : k \in (LastTo + 1)..Len(log)},
             unordered \in Seq(T), Len(unordered) <= Len(log), WithTenants(unordered),
             AnchorRows(chain, unordered)
      PROVE  L!Next
  <2>1. PICK n : n = Len(batches) + 1
    OBVIOUS
  <2>2. /\ UNCHANGED vars /\ stage = "live"
        /\ n \in Nat \ {0} /\ Len(batches') = n
        /\ \A k \in 1..(n - 1) : batches'[k] = batches[k]
        /\ batches'[n].anchor.chain = chain
    BY <1>3, <2>1, BatchMade DEF SystemInv
  <2>3. chain \in Chains
    BY <1>3 DEF Chains
  <2>4. \A c \in Chains : InOrder(c) /\ InOrder(c)'
    BY DEF Mapped, Chains
  <2>5. Database'
    BY DEF SystemInv
  <2>6. L!Grow(chain)
    BY <2>1, <2>2, <2>3, <2>4, <2>5, ChainGrows
  <2> QED BY <2>3, <2>6 DEF L!Next
<1>4. CASE Gateway
  <2>1. PICK T : T = {log[k] : k \in (LastTo + 1)..Len(log)}
    OBVIOUS
  <2>2. /\ Database /\ Unanchored \in Seq(T) /\ Len(Unanchored) <= Len(log)
        /\ WithTenants(Unanchored)
    BY <2>1, UnanchoredRows DEF SystemInv
  <2>3. CASE FleetTick
    <3>1. AnchorRows("fleet", Unanchored)
      BY <2>3 DEF FleetTick
    <3> QED BY <1>3, <2>1, <2>2, <3>1
  <2>4. CASE SovereignTick
    <3>1. PICK t : t = Selected(Unanchored, LAMBDA e : e.tenant = TenantId)
      OBVIOUS
    <3>2. AnchorRows(OwnChain, t)
      BY <2>4, <3>1 DEF SovereignTick
    <3>3. t \in Seq(T) /\ Len(t) <= Len(log) /\ WithTenants(t)
      BY <2>1, <2>2, <3>1, OwnUnanchored
    <3> QED BY <1>3, <2>1, <3>2, <3>3
  <2>5. CASE LogRow \/ Handoff
    <3>1. stage = "live" /\ batches' = batches /\ UNCHANGED vars
      BY <2>5 DEF LogRow, Handoff
    <3> QED BY <1>2, <3>1
  <2> QED BY <1>4, <2>3, <2>4, <2>5 DEF Gateway
<1>5. CASE \E lo, hi \in DOMAIN batches : lo <= hi /\ Export(lo, hi)
  <2>1. stage = "live" /\ batches' = batches /\ UNCHANGED vars
    BY <1>5 DEF Export, gateway
  <2> QED BY <1>2, <2>1
<1>6. CASE Spoil
  <2>1. stage \in {"draft", "transit"} /\ batches' = batches /\ UNCHANGED vars
    BY <1>6, SpoilKeepsFile DEF SystemInv, Delivered, gateway
  <2> QED BY <1>2, <2>1
<1>7. CASE Seal
  <2>1. stage = "draft" /\ batches' = batches /\ UNCHANGED vars
    BY <1>7 DEF Seal, gateway
  <2> QED BY <1>2, <2>1
<1>8. CASE Deliver
  <2>1. pc = "idle" /\ pc' = "parse" /\ batches' = batches
    BY <1>8 DEF Deliver, Submit, gateway
  <2> QED BY <1>1, <2>1
<1>9. CASE Verifier
  BY <1>9, VerifyTells DEF Verifier
<1>10. CASE UNCHANGED <<system, vars>>
  <2>1. /\ batches' = batches /\ pc' = pc /\ findings' = findings
        /\ ai' = ai /\ anchors' = anchors
    BY <1>10 DEF system, gateway, vars, loaded
  <2>2. Histories' = Histories /\ SealedTo' = SealedTo
    BY <2>1, BooksStay
  <2>3. Accepted' = Accepted /\ Answer' = Answer
    BY <2>1 DEF Answer, Accepted, Passed
  <2>4. Chain(OwnChain)' = Chain(OwnChain)
    BY <2>1 DEF Chain, Arranged
  <2>5. ASSUME NEW id PROVE PayloadsUnder(id)' = PayloadsUnder(id)
    <3>1. RowsByAnchor(id)' = RowsByAnchor(id)
      BY <2>1 DEF RowsByAnchor, Selected, Arranged
    <3> QED BY <3>1 DEF PayloadsUnder
  <2>6. Shown' = Shown
    BY <2>3, <2>4, <2>5 DEF Shown
  <2> QED BY <2>2, <2>3, <2>6 DEF L!vars, L!books, L!answer
<1> QED BY <1>4, <1>5, <1>6, <1>7, <1>8, <1>9, <1>10 DEF SystemNext

(* The gateway, the transport and verify() implement the ledger: a chain   *)
(* is only added to, and what a PASS shows under the tenant's anchors is a *)
(* window of one chain, batch by batch (README.md:27-28, 234-237).         *)
THEOREM ChainsAreALedger == SystemSpec => LedgerOfChains
<1>1. SystemInv => Mapped
  <2>1. SystemInv => \A chain \in Chains : InOrder(chain)
    <3> SUFFICES ASSUME SystemInv, NEW chain \in Chains PROVE InOrder(chain)
      OBVIOUS
    <3>1. PICK t : t = OnChain(chain)
      OBVIOUS
    <3> QED BY <3>1, EntriesOf DEF SystemInv
  <2> QED BY <2>1, ShownIsWindow DEF Mapped
<1> QED BY <1>1, SystemInvariant, InitLedger, StepLedger, PTL
        DEF SystemSpec, LedgerOfChains, L!Spec

=============================================================================
