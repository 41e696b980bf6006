-------------------------- MODULE ChainSystem_proofs --------------------------
(***************************************************************************)
(* What a PASS of a chain pack says of the tables, proved for every set of *)
(* tables, every writing of them and every number of faults.               *)
(*                                                                         *)
(* Database says what the trigger and the worker keep true of the rows and *)
(* anchors of each table.  Delivered says what no fault can change of the  *)
(* lines of a file: an anchor line carries the signature the worker made,  *)
(* or none that decodes.  With Inv of ChainVerify_proofs, which describes  *)
(* verify_chain() at work, and its Listing, which keeps rows and anchors   *)
(* in the order of the lines, they make the inductive invariant SystemInv. *)
(*                                                                         *)
(* Every row that is accepted chains to the one before it and an accepted  *)
(* anchor signs the last.  Hashes being terms, the last row fixes all the  *)
(* ones under it: the accepted rows are a window of one table.  OnlyLost   *)
(* adds what is needed where lines were only lost.  From there the whole   *)
(* system implements the ledger.                                           *)
(***************************************************************************)
EXTENDS ChainSystem, ChainVerify_proofs

-----------------------------------------------------------------------------
(* The invariant *)

IsRow(r) ==
    r = [chain_seq |-> r.chain_seq, prev_hash |-> r.prev_hash,
         canonical |-> r.canonical, entry_hash |-> r.entry_hash]

IsAnchor(a) ==
    a = [id |-> a.id, from_seq |-> a.from_seq, to_seq |-> a.to_seq,
         row_count |-> a.row_count, chain_head |-> a.chain_head,
         prev_anchor_id |-> a.prev_anchor_id, prev_head |-> a.prev_head,
         signature |-> a.signature, signing_key_id |-> a.signing_key_id,
         sig_alg |-> a.sig_alg]

(* Each row chains to the one before it. *)
Logged(t) ==
    /\ IsListOf(log[t])
    /\ Len(log[t]) \in 0..Len(Writes[t])
    /\ \A n \in 1..Len(log[t]) :
          log[t][n] = Row(n, IF n = 1 THEN Genesis ELSE log[t][n-1].entry_hash,
                          Writes[t][n])

(* Each anchor covers what the one before it left, and signs its head. *)
Sealing(t, n) ==
    LET a == issued[t][n]
    IN  /\ IsAnchor(a)
        /\ a.id \in Int
        /\ a.from_seq = IF n = 1 THEN 1 ELSE issued[t][n-1].to_seq + 1
        /\ a.from_seq \in Nat \ {0} /\ a.to_seq \in a.from_seq..Len(log[t])
        /\ a.chain_head = log[t][a.to_seq].entry_hash
        /\ a.signing_key_id = AnchorKey /\ a.sig_alg = "ed25519"
        /\ a.signature = Sign("ed25519", AnchorKey, ChainAnchorPayloadHash(t, a))

Issued(t) ==
    /\ IsListOf(issued[t])
    /\ \A n \in 1..Len(issued[t]) : Sealing(t, n)
    /\ \A m, n \in 1..Len(issued[t]) : m < n => issued[t][m].to_seq < issued[t][n].from_seq

Database ==
    /\ DOMAIN log = Tables /\ DOMAIN issued = Tables
    /\ \A t \in Tables : Logged(t) /\ Issued(t)

(* A signature the worker made. *)
Genuine(signature) ==
    \E t \in Tables : \E n \in 1..Len(issued[t]) : signature = issued[t][n].signature

SoundRow(r) == IsRow(r) /\ InWidth(r.chain_seq) /\ IsListOf(r.canonical)

SoundAnchor(a) ==
    /\ IsAnchor(a)
    /\ a.id \in Int
    /\ a.signing_key_id = AnchorKey
    /\ a.signature = NotHex \/ Genuine(a.signature)

(* What is true of a line of a file, whatever happened to it. *)
Sound(l) ==
    /\ l = Line(l.kind, l.body)
    /\ l.kind = "header"       => l.body \in {HeaderFor(t) : t \in Tables}
    /\ l.kind = "signing_keys" => l.body = [keys |-> <<KeyEntry>>]
    /\ l.kind = "chain_row"    => SoundRow(l.body)
    /\ l.kind = "chain_anchor" => SoundAnchor(l.body)
    /\ l.kind = "manifest"     => l.body \in Manifests

SoundFile(f) == IsListOf(f) /\ \A i \in DOMAIN f : Sound(f[i])

Stages ==
    /\ stage \in {"live", "draft", "transit", "verify"}
    /\ stage = "live" => file = <<>>
    /\ stage # "live" => named \in Tables /\ tail \in Nat
    /\ stage # "verify" => pc = "idle"
    /\ stage = "verify" => pc # "idle" /\ pack = file

Delivered == SoundFile(file) /\ Stages

SystemInv == Database /\ Delivered /\ Inv /\ Listing

-----------------------------------------------------------------------------
(* The tables *)

(* No row, no anchor, no file yet.                                         *)
LEMMA InitSystem == SystemInit => SystemInv
<1> SUFFICES ASSUME SystemInit PROVE SystemInv
  OBVIOUS
<1>1. Inv /\ Listing /\ pc = "idle"
  BY InitInv, InitListing DEF SystemInit, Init
<1>2. Database
  <2>1. ASSUME NEW t \in Tables PROVE Logged(t) /\ Issued(t)
    <3>1. log[t] = <<>> /\ issued[t] = <<>> /\ Len(Writes[t]) \in Nat
      BY WritesAssumption, WidthAssumption DEF SystemInit
    <3> QED BY <3>1 DEF Logged, Issued, IsListOf
  <2> QED BY <2>1 DEF SystemInit, Database
<1>3. Delivered
  BY <1>1 DEF SystemInit, Delivered, SoundFile, Stages, IsListOf
<1> QED BY <1>1, <1>2, <1>3 DEF SystemInv

(* One row more. *)
LEMMA InsertLogged ==
    ASSUME Database, NEW t \in Tables, Insert(t)
    PROVE  /\ Logged(t)'
           /\ Len(log[t]') = Len(log[t]) + 1 /\ Len(log[t]) \in Nat
           /\ \A n \in 1..Len(log[t]) : log'[t][n] = log[t][n]
           /\ IsListOf(log[t]) /\ IsListOf(log'[t])
           /\ log' = [log EXCEPT ![t] = log'[t]]
<1>1. PICK s, n, r : s = log[t] /\ n = Len(log[t]) + 1 /\ r = Row(n, HeadOf(s), Writes[t][n])
  OBVIOUS
<1>2. /\ n <= Len(Writes[t]) /\ log' = [log EXCEPT ![t] = Append(s, r)]
      /\ log'[t] = Append(s, r) /\ t \in DOMAIN log
  BY <1>1 DEF Insert, Database
<1>3. IsListOf(s) /\ Len(s) \in 0..Len(Writes[t]) /\ Len(Writes[t]) \in Nat
  BY <1>1, WritesAssumption, WidthAssumption DEF Database, Logged
<1>4. PICK S : S = Range(s) \cup {r}
  OBVIOUS
<1>5. s \in Seq(S) /\ r \in S
  BY <1>3, <1>4 DEF IsListOf
<1>6. PICK u : u = Append(s, r)
  OBVIOUS
<1>7. /\ u \in Seq(S) /\ Len(u) = n /\ u[n] = r /\ Len(s) \in Nat
      /\ \A k \in 1..Len(s) : u[k] = s[k]
  BY <1>1, <1>5, <1>6, ListGrows
<1>8. IsListOf(u)
  BY <1>7, AnyList
<1>9. ASSUME NEW k \in 1..n
      PROVE  u[k] = Row(k, IF k = 1 THEN Genesis ELSE u[k-1].entry_hash, Writes[t][k])
  <2>1. CASE k = n
    <3>1. CASE n = 1
      <4>1. s = <<>>
        BY <1>1, <1>5, <3>1
      <4> QED BY <1>1, <1>7, <2>1, <3>1, <4>1 DEF HeadOf
    <3>2. CASE n # 1
      <4>1. s # <<>> /\ Len(s) = n - 1 /\ n - 1 \in 1..Len(s)
        BY <1>1, <1>7, <3>2
      <4>2. HeadOf(s) = u[n-1].entry_hash
        BY <1>7, <4>1 DEF HeadOf, Last
      <4> QED BY <1>1, <1>7, <2>1, <3>2, <4>2
    <3> QED BY <3>1, <3>2
  <2>2. CASE k # n
    <3>1. k \in 1..Len(s) /\ (k # 1 => k - 1 \in 1..Len(s))
      BY <1>1, <1>7, <2>2
    <3>2. s[k] = Row(k, IF k = 1 THEN Genesis ELSE s[k-1].entry_hash, Writes[t][k])
      BY <1>1, <3>1 DEF Database, Logged
    <3> QED BY <1>7, <3>1, <3>2
  <2> QED BY <2>1, <2>2
<1>10. Len(u) \in 0..Len(Writes[t])
  BY <1>1, <1>2, <1>3, <1>7
<1> QED BY <1>1, <1>2, <1>3, <1>6, <1>7, <1>8, <1>9, <1>10 DEF Logged

(* What an anchor says stays true as rows are added behind it.             *)
LEMMA InsertKeepsDatabase ==
    ASSUME Database, NEW t \in Tables, Insert(t)
    PROVE  Database'
<1>1. /\ Logged(t)' /\ Len(log'[t]) = Len(log[t]) + 1 /\ Len(log[t]) \in Nat
      /\ \A n \in 1..Len(log[t]) : log'[t][n] = log[t][n]
      /\ log' = [log EXCEPT ![t] = log'[t]]
  BY InsertLogged
<1>2. issued' = issued
  BY DEF Insert
<1>3. ASSUME NEW u \in Tables PROVE Logged(u)' /\ Issued(u)'
  <2>1. CASE u # t
    <3>1. log'[u] = log[u]
      BY <1>1, <2>1 DEF Database
    <3>2. Logged(u) /\ Issued(u)
      BY DEF Database
    <3> QED BY <1>2, <3>1, <3>2 DEF Logged, Issued, Sealing
  <2>2. CASE u = t
    <3>1. ASSUME NEW n \in 1..Len(issued[t]) PROVE Sealing(t, n)'
      <4>1. Sealing(t, n)
        BY DEF Database, Issued
      <4>2. PICK a, m : a = issued[t][n] /\ m = Len(log[t])
        OBVIOUS
      <4>3. /\ a.from_seq \in Nat \ {0} /\ a.to_seq \in a.from_seq..m
            /\ a.chain_head = log[t][a.to_seq].entry_hash
        BY <4>1, <4>2 DEF Sealing
      <4>4. a.to_seq \in 1..m /\ a.to_seq \in a.from_seq..(m + 1)
        BY <1>1, <4>2, <4>3
      <4>5. a.chain_head = log'[t][a.to_seq].entry_hash
        BY <1>1, <4>2, <4>3, <4>4
      <4> QED BY <1>1, <1>2, <4>1, <4>2, <4>4, <4>5 DEF Sealing
    <3>2. Issued(t)
      BY DEF Database
    <3> QED BY <1>1, <1>2, <2>2, <3>1, <3>2 DEF Issued
  <2> QED BY <2>1, <2>2
<1> QED BY <1>1, <1>2, <1>3 DEF Database

(* The next anchor's number. *)
LEMMA NextIdIsNumber == Database => NextId \in Int
<1> SUFFICES ASSUME Database PROVE NextId \in Int
  OBVIOUS
<1>1. PICK f, S : /\ f = [t \in Tables |-> {t} \X DOMAIN issued[t]]
                  /\ S = {{t} \X DOMAIN issued[t] : t \in Tables}
  OBVIOUS
<1>2. f \in Surjection(Tables, S)
  BY <1>1 DEF Surjection
<1>3. IsFiniteSet(S)
  BY <1>2, WritesAssumption, FS_Surjection
<1>4. ASSUME NEW T \in S PROVE IsFiniteSet(T)
  <2>1. PICK t \in Tables : T = {t} \X DOMAIN issued[t]
    BY <1>1
  <2>2. IsListOf(issued[t])
    BY DEF Database, Issued
  <2>3. DOMAIN issued[t] = 1..Len(issued[t]) /\ Len(issued[t]) \in Nat
    BY <2>2 DEF IsListOf
  <2>4. IsFiniteSet(DOMAIN issued[t]) /\ IsFiniteSet({t})
    BY <2>3, CountTo, FS_Singleton
  <2> QED BY <2>1, <2>4, FS_Product
<1>5. IsFiniteSet(UNION S)
  BY <1>3, <1>4, FS_UNION
<1>6. Cardinality(UNION S) \in Nat
  BY <1>5, FS_CardinalityType
<1> QED BY <1>1, <1>6 DEF NextId

(* One anchor more. *)
LEMMA AnchorIssued ==
    ASSUME Database, NEW t \in Tables, AnchorHead(t), NEW m, m = Len(issued[t])
    PROVE  /\ log' = log
           /\ issued' = [issued EXCEPT ![t] = issued'[t]]
           /\ m \in Nat /\ Len(issued'[t]) = m + 1
           /\ \A n \in 1..m : issued'[t][n] = issued[t][n]
           /\ IsListOf(issued'[t])
           /\ Sealing(t, m + 1)'
<1>1. PICK s, w, f, h : /\ s = issued[t] /\ w = log[t] /\ f = AnchoredTo(t) + 1
                        /\ h = SubSeq(w, f, Len(w))
  OBVIOUS
<1>2. PICK prev, a, n : /\ prev = (IF s = <<>> THEN None ELSE Last(s))
                        /\ a = MakeAnchor(t, NextId, h, prev)
                        /\ n = Len(s) + 1
  OBVIOUS
<1>3. /\ log' = log /\ issued' = [issued EXCEPT ![t] = Append(s, a)] /\ t \in DOMAIN issued
      /\ issued'[t] = Append(s, a) /\ AnchoredTo(t) < Len(w)
  BY <1>1, <1>2 DEF AnchorHead, Database
<1>4. IsListOf(s) /\ IsListOf(w) /\ Len(w) \in Nat /\ Len(s) \in Nat
  <2>1. Logged(t) /\ Issued(t)
    BY DEF Database
  <2> QED BY <1>1, <2>1 DEF Logged, Issued, IsListOf
<1>5. PICK u, S : u = Append(s, a) /\ S = Range(s) \cup {a}
  OBVIOUS
<1>6. s \in Seq(S) /\ a \in S
  BY <1>4, <1>5 DEF IsListOf
<1>7. u \in Seq(S) /\ Len(u) = n /\ u[n] = a /\ \A k \in 1..Len(s) : u[k] = s[k]
  BY <1>2, <1>5, <1>6, ListGrows
<1>8. IsListOf(u)
  BY <1>7, AnyList
<1>9. /\ f = IF n = 1 THEN 1 ELSE u[n-1].to_seq + 1
      /\ f \in 1..Len(w)
  <2>1. CASE s = <<>>
    <3>1. AnchoredTo(t) = 0 /\ n = 1
      BY <1>1, <1>2, <2>1 DEF AnchoredTo
    <3> QED BY <1>1, <1>3, <1>4, <3>1
  <2>2. CASE s # <<>>
    <3>1. Len(s) \in 1..Len(s) /\ n # 1 /\ n - 1 = Len(s)
      BY <1>2, <1>6, <2>2
    <3>2. AnchoredTo(t) = s[Len(s)].to_seq
      BY <1>1, <2>2 DEF AnchoredTo, Last
    <3>3. Sealing(t, Len(s))
      BY <1>1, <3>1 DEF Database, Issued
    <3>4. s[Len(s)].to_seq \in Nat
      BY <1>1, <1>4, <3>3 DEF Sealing
    <3> QED BY <1>1, <1>3, <1>4, <1>7, <3>1, <3>2, <3>4
  <2> QED BY <2>1, <2>2
<1>10. /\ Head(h) = w[f] /\ Last(h) = w[Len(w)] /\ h # <<>>
  <2>1. w \in Seq(Range(w)) /\ f \in 1..Len(w) /\ Len(w) \in 1..Len(w)
    BY <1>4, <1>9 DEF IsListOf
  <2>2. /\ Len(h) = Len(w) - f + 1 /\ h \in Seq(Range(w)) /\ Len(h) > 0
        /\ h[1] = w[f] /\ h[Len(h)] = w[Len(w)]
    <3>1. PICK W, e : W = Range(w) /\ e = Len(w)
      OBVIOUS
    <3>2. w \in Seq(W) /\ f \in 1..e /\ e \in Nat /\ e = Len(w) /\ h = SubSeq(w, f, e)
      BY <1>1, <1>4, <1>9, <3>1 DEF IsListOf
    <3>3. h \in Seq(W) /\ Len(h) = e - f + 1 /\ \A k \in 1..(e - f + 1) : h[k] = w[f + k - 1]
      BY <3>2
    <3>4. /\ 1 \in 1..(e - f + 1) /\ f + 1 - 1 = f /\ Len(h) > 0
          /\ e - f + 1 \in 1..(e - f + 1) /\ f + (e - f + 1) - 1 = e
      BY <3>2, <3>3
    <3>5. h[1] = w[f] /\ h[e - f + 1] = w[e]
      BY <3>3, <3>4
    <3> QED BY <3>1, <3>2, <3>3, <3>4, <3>5
  <2> QED BY <2>2 DEF Last
<1>11. \A k \in 1..Len(w) : w[k].chain_seq = k
  <2>1. Logged(t)
    BY DEF Database
  <2> TAKE k \in 1..Len(w)
  <2>2. PICK p : p = IF k = 1 THEN Genesis ELSE w[k-1].entry_hash
    OBVIOUS
  <2>3. w[k] = Row(k, p, Writes[t][k])
    BY <1>1, <2>1, <2>2 DEF Logged
  <2> QED BY <2>3 DEF Row
<1>12. PICK i, l, r, c, p, q, v : /\ i = NextId /\ l = Last(h).chain_seq
             /\ r = Len(h) /\ c = HeadOf(h)
             /\ p = (IF prev = None THEN None ELSE prev.id)
             /\ q = (IF prev = None THEN None ELSE prev.chain_head)
             /\ v = [id |-> i, from_seq |-> Head(h).chain_seq, to_seq |-> l, row_count |-> r,
                     chain_head |-> c, prev_anchor_id |-> p, prev_head |-> q,
                     signature |-> None, signing_key_id |-> AnchorKey, sig_alg |-> "ed25519"]
  OBVIOUS
<1>13. a = [v EXCEPT !.signature = Sign("ed25519", AnchorKey, ChainAnchorPayloadHash(t, v))]
  BY <1>2, <1>12 DEF MakeAnchor, Signed
<1>14. Head(h).chain_seq = f /\ l = Len(w) /\ c = w[Len(w)].entry_hash
  <2>1. Len(w) \in 1..Len(w)
    BY <1>4, <1>9
  <2> QED BY <1>9, <1>10, <1>11, <1>12, <2>1 DEF HeadOf
<1>15. a = [id |-> i, from_seq |-> f, to_seq |-> l, row_count |-> r,
            chain_head |-> c, prev_anchor_id |-> p, prev_head |-> q,
            signature |-> Sign("ed25519", AnchorKey, ChainAnchorPayloadHash(t, v)),
            signing_key_id |-> AnchorKey, sig_alg |-> "ed25519"]
  BY <1>12, <1>13, <1>14
<1>16. ChainAnchorPayloadHash(t, v) = ChainAnchorPayloadHash(t, a)
  BY <1>12, <1>14, <1>15 DEF ChainAnchorPayloadHash
<1>17. /\ IsAnchor(a) /\ a.id \in Int /\ a.from_seq = f /\ a.to_seq = Len(w)
       /\ a.chain_head = w[Len(w)].entry_hash /\ a.signing_key_id = AnchorKey
       /\ a.sig_alg = "ed25519"
       /\ a.signature = Sign("ed25519", AnchorKey, ChainAnchorPayloadHash(t, a))
  <2>1. i \in Int
    BY <1>12, NextIdIsNumber
  <2> QED BY <1>14, <1>15, <1>16, <2>1 DEF IsAnchor
<1>18. issued'[t] = u /\ log'[t] = w
  BY <1>1, <1>3, <1>5
<1>19. Sealing(t, m + 1)'
  <2>0. n = m + 1
    BY <1>1, <1>2
  <2>1. f \in Nat \ {0} /\ Len(w) \in f..Len(w)
    BY <1>4, <1>9
  <2> QED BY <1>7, <1>9, <1>17, <1>18, <2>0, <2>1 DEF Sealing
<1> QED BY <1>1, <1>2, <1>3, <1>4, <1>5, <1>7, <1>8, <1>19

(* The worker's anchor leaves every table chained and tiled.               *)
LEMMA AnchorKeepsDatabase ==
    ASSUME Database, NEW t \in Tables, AnchorHead(t)
    PROVE  Database'
<1>1. PICK m : m = Len(issued[t])
  OBVIOUS
<1>2. /\ log' = log /\ issued' = [issued EXCEPT ![t] = issued'[t]]
      /\ m \in Nat /\ Len(issued'[t]) = m + 1 /\ IsListOf(issued'[t])
      /\ \A n \in 1..m : issued'[t][n] = issued[t][n]
      /\ Sealing(t, m + 1)'
  BY <1>1, AnchorIssued
<1>3. ASSUME NEW n \in 1..m PROVE Sealing(t, n) /\ Sealing(t, n)'
  <2>1. Sealing(t, n)
    BY <1>1 DEF Database, Issued
  <2>2. issued'[t][n] = issued[t][n] /\ (n # 1 => issued'[t][n-1] = issued[t][n-1])
    BY <1>2
  <2> QED BY <1>2, <2>1, <2>2 DEF Sealing
<1>4. ASSUME NEW k \in 1..(m + 1), NEW n \in 1..(m + 1), k < n
      PROVE  issued'[t][k].to_seq < issued'[t][n].from_seq
  <2>1. \A i, j \in 1..m : i < j => issued[t][i].to_seq < issued[t][j].from_seq
    BY <1>1 DEF Database, Issued
  <2>2. CASE n # m + 1
    <3>1. k \in 1..m /\ n \in 1..m
      BY <1>2, <1>4, <2>2
    <3> QED BY <1>2, <1>4, <2>1, <3>1
  <2>3. CASE n = m + 1
    <3>1. /\ m \in 1..m /\ k \in 1..m /\ m + 1 # 1 /\ (m + 1) - 1 = m
      BY <1>2, <1>4, <2>3
    <3>2. issued'[t][n].from_seq = issued'[t][m].to_seq + 1
      BY <1>2, <2>3, <3>1 DEF Sealing
    <3>3. PICK x, y, z : x = issued[t][k].to_seq /\ y = issued[t][m].from_seq
                         /\ z = issued[t][m].to_seq
      OBVIOUS
    <3>4. Sealing(t, k) /\ Sealing(t, m) /\ Len(log[t]) \in Int
      BY <1>3, <3>1 DEF Database, Logged
    <3>5. x \in Int /\ y \in Int /\ z \in Int /\ y <= z
      BY <3>3, <3>4 DEF Sealing
    <3>6. k = m \/ x < y
      BY <2>1, <3>1, <3>3
    <3>7. x <= z
      BY <3>3, <3>5, <3>6
    <3>8. /\ issued'[t][k].to_seq = x /\ issued'[t][m].to_seq = z
      BY <1>2, <3>1, <3>3
    <3>9. x < z + 1
      BY <3>5, <3>7
    <3> QED BY <3>2, <3>8, <3>9
  <2> QED BY <2>2, <2>3
<1>5. Issued(t)'
  <2>1. \A n \in 1..(m + 1) : n \in 1..m \/ n = m + 1
    BY <1>2
  <2> QED BY <1>2, <1>3, <1>4, <2>1 DEF Issued
<1>6. ASSUME NEW u \in Tables PROVE Logged(u)' /\ Issued(u)'
  <2>1. Logged(u) /\ Issued(u)
    BY DEF Database
  <2>2. CASE u # t
    <3>1. issued'[u] = issued[u]
      BY <1>2, <2>2 DEF Database
    <3>2. \A n : Sealing(u, n)' <=> Sealing(u, n)
      BY <1>2, <3>1 DEF Sealing
    <3>3. Issued(u)'
      BY <2>1, <3>1, <3>2 DEF Issued
    <3>4. Logged(u)'
      BY <1>2, <2>1 DEF Logged
    <3> QED BY <3>3, <3>4
  <2>3. CASE u = t
    <3>1. Logged(u)'
      BY <1>2, <2>1 DEF Logged
    <3> QED BY <1>5, <2>3, <3>1
  <2> QED BY <2>2, <2>3
<1> QED BY <1>2, <1>6 DEF Database

-----------------------------------------------------------------------------
(* The file *)

(* A list of sound lines is a sound file.                                  *)
LEMMA SoundLines ==
    ASSUME NEW S, NEW f \in Seq(S), \A l \in S : Sound(l)
    PROVE  SoundFile(f)
<1>1. IsListOf(f) /\ DOMAIN f = 1..Len(f) /\ Len(f) \in Nat
  BY AnyList
<1>2. \A i \in DOMAIN f : f[i] \in S
  OBVIOUS
<1> QED BY <1>1, <1>2 DEF SoundFile

(* The lines of a file, and one more. *)
LEMMA LinesOfFile ==
    ASSUME NEW f, SoundFile(f), NEW l, Sound(l)
    PROVE  \E S : f \in Seq(S) /\ l \in S /\ \A x \in S : Sound(x)
<1>1. PICK S : S = Range(f) \cup {l}
  OBVIOUS
<1>2. f \in Seq(S) /\ l \in S
  BY <1>1 DEF SoundFile, IsListOf
<1>3. \A x \in S : Sound(x)
  BY <1>1 DEF SoundFile, Range
<1> QED BY <1>2, <1>3

(* What an accident leaves is made of the lines there were.                *)
LEMMA LinesLeft ==
    ASSUME NEW S, NEW f \in Seq(S), NEW l \in S
    PROVE  /\ \A g \in LineLost(f) : g \in Seq(S)
           /\ \A g \in LineRepeated(f) : g \in Seq(S)
           /\ \A g \in LinesSwapped(f) : g \in Seq(S)
           /\ \A g \in EndLost(f) : g \in Seq(S)
           /\ \A g \in WithLine(f, l) : g \in Seq(S)
           /\ \A i \in DOMAIN f : [f EXCEPT ![i] = l] \in Seq(S)
<1>1. Len(f) \in Nat /\ DOMAIN f = 1..Len(f)
  OBVIOUS
<1>2. ASSUME NEW g \in LineLost(f) PROVE g \in Seq(S)
  BY <1>1, <1>2, Removed DEF LineLost
<1>3. ASSUME NEW g \in LineRepeated(f) PROVE g \in Seq(S)
  <2>1. PICK i \in 1..Len(f) : g = InsertAt(f, i, f[i])
    BY <1>1, <1>3 DEF LineRepeated
  <2>2. i \in 1..(Len(f) + 1) /\ f[i] \in S
    BY <1>1
  <2> QED BY <2>1, <2>2, Inserted
<1>4. ASSUME NEW g \in WithLine(f, l) PROVE g \in Seq(S)
  BY <1>4, Inserted DEF WithLine
<1>5. ASSUME NEW g \in EndLost(f) PROVE g \in Seq(S)
  BY <1>5, CutOff DEF EndLost
<1>6. ASSUME NEW g \in LinesSwapped(f) PROVE g \in Seq(S)
  BY <1>6, Swapped DEF LinesSwapped
<1> QED BY <1>2, <1>3, <1>4, <1>5, <1>6

(* An anchor the worker issued. *)
LEMMA IssuedIsSound ==
    ASSUME Database, NEW t \in Tables, NEW n \in 1..Len(issued[t])
    PROVE  SoundAnchor(issued[t][n])
<1>1. Sealing(t, n)
  BY DEF Database, Issued
<1> QED BY <1>1 DEF Sealing, SoundAnchor, Genuine

(* A row of a table. *)
LEMMA LoggedIsSound ==
    ASSUME Database, NEW t \in Tables, NEW n \in 1..Len(log[t])
    PROVE  SoundRow(log[t][n]) /\ log[t][n].chain_seq = n
<1>1. Logged(t)
  BY DEF Database
<1>2. PICK p : p = IF n = 1 THEN Genesis ELSE log[t][n-1].entry_hash
  OBVIOUS
<1>3. log[t][n] = Row(n, p, Writes[t][n]) /\ n \in 1..Len(Writes[t])
  BY <1>1, <1>2, WritesAssumption, WidthAssumption DEF Logged
<1>4. InWidth(n) /\ IsListOf(Writes[t][n])
  <2>1. Len(Writes[t]) \in 0..MaxInt /\ Writes[t][n] \in Seq(Range(Writes[t][n]))
    BY <1>3, WritesAssumption
  <2> QED BY <1>3, <2>1, WidthAssumption DEF InWidth, MinInt, IsListOf
<1> QED BY <1>3, <1>4 DEF Row, SoundRow, IsRow

(* 64 bits hold whole numbers. *)
LEMMA Width64 == \A n \in Int : I64(n) \in Int /\ InWidth(I64(n))
<1> TAKE n \in Int
<1>1. PICK w : w = MaxInt - MinInt + 1
  OBVIOUS
<1>2. MinInt \in Int /\ w \in Nat \ {0} /\ MaxInt = MinInt + w - 1 /\ MaxInt \in Int
  BY <1>1, WidthAssumption DEF MinInt
<1>3. (n - MinInt) % w \in 0..(w - 1)
  BY <1>2
<1> QED BY <1>1, <1>2, <1>3 DEF I64, InWidth

(* An altered number of a row is still one of 64 bits.                     *)
LEMMA AlteredRowIsSound ==
    ASSUME NEW r, SoundRow(r), NEW x \in AlteredRow(r)
    PROVE  SoundRow(x)
<1>1. PICK n, p, c, e : r = [chain_seq |-> n, prev_hash |-> p, canonical |-> c, entry_hash |-> e]
  BY DEF SoundRow, IsRow
<1>2. InWidth(n) /\ IsListOf(c) /\ n \in Int
  BY <1>1, NoWrap DEF SoundRow
<1>3. IsListOf(<<Stray>>)
  <2>1. <<Stray>> \in Seq({Stray})
    OBVIOUS
  <2> QED BY <2>1, AnyList
<1>4. InWidth(I64(n + 1)) /\ InWidth(MaxInt)
  <2>1. n + 1 \in Int
    BY <1>2
  <2> QED BY <2>1, Width64, WidthAssumption DEF InWidth, MinInt
<1>5. \/ x \in {[r EXCEPT !.canonical = <<Stray>>], [r EXCEPT !.prev_hash = <<Stray>>],
               [r EXCEPT !.prev_hash = NotHex], [r EXCEPT !.entry_hash = <<Stray>>],
               [r EXCEPT !.chain_seq = I64(@ + 1)], [r EXCEPT !.chain_seq = MaxInt]}
      \/ x = Row(r.chain_seq, r.prev_hash, <<Stray>>)
  BY DEF AlteredRow
<1>6. IsRow(x) /\ x.chain_seq \in {n, I64(n + 1), MaxInt} /\ x.canonical \in {c, <<Stray>>}
  <2>1. CASE x = [r EXCEPT !.canonical = <<Stray>>]
    BY <1>1, <2>1 DEF IsRow
  <2>2. CASE x = [r EXCEPT !.prev_hash = <<Stray>>]
    BY <1>1, <2>2 DEF IsRow
  <2>3. CASE x = [r EXCEPT !.prev_hash = NotHex]
    BY <1>1, <2>3 DEF IsRow
  <2>4. CASE x = [r EXCEPT !.entry_hash = <<Stray>>]
    BY <1>1, <2>4 DEF IsRow
  <2>5. CASE x = [r EXCEPT !.chain_seq = I64(@ + 1)]
    BY <1>1, <2>5 DEF IsRow
  <2>6. CASE x = [r EXCEPT !.chain_seq = MaxInt]
    BY <1>1, <2>6 DEF IsRow
  <2>7. CASE x = Row(r.chain_seq, r.prev_hash, <<Stray>>)
    BY <1>1, <2>7 DEF Row, IsRow
  <2> QED BY <1>5, <2>1, <2>2, <2>3, <2>4, <2>5, <2>6, <2>7
<1> QED BY <1>2, <1>3, <1>4, <1>6 DEF SoundRow

(* No fault of an anchor line makes a signature that decodes but was never *)
(* made.                                                                   *)
LEMMA AlteredAnchorIsSound ==
    ASSUME NEW a, SoundAnchor(a), NEW x \in AlteredAnchor(a)
    PROVE  SoundAnchor(x)
<1> DEFINE Of(i, f, t, r, c, p, q, s, k, g) ==
        [id |-> i, from_seq |-> f, to_seq |-> t, row_count |-> r, chain_head |-> c,
         prev_anchor_id |-> p, prev_head |-> q, signature |-> s, signing_key_id |-> k,
         sig_alg |-> g]
<1>1. PICK i, f, t, r, c, p, q, s, k, g : a = Of(i, f, t, r, c, p, q, s, k, g)
  BY DEF SoundAnchor, IsAnchor
<1>2. i \in Int /\ k = AnchorKey /\ (s = NotHex \/ Genuine(s))
  BY <1>1 DEF SoundAnchor
<1>3. /\ IsAnchor(x) /\ x.id \in {i, I64(i + 1)} /\ x.signing_key_id = k
      /\ x.signature \in {s, NotHex}
  <2>1. CASE x = [a EXCEPT !.chain_head = <<Stray>>]
    BY <1>1, <2>1 DEF IsAnchor
  <2>2. CASE x = [a EXCEPT !.from_seq = I64(@ + 1)]
    BY <1>1, <2>2 DEF IsAnchor
  <2>3. CASE x = [a EXCEPT !.to_seq = I64(@ + 1)]
    BY <1>1, <2>3 DEF IsAnchor
  <2>4. CASE x = [a EXCEPT !.to_seq = I64(@ - 1)]
    BY <1>1, <2>4 DEF IsAnchor
  <2>5. CASE x = [a EXCEPT !.to_seq = MaxInt]
    BY <1>1, <2>5 DEF IsAnchor
  <2>6. CASE x = [a EXCEPT !.from_seq = MinInt]
    BY <1>1, <2>6 DEF IsAnchor
  <2>7. CASE x = [a EXCEPT !.row_count = I64(@ + 1)]
    BY <1>1, <2>7 DEF IsAnchor
  <2>8. CASE x = [a EXCEPT !.prev_anchor_id = None]
    BY <1>1, <2>8 DEF IsAnchor
  <2>9. CASE x = [a EXCEPT !.prev_head = <<Stray>>]
    BY <1>1, <2>9 DEF IsAnchor
  <2>10. CASE x = [a EXCEPT !.signature = NotHex]
    BY <1>1, <2>10 DEF IsAnchor
  <2>11. CASE x = [a EXCEPT !.sig_alg = "FALCON-1024"]
    BY <1>1, <2>11 DEF IsAnchor
  <2>12. CASE x = [a EXCEPT !.id = I64(@ + 1)]
    BY <1>1, <2>12 DEF IsAnchor
  <2> QED BY <2>1, <2>2, <2>3, <2>4, <2>5, <2>6, <2>7, <2>8, <2>9, <2>10, <2>11, <2>12
          DEF AlteredAnchor
<1>4. I64(i + 1) \in Int
  <2>1. i + 1 \in Int
    BY <1>2
  <2> QED BY <2>1, Width64
<1> QED BY <1>2, <1>3, <1>4 DEF SoundAnchor

(* An altered manifest is still one.                                       *)
LEMMA AlteredManifestIsSound ==
    ASSUME NEW m \in Manifests, NEW x \in AlteredManifest(m)
    PROVE  x \in Manifests
<1>1. CASE x = [m EXCEPT !.counts.rows = @ + 1]
  BY <1>1 DEF Manifests
<1>2. CASE x = [m EXCEPT !.counts.anchors = @ + 1]
  BY <1>2 DEF Manifests
<1>3. CASE x = [m EXCEPT !.table = Stray]
  BY <1>3 DEF Manifests
<1>4. CASE x = [m EXCEPT !.profile = Stray]
  BY <1>4 DEF Manifests
<1>5. CASE x = [m EXCEPT !.unanchored_tail = @ + 1]
  BY <1>5 DEF Manifests
<1> QED BY <1>1, <1>2, <1>3, <1>4, <1>5 DEF AlteredManifest

(* Soundness is about the worker's signatures only. *)
LEMMA SoundStable ==
    ASSUME issued' = issued, NEW f, SoundFile(f)
    PROVE  SoundFile(f)'
<1>1. \A s : Genuine(s) => Genuine(s)'
  BY DEF Genuine
<1>2. \A a : SoundAnchor(a) => SoundAnchor(a)'
  BY <1>1 DEF SoundAnchor
<1>3. \A l : Sound(l) => Sound(l)'
  BY <1>2 DEF Sound
<1> QED BY <1>3 DEF SoundFile

(* Every line of a rewritten chain is sound, wherever the hashes come from.*)
LEMMA RewrittenIsSound ==
    ASSUME SoundFile(file), NEW i \in RowLines
    PROVE  SoundFile(Rewritten(i))
<1>1. PICK f, n : f = file /\ n = Len(file)
  OBVIOUS
<1>2. n \in Nat /\ DOMAIN f = 1..n /\ \A k \in 1..n : Sound(f[k])
  BY <1>1 DEF SoundFile, IsListOf
<1>p. PICK prev : prev = NewPrevHashes(i)
  OBVIOUS
<1>3. Rewritten(i) =
          [k \in DOMAIN f |->
              IF k < i \/ f[k].kind # "chain_row" THEN f[k]
              ELSE Line("chain_row", Row(f[k].body.chain_seq, prev[k],
                        IF k = i THEN <<Stray>> ELSE f[k].body.canonical))]
  BY <1>1, <1>p DEF Rewritten, NewCanonical
<1>4. IsListOf(<<Stray>>)
  <2>1. <<Stray>> \in Seq({Stray})
    OBVIOUS
  <2> QED BY <2>1, AnyList
<1>5. ASSUME NEW k \in 1..n, f[k].kind = "chain_row", NEW p,
             NEW c, c \in {<<Stray>>, f[k].body.canonical}
      PROVE  Sound(Line("chain_row", Row(f[k].body.chain_seq, p, c)))
  <2>1. SoundRow(f[k].body)
    BY <1>2, <1>5 DEF Sound
  <2>2. IsListOf(c) /\ InWidth(f[k].body.chain_seq)
    BY <1>4, <1>5, <2>1 DEF SoundRow
  <2>3. PICK r : r = Row(f[k].body.chain_seq, p, c)
    OBVIOUS
  <2>4. SoundRow(r)
    BY <2>2, <2>3 DEF SoundRow, IsRow, Row
  <2> QED BY <2>3, <2>4 DEF Sound, Line
<1>6. PICK g : g = Rewritten(i)
  OBVIOUS
<1>7. ASSUME NEW k \in 1..n PROVE Sound(g[k])
  <2>1. CASE k < i \/ f[k].kind # "chain_row"
    BY <1>2, <1>3, <1>6, <2>1
  <2>2. CASE ~(k < i \/ f[k].kind # "chain_row")
    <3>1. PICK c : c = IF k = i THEN <<Stray>> ELSE f[k].body.canonical
      OBVIOUS
    <3>2. g[k] = Line("chain_row", Row(f[k].body.chain_seq, prev[k], c))
      BY <1>2, <1>3, <1>6, <2>2, <3>1
    <3> QED BY <1>5, <2>2, <3>1, <3>2
  <2> QED BY <2>1, <2>2
<1>8. g = [k \in 1..n |-> g[k]]
  BY <1>2, <1>3, <1>6
<1>9. PICK S : S = {g[k] : k \in 1..n}
  OBVIOUS
<1>10. g \in Seq(S)
  BY <1>2, <1>8, <1>9
<1>11. \A l \in S : Sound(l)
  BY <1>7, <1>9
<1> QED BY <1>6, <1>10, <1>11, SoundLines

(* One line replaced by a sound one. *)
LEMMA ReplacedIsSound ==
    ASSUME NEW f, SoundFile(f), NEW i \in DOMAIN f, NEW l, Sound(l)
    PROVE  SoundFile([f EXCEPT ![i] = l])
<1>1. PICK S : f \in Seq(S) /\ l \in S /\ \A x \in S : Sound(x)
  BY LinesOfFile
<1> QED BY <1>1, LinesLeft, SoundLines

(* A body replaced by a sound one of its kind. *)
LEMMA NewBodyIsSound ==
    ASSUME NEW f, SoundFile(f), NEW i \in DOMAIN f, NEW b,
           \/ f[i].kind = "chain_row" /\ SoundRow(b)
           \/ f[i].kind = "chain_anchor" /\ SoundAnchor(b)
           \/ f[i].kind = "manifest" /\ b \in Manifests
    PROVE  SoundFile([f EXCEPT ![i].body = b])
<1>1. f[i] = Line(f[i].kind, f[i].body)
  BY DEF SoundFile, Sound
<1>2. PICK l : l = Line(f[i].kind, b)
  OBVIOUS
<1>3. l = [f[i] EXCEPT !.body = b]
  BY <1>1, <1>2 DEF Line
<1>4. Sound(l)
  BY <1>2 DEF Sound, Line
<1>5. SoundFile([f EXCEPT ![i] = l])
  BY <1>4, ReplacedIsSound
<1>6. [f EXCEPT ![i].body = b] = [f EXCEPT ![i] = l]
  BY <1>3
<1> QED BY <1>5, <1>6

(* No fault makes a line that is not sound. *)
LEMMA SpoilKeepsFile ==
    ASSUME Database, SoundFile(file), stage # "live" => named \in Tables, Spoil
    PROVE  SoundFile(file)' /\ UNCHANGED <<stage, database, tail, original, vars>>
           /\ named' \in {named} \cup Tables
<1>1. UNCHANGED <<stage, database, tail, original, vars>> /\ named' \in {named} \cup Tables
  BY DEF Spoil, Reorder, Newer, Omit, Repeat, Misname, Foreign, Lose, Truncate,
         Duplicate, Blank, Garble, Rewrite, Alter, Strike
<1>2. PICK g : g = file'
  OBVIOUS
<1>3. Sound(Line("other", None)) /\ Sound(Line("blank", None)) /\ Sound(Line("malformed", None))
  BY DEF Sound, Line
<1>4. ASSUME NEW l, Sound(l), g \in LinesSwapped(file) \/ g \in WithLine(file, l)
                  \/ g \in LineLost(file) \/ g \in LineRepeated(file) \/ g \in EndLost(file)
      PROVE  SoundFile(g)
  <2>1. PICK S : file \in Seq(S) /\ l \in S /\ \A x \in S : Sound(x)
    BY <1>4, LinesOfFile
  <2>2. g \in Seq(S)
    BY <1>4, <2>1, LinesLeft
  <2> QED BY <2>1, <2>2, SoundLines
<1>5. ASSUME Reorder \/ Newer \/ Omit \/ Repeat \/ Lose \/ Truncate \/ Duplicate \/ Blank PROVE SoundFile(g)
  BY <1>2, <1>3, <1>4, <1>5 DEF Reorder, Newer, Omit, Repeat, Lose, Truncate, Duplicate,
     Blank, Strike
<1>6. ASSUME Garble PROVE SoundFile(g)
  <2>1. PICK i \in DOMAIN file : g = [file EXCEPT ![i] = Line("malformed", None)]
    BY <1>2, <1>6 DEF Garble, Strike, LineGarbled
  <2> QED BY <1>3, <2>1, ReplacedIsSound
<1>7. ASSUME Rewrite PROVE SoundFile(g)
  <2>1. PICK i \in RowLines : g = Rewritten(i)
    BY <1>2, <1>7 DEF Rewrite, Strike
  <2> QED BY <2>1, RewrittenIsSound
<1>8. ASSUME Alter PROVE SoundFile(g)
  <2>0. PICK i \in DOMAIN file : \E b \in Altered(file[i]) :
            g = [file EXCEPT ![i].body = b]
    BY <1>2, <1>8 DEF Alter, Strike
  <2>1. PICK b \in Altered(file[i]) : g = [file EXCEPT ![i].body = b]
    BY <2>0
  <2>2. PICK k, c : k = file[i].kind /\ c = file[i].body
    OBVIOUS
  <2>3. \/ k = "chain_row" /\ b \in AlteredRow(c)
        \/ k = "chain_anchor" /\ b \in AlteredAnchor(c)
        \/ k = "manifest" /\ b \in AlteredManifest(c)
    BY <2>1, <2>2 DEF Altered
  <2>4. Sound(file[i])
    BY DEF SoundFile
  <2>5. \/ k = "chain_row" /\ SoundRow(b)
        \/ k = "chain_anchor" /\ SoundAnchor(b)
        \/ k = "manifest" /\ b \in Manifests
    BY <2>2, <2>3, <2>4, AlteredRowIsSound, AlteredAnchorIsSound, AlteredManifestIsSound
       DEF Sound
  <2> QED BY <2>1, <2>2, <2>5, NewBodyIsSound
<1>9. ASSUME Misname PROVE SoundFile(g)
  <2>1. PICK t \in Tables : g = [i \in DOMAIN file |->
                   IF file[i].kind = "header" THEN Line("header", HeaderFor(t))
                                              ELSE file[i]]
    BY <1>2, <1>9 DEF Misname, Strike
  <2>2. PICK l : l = Line("header", HeaderFor(t))
    OBVIOUS
  <2>3. Sound(l)
    BY <2>2 DEF Sound, Line
  <2>4. PICK S : file \in Seq(S) /\ l \in S /\ \A x \in S : Sound(x)
    BY <2>3, LinesOfFile
  <2>5. g \in Seq(S)
    BY <2>1, <2>2, <2>4
  <2> QED BY <2>4, <2>5, SoundLines
<1>10. ASSUME Foreign PROVE SoundFile(g)
  <2>0. PICK a \in UNION {Range(issued[t]) : t \in Tables \ {named}} :
            g \in {[file EXCEPT ![i].body = a] :
                     i \in {k \in DOMAIN file : file[k].kind = "chain_anchor"}}
    BY <1>2, <1>10 DEF Foreign, Strike
  <2>1. PICK i \in DOMAIN file :
            g = [file EXCEPT ![i].body = a] /\ file[i].kind = "chain_anchor"
    BY <2>0
  <2>t. PICK t \in Tables : a \in Range(issued[t])
    OBVIOUS
  <2>2. SoundAnchor(a)
    <3>1. IsListOf(issued[t])
      BY DEF Database, Issued
    <3>2. PICK n \in 1..Len(issued[t]) : a = issued[t][n]
      BY <2>t, <3>1 DEF IsListOf, Range
    <3> QED BY <3>2, IssuedIsSound
  <2> QED BY <2>1, <2>2, NewBodyIsSound
<1>11. SoundFile(g)
  BY <1>5, <1>6, <1>7, <1>8, <1>9, <1>10 DEF Spoil
<1>12. SoundFile(g)'
  BY <1>1, <1>11, SoundStable DEF database
<1>13. SoundFile(file)'
  BY <1>2, <1>12 DEF SoundFile
<1> QED BY <1>1, <1>13

(* The exporter writes rows and anchors of one table, whole ranges of them.*)
LEMMA ExportWrites ==
    ASSUME Database, NEW t \in Tables, NEW i \in 1..Len(issued[t]),
           NEW j \in i..Len(issued[t]), NEW upto,
           upto = IF j = Len(issued[t]) THEN Len(log[t]) ELSE issued[t][j].to_seq
    PROVE  /\ Len(log[t]) \in Nat /\ upto \in issued[t][j].to_seq..Len(log[t])
           /\ issued[t][i].from_seq \in Nat \ {0} /\ issued[t][j].to_seq \in Nat
           /\ upto - issued[t][j].to_seq \in Nat
           /\ SoundFile(Records(t, SubSeq(log[t], issued[t][i].from_seq, upto),
                                SubSeq(issued[t], i, j)))
<1>1. PICK w, s, a, b : w = log[t] /\ s = issued[t] /\ a = s[i].from_seq /\ b = s[j].to_seq
  OBVIOUS
<1>2. IsListOf(w) /\ IsListOf(s) /\ Len(w) \in Nat /\ Len(s) \in Nat /\ j \in 1..Len(s)
  BY <1>1 DEF Database, Logged, Issued, IsListOf
<1>3. a \in Nat \ {0} /\ b \in Nat /\ b <= Len(w)
  <2>1. Sealing(t, i) /\ Sealing(t, j)
    BY <1>1, <1>2 DEF Database, Issued
  <2> QED BY <1>1, <1>2, <2>1 DEF Sealing
<1>4. upto \in b..Len(w) /\ upto \in 0..Len(w) /\ upto - b \in Nat
  BY <1>1, <1>2, <1>3
<1>5. PICK R, A, K, r, c : /\ R = {Line("chain_row", x) : x \in Range(w)}
                           /\ A = {Line("chain_anchor", x) : x \in Range(s)}
                           /\ K = {Line("header", HeaderFor(t)),
                                   Line("signing_keys", [keys |-> <<KeyEntry>>])}
                           /\ r = SubSeq(w, a, upto) /\ c = SubSeq(s, i, j)
  OBVIOUS
<1>6. r \in Seq(Range(w)) /\ c \in Seq(Range(s))
  <2>1. i \in Nat \ {0} /\ j \in 0..Len(s)
    BY <1>2
  <2> QED BY <1>2, <1>3, <1>4, <1>5, <2>1, PartOf DEF IsListOf
<1>7. Lines("chain_row", r) \in Seq(R) /\ Lines("chain_anchor", c) \in Seq(A)
  <2>1. Lines("chain_row", r) = [k \in 1..Len(r) |-> Line("chain_row", r[k])]
    BY <1>6 DEF Lines
  <2>2. Lines("chain_anchor", c) = [k \in 1..Len(c) |-> Line("chain_anchor", c[k])]
    BY <1>6 DEF Lines
  <2>3. ASSUME NEW k \in 1..Len(r) PROVE Line("chain_row", r[k]) \in R
    <3>1. r[k] \in Range(w)
      BY <1>6
    <3> QED BY <1>5, <3>1
  <2>4. ASSUME NEW k \in 1..Len(c) PROVE Line("chain_anchor", c[k]) \in A
    <3>1. c[k] \in Range(s)
      BY <1>6
    <3> QED BY <1>5, <3>1
  <2>5. Len(r) \in Nat /\ Len(c) \in Nat
    BY <1>6
  <2> QED BY <2>1, <2>2, <2>3, <2>4, <2>5
<1>8. PICK S : S = R \cup A \cup K
  OBVIOUS
<1>9. Records(t, r, c) \in Seq(S)
  <2>1. PICK u, v : u = Lines("chain_row", r) /\ v = Lines("chain_anchor", c)
    OBVIOUS
  <2>2. PICK h : h = <<Line("header", HeaderFor(t)), Line("signing_keys", [keys |-> <<KeyEntry>>])>>
    OBVIOUS
  <2>3. h \in Seq(S)
    BY <1>5, <1>8, <2>2
  <2>4. u \in Seq(S) /\ v \in Seq(S)
    BY <1>7, <1>8, <2>1
  <2>5. (h \o u) \o v \in Seq(S)
    BY <2>3, <2>4
  <2> QED BY <2>1, <2>2, <2>5 DEF Records
<1>10. ASSUME NEW l \in S PROVE Sound(l)
  <2>1. CASE l \in R
    <3>1. PICK k \in DOMAIN w : l = Line("chain_row", w[k])
      BY <1>5, <2>1 DEF Range
    <3>2. k \in 1..Len(w)
      BY <1>2 DEF IsListOf
    <3> QED BY <1>1, <3>1, <3>2, LoggedIsSound DEF Sound, Line
  <2>2. CASE l \in A
    <3>1. PICK k \in DOMAIN s : l = Line("chain_anchor", s[k])
      BY <1>5, <2>2 DEF Range
    <3>2. k \in 1..Len(s)
      BY <1>2 DEF IsListOf
    <3> QED BY <1>1, <3>1, <3>2, IssuedIsSound DEF Sound, Line
  <2>3. CASE l \in K
    BY <1>5, <2>3 DEF Sound, Line
  <2> QED BY <1>8, <2>1, <2>2, <2>3
<1>11. SoundFile(Records(t, r, c))
  BY <1>9, <1>10, SoundLines
<1> QED BY <1>1, <1>2, <1>3, <1>4, <1>5, <1>11

(* The manifest that closes a file. *)
LEMMA SealedIsSound ==
    ASSUME NEW f, SoundFile(f), NEW t \in Tables, NEW n \in Nat
    PROVE  SoundFile(SealedPack(f, t, n))
<1>1. PICK r, a, m : /\ r = Cardinality({i \in DOMAIN f : f[i].kind = "chain_row"})
                     /\ a = Cardinality({i \in DOMAIN f : f[i].kind = "chain_anchor"})
                     /\ m = [profile |-> CHAIN_PACK_PROFILE, table |-> t,
                             unanchored_tail |-> n, counts |-> [rows |-> r, anchors |-> a]]
  OBVIOUS
<1>2. SealedPack(f, t, n) = Append(f, Line("manifest", m))
  BY <1>1 DEF SealedPack
<1>3. r \in Nat /\ a \in Nat
  <2>1. Len(f) \in Nat /\ DOMAIN f = 1..Len(f)
    BY DEF SoundFile, IsListOf
  <2>2. IsFiniteSet(DOMAIN f)
    BY <2>1, CountTo
  <2>3. \A I : I \subseteq DOMAIN f => Cardinality(I) \in Nat
    BY <2>2, FS_Subset, FS_CardinalityType
  <2> QED BY <1>1, <2>3
<1>4. m \in Manifests
  BY <1>1, <1>3 DEF Manifests
<1>5. PICK l : l = Line("manifest", m)
  OBVIOUS
<1>6. Sound(l)
  BY <1>4, <1>5 DEF Sound, Line
<1>7. PICK S : f \in Seq(S) /\ l \in S /\ \A x \in S : Sound(x)
  BY <1>6, LinesOfFile
<1>8. Append(f, l) \in Seq(S)
  BY <1>7
<1>9. SoundFile(Append(f, l))
  BY <1>7, <1>8, SoundLines
<1> QED BY <1>2, <1>5, <1>9

-----------------------------------------------------------------------------
(* The invariant holds *)

(* A text that can be delivered is one verify_chain() can be handed.       *)
LEMMA FileIsText ==
    ASSUME SoundFile(file)
    PROVE  IsText(file)
<1>1. Len(file) \in Nat /\ DOMAIN file = 1..Len(file)
  BY DEF SoundFile, IsListOf
<1>2. ASSUME NEW i \in DOMAIN file
      PROVE  /\ file[i].kind = "signing_keys" =>
                   file[i].body.keys \in Seq(Range(file[i].body.keys))
             /\ file[i].kind = "manifest" => file[i].body # None
  <2>1. Sound(file[i])
    BY DEF SoundFile
  <2>2. file[i].kind = "signing_keys" => file[i].body.keys = <<KeyEntry>>
    BY <2>1 DEF Sound
  <2>3. IsListOf(<<KeyEntry>>)
    <3>1. <<KeyEntry>> \in Seq({KeyEntry})
      OBVIOUS
    <3> QED BY <3>1, AnyList
  <2> QED BY <2>1, <2>2, <2>3, ManifestAssumption DEF Sound, IsListOf
<1> QED BY <1>1, <1>2 DEF IsText

(* A check is never followed by the start. *)
LEMMA NeverBack ==
    ASSUME Inv, VerifyChain
    PROVE  pc # "idle" /\ pc' # "idle" /\ pack' = pack
<1>1. CASE Parse
  BY <1>1 DEF Parse, ReadBlank, ReadHeader, ReadSigningKeys, ReadChainRow,
     ReadChainAnchor, ReadManifest, ReadOther, ReadMalformed, ParseDone, AtLine
<1>2. CASE Check
  BY <1>2, CheckVerdict DEF Inv
<1> QED BY <1>1, <1>2 DEF VerifyChain

(* Every insert, anchor, export, fault and step of verify_chain().         *)
LEMMA StepSystem == SystemInv /\ [SystemNext]_<<system, vars>> => SystemInv'
<1> SUFFICES ASSUME SystemInv, [SystemNext]_<<system, vars>> PROVE SystemInv'
  OBVIOUS
<1> USE DEF SystemInv
<1>1. ASSUME UNCHANGED database PROVE Database'
  <2>1. log' = log /\ issued' = issued
    BY <1>1 DEF database
  <2>2. ASSUME NEW t \in Tables PROVE Logged(t)'
    <3>1. Logged(t)
      BY <2>2 DEF Database
    <3> QED BY <2>1, <3>1 DEF Logged
  <2>3. ASSUME NEW t \in Tables PROVE Issued(t)'
    <3>1. Issued(t)
      BY <2>3 DEF Database
    <3> QED BY <2>1, <3>1 DEF Issued, Sealing
  <2> QED BY <2>1, <2>2, <2>3 DEF Database
<1>2. ASSUME UNCHANGED vars PROVE Inv' /\ Listing'
  BY <1>2, StepInv, StepListing
<1>3. ASSUME UNCHANGED <<database, file>> PROVE SoundFile(file)'
  <2>1. PICK f : f = file
    OBVIOUS
  <2>2. SoundFile(f)'
    BY <1>3, <2>1, SoundStable DEF Delivered, database
  <2> QED BY <1>3, <2>1, <2>2 DEF SoundFile
<1>4. ASSUME UNCHANGED vars PROVE pc' = pc /\ pack' = pack
  BY <1>4 DEF vars
<1>5. ASSUME NEW t \in Tables, Insert(t) \/ AnchorHead(t) PROVE SystemInv'
  <2>1. /\ UNCHANGED vars /\ UNCHANGED <<stage, file, named, tail>> /\ stage = "live"
        /\ Database'
    BY <1>5, InsertKeepsDatabase, AnchorKeepsDatabase DEF Insert, AnchorHead
  <2>2. file' = <<>>
    BY <2>1 DEF Delivered, Stages
  <2>3. SoundFile(file)'
    BY <2>2 DEF SoundFile, IsListOf
  <2> QED BY <1>2, <1>4, <2>1, <2>2, <2>3 DEF Delivered, Stages
<1>6. ASSUME NEW t \in Tables, NEW i \in DOMAIN issued[t], NEW j \in DOMAIN issued[t],
             i <= j, Export(t, i, j)
      PROVE  SystemInv'
  <2>1. DOMAIN issued[t] = 1..Len(issued[t]) /\ Len(issued[t]) \in Nat
    BY DEF Database, Issued, IsListOf
  <2>2. i \in 1..Len(issued[t]) /\ j \in i..Len(issued[t])
    BY <1>6, <2>1
  <2>3. PICK upto : upto = IF j = Len(issued[t]) THEN Len(log[t]) ELSE issued[t][j].to_seq
    OBVIOUS
  <2>4. PICK f : f = Records(t, SubSeq(log[t], issued[t][i].from_seq, upto),
                             SubSeq(issued[t], i, j))
    OBVIOUS
  <2>5. SoundFile(f) /\ upto - issued[t][j].to_seq \in Nat
    BY <2>2, <2>3, <2>4, ExportWrites
  <2>6. /\ stage = "live" /\ stage' = "draft" /\ named' = t /\ file' = f
        /\ tail' = upto - issued[t][j].to_seq
        /\ UNCHANGED database /\ UNCHANGED vars
    BY <1>6, <2>3, <2>4 DEF Export
  <2>7. SoundFile(file)'
    <3>1. SoundFile(f)'
      BY <2>5, <2>6, SoundStable DEF database
    <3> QED BY <2>6, <3>1 DEF SoundFile
  <2> QED BY <1>1, <1>2, <1>4, <2>5, <2>6, <2>7 DEF Delivered, Stages
<1>7. ASSUME Spoil PROVE SystemInv'
  <2>1. /\ SoundFile(file)' /\ UNCHANGED <<stage, database, tail, original, vars>>
        /\ named' \in {named} \cup Tables
    BY <1>7, SpoilKeepsFile DEF Delivered, Stages
  <2>2. stage \in {"draft", "transit"}
    BY <1>7 DEF Spoil, Reorder, Newer, Omit, Repeat, Misname, Foreign, Lose, Truncate,
       Duplicate, Blank, Garble, Rewrite, Alter, Strike
  <2> QED BY <1>1, <1>2, <1>4, <2>1, <2>2 DEF Delivered, Stages
<1>8. ASSUME Seal PROVE SystemInv'
  <2>1. PICK f : f = SealedPack(file, named, tail)
    OBVIOUS
  <2>2. /\ stage = "draft" /\ stage' = "transit" /\ file' = f
        /\ UNCHANGED database /\ UNCHANGED <<named, tail>> /\ UNCHANGED vars
    BY <1>8, <2>1 DEF Seal
  <2>3. SoundFile(f)
    BY <2>1, <2>2, SealedIsSound DEF Delivered, Stages
  <2>4. SoundFile(file)'
    <3>1. SoundFile(f)'
      BY <2>2, <2>3, SoundStable DEF database
    <3> QED BY <2>2, <3>1 DEF SoundFile
  <2> QED BY <1>1, <1>2, <1>4, <2>2, <2>4 DEF Delivered, Stages
<1>9. ASSUME Deliver PROVE SystemInv'
  <2>1. /\ stage = "transit" /\ stage' = "verify" /\ Submit(file)
        /\ UNCHANGED database /\ UNCHANGED <<named, tail, file>>
    BY <1>9 DEF Deliver
  <2>2. IsText(file)
    BY FileIsText DEF Delivered
  <2>3. Inv' /\ Listing'
    BY <2>1, <2>2, StepInv, StepListing
  <2>4. pc' = "parse" /\ pack' = file
    BY <2>1 DEF Submit
  <2> QED BY <1>1, <1>3, <2>1, <2>3, <2>4 DEF Delivered, Stages
<1>10. ASSUME VerifyChain, UNCHANGED system PROVE SystemInv'
  <2>1. UNCHANGED database /\ UNCHANGED <<stage, named, tail, file>>
    BY <1>10 DEF system
  <2>2. Inv' /\ Listing' /\ pc # "idle" /\ pc' # "idle" /\ pack' = pack
    BY <1>10, StepInv, StepListing, NeverBack
  <2> QED BY <1>1, <1>3, <2>1, <2>2 DEF Delivered, Stages
<1>11. ASSUME UNCHANGED <<system, vars>> PROVE SystemInv'
  <2>1. UNCHANGED database /\ UNCHANGED <<stage, named, tail, file>> /\ UNCHANGED vars
    BY <1>11 DEF system
  <2> QED BY <1>1, <1>2, <1>3, <1>4, <2>1 DEF Delivered, Stages
<1> QED BY <1>5, <1>6, <1>7, <1>8, <1>9, <1>10, <1>11 DEF SystemNext

(* Database, Delivered, Inv and Listing hold throughout.                   *)
LEMMA SystemInvariant == SystemSpec => []SystemInv
  BY InitSystem, StepSystem, PTL DEF SystemSpec

-----------------------------------------------------------------------------
(* The anchors of an accepted pack *)

(* Signed alike: equal but for the number of the anchor. *)
Same(a, b) ==
    /\ [a EXCEPT !.id = None] = [b EXCEPT !.id = None]
    /\ a.from_seq = b.from_seq /\ a.to_seq = b.to_seq /\ a.chain_head = b.chain_head

(* A signature over one table's anchor is over no other table and no other *)
(* anchor.                                                                 *)
LEMMA SignatureBinds ==
    ASSUME NEW alg, NEW key, NEW alg2, NEW key2, NEW t, NEW u, NEW a, NEW b,
           Sign(alg, key, ChainAnchorPayloadHash(t, a)) =
               Sign(alg2, key2, ChainAnchorPayloadHash(u, b))
    PROVE  /\ alg = alg2 /\ t = u
           /\ a.from_seq = b.from_seq /\ a.to_seq = b.to_seq /\ a.row_count = b.row_count
           /\ a.chain_head = b.chain_head /\ a.prev_anchor_id = b.prev_anchor_id
           /\ a.prev_head = b.prev_head
<1>1. alg = alg2 /\ ChainAnchorPayloadHash(t, a) = ChainAnchorPayloadHash(u, b)
  BY DEF Sign
<1>2. <<CHAIN_ANCHOR_PAYLOAD_VERSION, CHAIN_ANCHOR_KIND, t, a.from_seq,
        a.to_seq, a.row_count, a.chain_head, a.prev_anchor_id, a.prev_head>> =
      <<CHAIN_ANCHOR_PAYLOAD_VERSION, CHAIN_ANCHOR_KIND, u, b.from_seq,
        b.to_seq, b.row_count, b.chain_head, b.prev_anchor_id, b.prev_head>>
  BY <1>1 DEF ChainAnchorPayloadHash, Sha256
<1> QED BY <1>1, <1>2

(* An anchor whose signature verifies is one the worker issued, for the    *)
(* very table the header names.                                            *)
LEMMA VerifiedIsIssued ==
    ASSUME Database, NEW a, SoundAnchor(a), AnchorSignatureOK(a), header # None
    PROVE  /\ header.table \in Tables
           /\ \E n \in 1..Len(issued[header.table]) : Same(a, issued[header.table][n])
<1>1. PICK k : k = KeyById(a.signing_key_id)
  OBVIOUS
<1>2. /\ a.signature # NotHex
      /\ a.signature = Sign(a.sig_alg, k.public_key_hex,
                            ChainAnchorPayloadHash(header.table, a))
  BY <1>1 DEF AnchorSignatureOK, SignatureValid, Table
<1>3. PICK t \in Tables, n \in Nat :
          n \in 1..Len(issued[t]) /\ a.signature = issued[t][n].signature
  <2>1. PICK t \in Tables : \E n \in 1..Len(issued[t]) : a.signature = issued[t][n].signature
    BY <1>2 DEF SoundAnchor, Genuine
  <2> QED BY <2>1
<1>4. PICK b : b = issued[t][n]
  OBVIOUS
<1>5. /\ IsAnchor(b) /\ b.signing_key_id = AnchorKey /\ b.sig_alg = "ed25519"
      /\ b.signature = Sign("ed25519", AnchorKey, ChainAnchorPayloadHash(t, b))
  <2>1. Sealing(t, n)
    BY <1>3 DEF Database, Issued
  <2> QED BY <1>4, <2>1 DEF Sealing
<1>6. /\ a.sig_alg = "ed25519" /\ header.table = t
      /\ a.from_seq = b.from_seq /\ a.to_seq = b.to_seq /\ a.row_count = b.row_count
      /\ a.chain_head = b.chain_head /\ a.prev_anchor_id = b.prev_anchor_id
      /\ a.prev_head = b.prev_head
  <2>1. Sign(a.sig_alg, k.public_key_hex, ChainAnchorPayloadHash(header.table, a)) =
            Sign("ed25519", AnchorKey, ChainAnchorPayloadHash(t, b))
    BY <1>2, <1>3, <1>4, <1>5
  <2>2. PICK g, h, u : g = a.sig_alg /\ h = k.public_key_hex /\ u = header.table
    OBVIOUS
  <2>3. Sign(g, h, ChainAnchorPayloadHash(u, a)) =
            Sign("ed25519", AnchorKey, ChainAnchorPayloadHash(t, b))
    BY <2>1, <2>2
  <2> QED BY <2>2, <2>3, SignatureBinds
<1>7. Same(a, b)
  <2>1. a.signing_key_id = b.signing_key_id /\ a.signature = b.signature
    BY <1>3, <1>4, <1>5 DEF SoundAnchor
  <2>2. b.sig_alg = a.sig_alg
    BY <1>5, <1>6
  <2>3. IsAnchor(a) /\ IsAnchor(b)
    BY <1>5 DEF SoundAnchor
  <2> QED BY <1>6, <2>1, <2>2, <2>3 DEF Same, IsAnchor
<1> QED BY <1>3, <1>4, <1>6, <1>7

(* What the lines of an accepted pack are. *)
LEMMA AcceptedLines ==
    ASSUME SystemInv, Accepted
    PROVE  /\ pack = file /\ SoundFile(pack)
           /\ \A r \in Bodies("chain_row") : SoundRow(r)
           /\ \A a \in Bodies("chain_anchor") : SoundAnchor(a)
           /\ rows \in Seq(Bodies("chain_row")) /\ anchors \in Seq(Bodies("chain_anchor"))
           /\ \A i \in DOMAIN rows : InWidth(rows[i].chain_seq) /\ rows[i].chain_seq \in Int
           /\ \A i \in DOMAIN anchors : anchors[i].id \in Int
           /\ Bodies("chain_row") = {rows[i] : i \in DOMAIN rows}
           /\ Bodies("chain_anchor") = {anchors[i] : i \in DOMAIN anchors}
<1>1. pack = file /\ SoundFile(pack)
  BY DEF SystemInv, Delivered, Stages, Accepted
<1>2. \A i \in DOMAIN pack : Sound(pack[i])
  BY <1>1 DEF SoundFile
<1>3. /\ \A r \in Bodies("chain_row") : SoundRow(r)
      /\ \A a \in Bodies("chain_anchor") : SoundAnchor(a)
  BY <1>2 DEF Bodies, LinesOf, Sound
<1>4. /\ rows \in Seq(Bodies("chain_row")) /\ anchors \in Seq(Bodies("chain_anchor"))
      /\ \A i \in LinesOf("chain_row") : \E k \in DOMAIN rows : rows[k] = pack[i].body
      /\ \A i \in LinesOf("chain_anchor") : \E k \in DOMAIN anchors : anchors[k] = pack[i].body
  BY AtReport DEF SystemInv, Inv, Loaded, Lists
<1>5. \A i \in DOMAIN rows : InWidth(rows[i].chain_seq) /\ rows[i].chain_seq \in Int
  BY <1>3, <1>4, NoWrap DEF SoundRow
<1>6. \A i \in DOMAIN anchors : anchors[i].id \in Int
  BY <1>3, <1>4 DEF SoundAnchor
<1>7. Bodies("chain_row") = {rows[i] : i \in DOMAIN rows}
  BY <1>4 DEF Bodies
<1>8. Bodies("chain_anchor") = {anchors[i] : i \in DOMAIN anchors}
  BY <1>4 DEF Bodies
<1> QED BY <1>1, <1>3, <1>4, <1>5, <1>6, <1>7, <1>8

(* The ranges of a table's anchors go up. *)
LEMMA RangesAscend ==
    ASSUME Database, NEW t \in Tables
    PROVE  /\ Len(issued[t]) \in Nat /\ DOMAIN issued[t] = 1..Len(issued[t])
           /\ \A n \in 1..Len(issued[t]) :
                 /\ issued[t][n].from_seq \in Nat \ {0} /\ issued[t][n].to_seq \in Nat
                 /\ issued[t][n].from_seq <= issued[t][n].to_seq
                 /\ issued[t][n].to_seq <= MaxInt
                 /\ issued[t][n].to_seq \in 1..Len(log[t])
                 /\ issued[t][n].chain_head = log[t][issued[t][n].to_seq].entry_hash
           /\ \A m, n \in 1..Len(issued[t]) : m < n =>
                 issued[t][m].to_seq < issued[t][n].from_seq
           /\ \A n \in 2..Len(issued[t]) : issued[t][n].from_seq = issued[t][n-1].to_seq + 1
<1>1. Logged(t) /\ Issued(t)
  BY DEF Database
<1>2. Len(issued[t]) \in Nat /\ DOMAIN issued[t] = 1..Len(issued[t])
  BY <1>1 DEF Issued, IsListOf
<1>3. Len(log[t]) \in Nat /\ Len(log[t]) <= MaxInt /\ MaxInt \in Int
  BY <1>1, WritesAssumption, WidthAssumption DEF Logged
<1>4. ASSUME NEW n \in 1..Len(issued[t])
      PROVE  /\ issued[t][n].from_seq \in Nat \ {0} /\ issued[t][n].to_seq \in Nat
             /\ issued[t][n].from_seq <= issued[t][n].to_seq
             /\ issued[t][n].to_seq <= MaxInt
             /\ issued[t][n].to_seq \in 1..Len(log[t])
             /\ issued[t][n].chain_head = log[t][issued[t][n].to_seq].entry_hash
             /\ n # 1 => issued[t][n].from_seq = issued[t][n-1].to_seq + 1
  <2>1. Sealing(t, n)
    BY <1>1 DEF Issued
  <2>2. PICK f, l, m : f = issued[t][n].from_seq /\ l = issued[t][n].to_seq /\ m = Len(log[t])
    OBVIOUS
  <2>3. f \in Nat \ {0} /\ l \in f..m
    BY <2>1, <2>2 DEF Sealing
  <2>4. l \in Nat /\ f <= l /\ l <= MaxInt /\ l \in 1..m
    BY <1>3, <2>2, <2>3
  <2> QED BY <2>1, <2>2, <2>3, <2>4 DEF Sealing
<1>5. \A n \in 2..Len(issued[t]) : n # 1 /\ n \in 1..Len(issued[t])
  BY <1>2
<1> QED BY <1>1, <1>2, <1>4, <1>5 DEF Issued

(* The anchors of an accepted pack, in the order of their ids, are anchors *)
(* i, i + 1, ... of the table.                                             *)
LEMMA AnchorsInARow ==
    ASSUME SystemInv, Accepted, anchors # <<>>
    PROVE  /\ header # None /\ header.table \in Tables
           /\ Len(anchors) \in Nat \ {0} /\ DOMAIN anchors = 1..Len(anchors)
           /\ \E i \in Nat \ {0} :
                 /\ i + Len(anchors) - 1 <= Len(issued[header.table])
                 /\ \A k \in 1..Len(anchors) :
                       Same(AnchorsById[k], issued[header.table][i + k - 1])
<1>1. PICK t, m, b : t = header.table /\ m = Len(anchors) /\ b = AnchorsById
  OBVIOUS
<1>2. /\ \A k \in 1..m : \E i \in DOMAIN anchors : b[k] = anchors[i]
      /\ m \in Nat \ {0} /\ DOMAIN anchors = 1..m
  <2>1. /\ anchors \in Seq(Bodies("chain_anchor"))
        /\ \A i \in DOMAIN anchors : anchors[i].id \in Int
    BY AcceptedLines
  <2>2. m \in Nat \ {0}
    BY <1>1, <2>1
  <2> QED BY <1>1, <2>1, <2>2, AnchorsSorted
<1>3. /\ header # None /\ AnchorsVerify
      /\ \A k \in 2..m : b[k].from_seq = I64(b[k-1].to_seq + 1)
  <2>1. HeaderIsChain /\ AnchorsVerify /\ HeadsBind
    BY AtReport DEF SystemInv
  <2>2. \A k \in 2..m : k \in DOMAIN anchors /\ k # 1
    BY <1>2
  <2> QED BY <1>1, <2>1, <2>2 DEF HeaderIsChain, HeadsBind, Tiles
<1>4. ASSUME NEW k \in 1..m
      PROVE  t \in Tables /\ \E n \in 1..Len(issued[t]) : Same(b[k], issued[t][n])
  <2>1. PICK i \in DOMAIN anchors : b[k] = anchors[i]
    BY <1>2
  <2>2. SoundAnchor(anchors[i]) /\ AnchorSignatureOK(anchors[i])
    BY <1>3, AcceptedLines DEF AnchorsVerify
  <2> QED BY <1>1, <1>3, <2>1, <2>2, VerifiedIsIssued DEF SystemInv
<1>5. t \in Tables
  <2>1. 1 \in 1..m
    BY <1>2
  <2> QED BY <1>4, <2>1
<1>6. PICK s, l : s = issued[t] /\ l = Len(issued[t])
  OBVIOUS
<1>7. /\ l \in Nat
      /\ \A n \in 1..l : /\ s[n].from_seq \in Nat \ {0} /\ s[n].to_seq \in Nat
                         /\ s[n].from_seq <= s[n].to_seq /\ s[n].to_seq <= MaxInt
      /\ \A i, n \in 1..l : i < n => s[i].to_seq < s[n].from_seq
      /\ \A n \in 2..l : s[n].from_seq = s[n-1].to_seq + 1
  BY <1>5, <1>6, RangesAscend DEF SystemInv
<1>8. PICK d : d = [k \in 1..m |-> CHOOSE n \in 1..l : Same(b[k], s[n])]
  OBVIOUS
<1>9. \A k \in 1..m : d[k] \in 1..l /\ Same(b[k], s[d[k]])
  BY <1>4, <1>6, <1>8
<1>10. ASSUME NEW k \in 1..m, k < m PROVE d[k + 1] = d[k] + 1
  <2>1. k + 1 \in 2..m /\ k + 1 \in 1..m /\ (k + 1) - 1 = k
    BY <1>2, <1>10
  <2>2. PICK p, q : p = d[k] /\ q = d[k + 1]
    OBVIOUS
  <2>3. p \in 1..l /\ q \in 1..l /\ s[q].from_seq = I64(s[p].to_seq + 1)
    <3>1. PICK j : j = k + 1
      OBVIOUS
    <3>2. b[j].from_seq = I64(b[j-1].to_seq + 1) /\ j - 1 = k
      BY <1>3, <2>1, <3>1
    <3>3. Same(b[k], s[p]) /\ Same(b[j], s[q])
      BY <1>9, <2>1, <2>2, <3>1
    <3>4. p \in 1..l /\ q \in 1..l
      BY <1>9, <2>1, <2>2
    <3> QED BY <3>2, <3>3, <3>4 DEF Same
  <2>4. PICK x, y : x = s[p].to_seq /\ y = s[q].from_seq
    OBVIOUS
  <2>5. x \in Nat /\ y \in Nat \ {0} /\ x <= MaxInt /\ y = I64(x + 1)
    BY <1>7, <2>3, <2>4
  <2>6. y = x + 1
    <3>1. CASE x = MaxInt
      BY <2>5, <3>1, Wraps
    <3>2. CASE x # MaxInt
      <4>1. InWidth(x + 1)
        BY <2>5, <3>2, Wraps DEF InWidth, MinInt
      <4> QED BY <2>5, <4>1, NoWrap
    <3> QED BY <3>1, <3>2
  <2>7. ~(q < p)
    <3> SUFFICES ASSUME q < p PROVE FALSE
      OBVIOUS
    <3>1. PICK u, v : u = s[q].to_seq /\ v = s[p].from_seq
      OBVIOUS
    <3>2. u < v /\ y <= u /\ v <= x /\ u \in Int /\ v \in Int
      BY <1>7, <2>3, <2>4, <3>1
    <3> QED BY <2>5, <2>6, <3>2
  <2>8. q # p
    <3> SUFFICES ASSUME q = p PROVE FALSE
      OBVIOUS
    <3>1. y <= x
      BY <1>7, <2>3, <2>4
    <3> QED BY <2>5, <2>6, <3>1
  <2>9. ~(p + 1 < q)
    <3> SUFFICES ASSUME p + 1 < q PROVE FALSE
      OBVIOUS
    <3>1. p + 1 \in 1..l /\ p + 1 \in 2..l /\ (p + 1) - 1 = p
      BY <1>7, <2>3
    <3>2. PICK u, v : u = s[p + 1].to_seq /\ v = s[p + 1].from_seq
      OBVIOUS
    <3>3. u < y /\ v = x + 1 /\ v <= u /\ u \in Int
      BY <1>7, <2>3, <2>4, <3>1, <3>2
    <3> QED BY <2>5, <2>6, <3>3
  <2>10. q = p + 1
    <3>1. p \in Int /\ q \in Int
      BY <1>7, <2>3
    <3> QED BY <2>7, <2>8, <2>9, <3>1
  <2> QED BY <2>2, <2>10
<1>11. PICK i : i = d[1]
  OBVIOUS
<1>12. 1 \in 1..m /\ m \in 1..m /\ i \in 1..l
  BY <1>2, <1>9, <1>11
<1>13. \A k \in 1..m : d[k] = i + k - 1
  <2> DEFINE T == {k \in 1..m : d[k] = i + k - 1}
  <2>1. 1 \in T
    BY <1>11, <1>12
  <2>2. ASSUME NEW k \in 1..m, k < m, k \in T PROVE k + 1 \in T
    <3>1. k + 1 \in 1..m /\ d[k + 1] = i + k - 1 + 1
      <4>1. d[k + 1] = d[k] + 1 /\ d[k] = i + k - 1
        BY <1>10, <2>2
      <4> QED BY <1>2, <2>2, <4>1
    <3> QED BY <1>12, <3>1
  <2> HIDE DEF T
  <2>3. \A k \in 1..m : k \in T
    BY <1>2, <2>1, <2>2, InductiveTo
  <2> QED BY <2>3 DEF T
<1>14. i \in Nat \ {0} /\ i + m - 1 <= l
  <2>1. d[m] \in 1..l /\ d[m] = i + m - 1
    BY <1>9, <1>12, <1>13
  <2> QED BY <1>7, <1>12, <2>1
<1>15. \A k \in 1..m : Same(b[k], s[i + k - 1])
  BY <1>9, <1>13
<1> QED BY <1>1, <1>2, <1>3, <1>5, <1>6, <1>14, <1>15

(* Every accepted anchor was issued for the table the pack names, and none *)
(* is left out between the first and the last (chain.rs:21-23, 28-29).     *)
THEOREM AcceptedAnchorsIssued == SystemSpec => []AnchorsIssued
<1>1. ASSUME SystemInv PROVE AnchorsIssued
  <2> DEFINE SignedPart(a) == [a EXCEPT !.id = None]
  <2> SUFFICES ASSUME Accepted, Bodies("chain_anchor") # {}
               PROVE  \E i, j \in DOMAIN issued[header.table] :
                          {SignedPart(a) : a \in Bodies("chain_anchor")} =
                          {SignedPart(issued[header.table][k]) : k \in i..j}
    BY DEF AnchorsIssued
  <2>1. PICK t, m, b, s : /\ t = header.table /\ m = Len(anchors) /\ b = AnchorsById
                          /\ s = issued[header.table]
    OBVIOUS
  <2>2. /\ Bodies("chain_anchor") = {anchors[k] : k \in DOMAIN anchors}
        /\ anchors \in Seq(Bodies("chain_anchor"))
        /\ \A k \in DOMAIN anchors : anchors[k].id \in Int
    BY <1>1, AcceptedLines
  <2>3. anchors # <<>>
    BY <2>2
  <2>4. PICK i \in Nat \ {0} : /\ i + m - 1 <= Len(s)
                               /\ \A k \in 1..m : Same(b[k], s[i + k - 1])
    BY <1>1, <2>1, <2>3, AnchorsInARow
  <2>5. t \in Tables /\ m \in Nat \ {0} /\ DOMAIN anchors = 1..m
    BY <1>1, <2>1, <2>3, AnchorsInARow
  <2>6. Len(s) \in Nat /\ DOMAIN s = 1..Len(s)
    BY <1>1, <2>1, <2>5, RangesAscend DEF SystemInv
  <2>7. PICK j : j = i + m - 1
    OBVIOUS
  <2>8. i \in DOMAIN s /\ j \in DOMAIN s
    BY <2>4, <2>5, <2>6, <2>7
  <2>9. /\ \A k \in 1..m : \E n \in DOMAIN anchors : b[k] = anchors[n]
        /\ \A n \in DOMAIN anchors : \E k \in 1..m : b[k] = anchors[n]
    BY <2>1, <2>2, AnchorsSorted
  <2>10. \A k \in 1..m : SignedPart(b[k]) = SignedPart(s[i + k - 1])
    BY <2>4 DEF Same
  <2> HIDE DEF SignedPart
  <2>11. ASSUME NEW a \in Bodies("chain_anchor")
         PROVE  \E k \in i..j : SignedPart(a) = SignedPart(s[k])
    <3>1. PICK n \in 1..m : b[n] = a
      <4>1. PICK o \in DOMAIN anchors : anchors[o] = a
        BY <2>2
      <4> QED BY <2>9, <4>1
    <3>2. i + n - 1 \in i..j
      BY <2>5, <2>7
    <3> QED BY <2>10, <3>1, <3>2
  <2>12. ASSUME NEW k \in i..j
         PROVE  \E a \in Bodies("chain_anchor") : SignedPart(a) = SignedPart(s[k])
    <3>1. PICK n : n = k - i + 1
      OBVIOUS
    <3>2. n \in 1..m /\ i + n - 1 = k
      BY <2>5, <2>7, <3>1
    <3>3. b[n] \in Bodies("chain_anchor")
      BY <2>2, <2>9, <3>2
    <3> QED BY <2>10, <3>2, <3>3
  <2>13. /\ {SignedPart(a) : a \in Bodies("chain_anchor")} =
                {SignedPart(issued[header.table][k]) : k \in i..j}
         /\ i \in DOMAIN issued[header.table] /\ j \in DOMAIN issued[header.table]
    BY <2>1, <2>8, <2>11, <2>12
  <2> QED BY <2>13
<1> QED BY <1>1, SystemInvariant, PTL

-----------------------------------------------------------------------------
(* The rows of an accepted pack *)

(* A digest or Genesis: one token. *)
LEMMA OneToken ==
    /\ IsListOf(Genesis) /\ Len(Genesis) = 1
    /\ \A p, c : IsListOf(EntryHash(p, c)) /\ Len(EntryHash(p, c)) = 1
    /\ \A p, c : EntryHash(p, c) # Genesis
<1>1. \A x : IsListOf(<<x>>) /\ Len(<<x>>) = 1
  <2> TAKE x
  <2>1. <<x>> \in Seq({x})
    OBVIOUS
  <2> QED BY <2>1, AnyList
<1>2. \A x, y : [sha256 |-> x] # [byte |-> y]
  OBVIOUS
<1>3. \A p, c : EntryHash(p, c) # Genesis
  <2> TAKE p, c
  <2>1. PICK x, y : x = [sha256 |-> p \o c] /\ y = [byte |-> 0]
    OBVIOUS
  <2>2. x # y
    BY <1>2, <2>1
  <2>3. <<x>> # <<y>>
    BY <2>2
  <2> QED BY <2>1, <2>3 DEF EntryHash, Genesis, Sha256
<1> QED BY <1>1, <1>3 DEF EntryHash, Genesis

(* Equal hashes are of equal messages. *)
LEMMA HashBinds ==
    ASSUME NEW p, NEW c, NEW q, NEW d, EntryHash(p, c) = EntryHash(q, d)
    PROVE  p \o c = q \o d
<1>1. PICK u, v : u = p \o c /\ v = q \o d
  OBVIOUS
<1>2. <<[sha256 |-> u]>> = <<[sha256 |-> v]>>
  BY <1>1 DEF EntryHash, Sha256
<1>3. u = v
  BY <1>2
<1> QED BY <1>1, <1>3

(* A row of a table: what its hash is of, and that this begins with one    *)
(* token.                                                                  *)
LEMMA HeldRow ==
    ASSUME Database, NEW t \in Tables, NEW n \in 1..Len(log[t])
    PROVE  /\ log[t][n].entry_hash = EntryHash(log[t][n].prev_hash, log[t][n].canonical)
           /\ log[t][n].prev_hash = IF n = 1 THEN Genesis ELSE log[t][n-1].entry_hash
           /\ IsListOf(log[t][n].prev_hash) /\ Len(log[t][n].prev_hash) = 1
           /\ IsListOf(log[t][n].canonical)
<1>1. Logged(t) /\ Len(log[t]) \in Nat
  BY DEF Database, Logged, IsListOf
<1>2. ASSUME NEW k \in 1..Len(log[t])
      PROVE  /\ log[t][k].entry_hash = EntryHash(log[t][k].prev_hash, log[t][k].canonical)
             /\ log[t][k].prev_hash = IF k = 1 THEN Genesis ELSE log[t][k-1].entry_hash
  <2>1. PICK p, c : /\ p = (IF k = 1 THEN Genesis ELSE log[t][k-1].entry_hash)
                    /\ c = Writes[t][k]
    OBVIOUS
  <2>2. log[t][k] = Row(k, p, c)
    BY <1>1, <2>1 DEF Logged
  <2> QED BY <2>1, <2>2 DEF Row
<1>3. IsListOf(log[t][n].prev_hash) /\ Len(log[t][n].prev_hash) = 1
  <2>1. CASE n = 1
    BY <1>2, <2>1, OneToken
  <2>2. CASE n # 1
    <3>1. n - 1 \in 1..Len(log[t])
      BY <1>1, <2>2
    <3>2. PICK k : k = n - 1
      OBVIOUS
    <3>3. log[t][k].entry_hash = EntryHash(log[t][k].prev_hash, log[t][k].canonical)
      BY <1>2, <3>1, <3>2
    <3>4. log[t][n].prev_hash = log[t][k].entry_hash
      BY <1>2, <2>2, <3>2
    <3> QED BY <3>3, <3>4, OneToken
  <2> QED BY <2>1, <2>2
<1>4. IsListOf(log[t][n].canonical)
  BY LoggedIsSound DEF SoundRow
<1> QED BY <1>2, <1>3, <1>4

(* The rows of an accepted pack in their order. *)
LEMMA RowsInARow ==
    ASSUME SystemInv, Accepted
    PROVE  /\ Len(rows) \in Nat /\ DOMAIN rows = 1..Len(rows)
           /\ \A k \in 1..Len(rows) :
                 /\ InOrder[k] \in Bodies("chain_row")
                 /\ InOrder[k].chain_seq \in Int
                 /\ InOrder[k].chain_seq = InOrder[1].chain_seq + k - 1
                 /\ InOrder[k].entry_hash = EntryHash(InOrder[k].prev_hash, InOrder[k].canonical)
                 /\ IsListOf(InOrder[k].canonical)
           /\ \A k \in 2..Len(rows) : InOrder[k].prev_hash = InOrder[k-1].entry_hash
           /\ Len(rows) > 0 /\ InOrder[1].chain_seq = 1 => InOrder[1].prev_hash = Genesis
           /\ \A r \in Bodies("chain_row") : \E k \in 1..Len(rows) : InOrder[k] = r
<1>1. /\ rows \in Seq(Bodies("chain_row"))
      /\ \A i \in DOMAIN rows : InWidth(rows[i].chain_seq) /\ rows[i].chain_seq \in Int
      /\ Bodies("chain_row") = {rows[i] : i \in DOMAIN rows}
      /\ \A r \in Bodies("chain_row") : SoundRow(r)
  BY AcceptedLines
<1>2. RowsRecompute /\ RowsLink
  BY AtReport DEF SystemInv
<1>3. /\ Len(rows) \in Nat /\ DOMAIN rows = 1..Len(rows)
      /\ \A k \in 1..Len(rows) : \E i \in DOMAIN rows : InOrder[k] = rows[i]
      /\ \A i \in DOMAIN rows : \E k \in 1..Len(rows) : InOrder[k] = rows[i]
  BY <1>1, RowsSorted
<1>4. \A k \in 1..Len(rows) : /\ InOrder[k].chain_seq \in Int
                              /\ InOrder[k].chain_seq = InOrder[1].chain_seq + k - 1
  BY <1>1, <1>2, RowsNumbered
<1>5. ASSUME NEW k \in 1..Len(rows)
      PROVE  /\ InOrder[k] \in Bodies("chain_row")
             /\ InOrder[k].entry_hash = EntryHash(InOrder[k].prev_hash, InOrder[k].canonical)
             /\ IsListOf(InOrder[k].canonical)
  <2>1. PICK i \in DOMAIN rows : InOrder[k] = rows[i]
    BY <1>3
  <2>2. rows[i] \in Bodies("chain_row") /\ RowRecomputes(rows[i])
    BY <1>1, <1>2 DEF RowsRecompute
  <2> QED BY <1>1, <2>1, <2>2 DEF RowRecomputes, SoundRow
<1>6. \A k \in 2..Len(rows) : InOrder[k].prev_hash = InOrder[k-1].entry_hash
  BY <1>2 DEF RowsLink, Follows
<1>7. Len(rows) > 0 /\ InOrder[1].chain_seq = 1 => InOrder[1].prev_hash = Genesis
  BY <1>1, <1>2 DEF RowsLink, StartsCleanly
<1>8. ASSUME NEW r \in Bodies("chain_row") PROVE \E k \in 1..Len(rows) : InOrder[k] = r
  <2>1. PICK i \in DOMAIN rows : rows[i] = r
    BY <1>1
  <2> QED BY <1>3, <2>1
<1> QED BY <1>3, <1>4, <1>5, <1>6, <1>7, <1>8

(* Row k of the pack has the hash of the row the table holds at its number.*)
Held(t, k) ==
    /\ InOrder[k].chain_seq \in 1..Len(log[t])
    /\ InOrder[k].entry_hash = log[t][InOrder[k].chain_seq].entry_hash

(* A row with the hash of the table's has its bytes, and if another is     *)
(* before it, that has the hash of the one before in the table.            *)
LEMMA HeldBefore ==
    ASSUME SystemInv, Accepted, NEW t \in Tables, NEW k \in 1..Len(rows), Held(t, k)
    PROVE  LET r == InOrder[k]
               h == log[t][r.chain_seq]
           IN  /\ r.prev_hash \o r.canonical = h.prev_hash \o h.canonical
               /\ k # 1 \/ r.chain_seq = 1 => r.canonical = h.canonical
               /\ k # 1 => Held(t, k - 1)
<1>1. PICK r, n, h : r = InOrder[k] /\ n = r.chain_seq /\ h = log[t][n]
  OBVIOUS
<1>2. n \in 1..Len(log[t]) /\ r.entry_hash = h.entry_hash
  BY <1>1 DEF Held
<1>3. /\ h.entry_hash = EntryHash(h.prev_hash, h.canonical)
      /\ h.prev_hash = IF n = 1 THEN Genesis ELSE log[t][n-1].entry_hash
      /\ IsListOf(h.prev_hash) /\ Len(h.prev_hash) = 1 /\ IsListOf(h.canonical)
  BY <1>1, <1>2, HeldRow DEF SystemInv
<1>4. r.entry_hash = EntryHash(r.prev_hash, r.canonical) /\ IsListOf(r.canonical)
  BY <1>1, RowsInARow
<1>5. r.prev_hash \o r.canonical = h.prev_hash \o h.canonical
  <2>1. PICK p, c, q, d : /\ p = r.prev_hash /\ c = r.canonical
                          /\ q = h.prev_hash /\ d = h.canonical
    OBVIOUS
  <2>2. EntryHash(p, c) = EntryHash(q, d)
    BY <1>2, <1>3, <1>4, <2>1
  <2>3. p \o c = q \o d
    BY <2>2, HashBinds
  <2> QED BY <2>1, <2>3
<1>6. k # 1 => /\ r.prev_hash = InOrder[k-1].entry_hash
               /\ InOrder[k-1].entry_hash =
                    EntryHash(InOrder[k-1].prev_hash, InOrder[k-1].canonical)
               /\ InOrder[k-1].chain_seq = n - 1
  <2> SUFFICES ASSUME k # 1
               PROVE /\ r.prev_hash = InOrder[k-1].entry_hash
                     /\ InOrder[k-1].entry_hash =
                          EntryHash(InOrder[k-1].prev_hash, InOrder[k-1].canonical)
                     /\ InOrder[k-1].chain_seq = n - 1
    OBVIOUS
  <2>1. Len(rows) \in Nat
    BY RowsInARow
  <2>2. PICK j, f : j = k - 1 /\ f = InOrder[1].chain_seq
    OBVIOUS
  <2>3. j \in 1..Len(rows) /\ k \in 2..Len(rows) /\ 1 \in 1..Len(rows)
    BY <2>1, <2>2
  <2>4. r.prev_hash = InOrder[j].entry_hash
    BY <1>1, <2>2, <2>3, RowsInARow
  <2>5. InOrder[j].entry_hash = EntryHash(InOrder[j].prev_hash, InOrder[j].canonical)
    BY <2>3, RowsInARow
  <2>6. InOrder[j].chain_seq = f + j - 1 /\ n = f + k - 1 /\ f \in Int
    BY <1>1, <2>2, <2>3, RowsInARow
  <2>7. n - 1 = f + j - 1
    <3>1. k = j + 1 /\ k \in Int /\ j \in Int /\ f \in Int /\ n = f + k - 1
      BY <2>1, <2>2, <2>3, <2>6
    <3> QED BY ONLY <3>1
  <2> QED BY <2>2, <2>4, <2>5, <2>6, <2>7
<1>7. k # 1 \/ n = 1 => IsListOf(r.prev_hash) /\ Len(r.prev_hash) = 1
  <2>1. CASE k # 1
    BY <1>6, <2>1, OneToken
  <2>2. CASE k = 1 /\ n = 1
    <3>1. Len(rows) > 0
      BY RowsInARow
    <3> QED BY <1>1, <2>2, <3>1, RowsInARow, OneToken
  <2> QED BY <2>1, <2>2
<1>8. k # 1 \/ n = 1 => r.prev_hash = h.prev_hash /\ r.canonical = h.canonical
  <2> SUFFICES ASSUME k # 1 \/ n = 1
               PROVE  r.prev_hash = h.prev_hash /\ r.canonical = h.canonical
    OBVIOUS
  <2>1. PICK p, c, q, d : /\ p = r.prev_hash /\ c = r.canonical
                          /\ q = h.prev_hash /\ d = h.canonical
    OBVIOUS
  <2>2. /\ IsListOf(p) /\ IsListOf(q) /\ Len(p) = 1 /\ Len(q) = 1
        /\ IsListOf(c) /\ IsListOf(d) /\ SameBytes(p, c, q, d)
    BY <1>3, <1>4, <1>5, <1>7, <2>1 DEF SameBytes
  <2>3. p = q /\ c = d
    BY <2>2, CancelHead
  <2> QED BY <2>1, <2>3
<1>9. k # 1 => n # 1
  <2>1. k # 1 => h.prev_hash = InOrder[k-1].entry_hash
    BY <1>6, <1>8
  <2> QED BY <1>3, <1>6, <2>1, OneToken
<1>10. k # 1 => Held(t, k - 1)
  <2> SUFFICES ASSUME k # 1 PROVE Held(t, k - 1)
    OBVIOUS
  <2>1. PICK j, p : j = k - 1 /\ p = n - 1
    OBVIOUS
  <2>2. InOrder[j].chain_seq = p /\ InOrder[j].entry_hash = log[t][p].entry_hash
    BY <1>3, <1>6, <1>8, <1>9, <2>1
  <2>3. p \in 1..Len(log[t])
    <3>1. Len(log[t]) \in Nat
      BY DEF SystemInv, Database, Logged, IsListOf
    <3> QED BY <1>2, <1>9, <2>1, <3>1
  <2> QED BY <2>1, <2>2, <2>3 DEF Held
<1> QED BY <1>1, <1>5, <1>8, <1>10

(* The head of an accepted anchor is a row of the pack that is held.       *)
LEMMA HeadIsHeld ==
    ASSUME SystemInv, Accepted, NEW a \in Bodies("chain_anchor")
    PROVE  /\ header.table \in Tables
           /\ \E k \in 1..Len(rows) : /\ InOrder[k].chain_seq = a.to_seq
                                      /\ Held(header.table, k)
<1>1. /\ rows \in Seq(Bodies("chain_row")) /\ anchors \in Seq(Bodies("chain_anchor"))
      /\ \A i \in DOMAIN rows : rows[i].chain_seq \in Int
      /\ \A i \in DOMAIN anchors : anchors[i].id \in Int
      /\ Bodies("chain_anchor") = {anchors[i] : i \in DOMAIN anchors}
  BY AcceptedLines
<1>2. PICK o \in DOMAIN anchors : anchors[o] = a
  BY <1>1
<1>3. anchors # <<>>
  BY <1>2
<1>4. PICK j \in 1..Len(anchors) : AnchorsById[j] = a
  BY <1>1, <1>2, AnchorsSorted
<1>5. PICK t : t = header.table
  OBVIOUS
<1>6. PICK i \in Nat \ {0} :
          /\ i + Len(anchors) - 1 <= Len(issued[t])
          /\ \A k \in 1..Len(anchors) : Same(AnchorsById[k], issued[t][i + k - 1])
  BY <1>3, <1>5, AnchorsInARow
<1>7. t \in Tables /\ Len(anchors) \in Nat \ {0} /\ DOMAIN anchors = 1..Len(anchors)
  BY <1>3, <1>5, AnchorsInARow
<1>8. PICK b : b = issued[t][i + j - 1]
  OBVIOUS
<1>9. a.to_seq = b.to_seq /\ a.chain_head = b.chain_head
  BY <1>4, <1>6, <1>8 DEF Same
<1>10. i + j - 1 \in 1..Len(issued[t])
  BY <1>6, <1>7, RangesAscend DEF SystemInv
<1>11. b.to_seq \in 1..Len(log[t]) /\ b.chain_head = log[t][b.to_seq].entry_hash
  BY <1>7, <1>8, <1>10, RangesAscend DEF SystemInv
<1>12. BindsHead(a)
  <2>1. HeadsBind
    BY AtReport DEF SystemInv
  <2> QED BY <1>4, <1>7, <2>1 DEF HeadsBind
<1>13. PICK k \in 1..Len(rows) : /\ InOrder[k].chain_seq = a.to_seq
                                 /\ InOrder[k].entry_hash = a.chain_head
  BY <1>1, <1>12, HeadIsRow
<1>14. Held(t, k)
  BY <1>9, <1>11, <1>13 DEF Held
<1> QED BY <1>5, <1>7, <1>13, <1>14

(* So are all rows up to it. *)
LEMMA AttestedIsHeld ==
    ASSUME SystemInv, Accepted, NEW a \in Bodies("chain_anchor"),
           NEW k \in 1..Len(rows), InOrder[k].chain_seq <= a.to_seq
    PROVE  Held(header.table, k)
<1>1. PICK t, f, n : t = header.table /\ f = InOrder[1].chain_seq /\ n = Len(rows)
  OBVIOUS
<1>2. t \in Tables
  BY <1>1, HeadIsHeld
<1>3. PICK h \in 1..n : InOrder[h].chain_seq = a.to_seq /\ Held(t, h)
  BY <1>1, HeadIsHeld
<1>4. n \in Nat /\ 1 \in 1..n
  BY <1>1, RowsInARow
<1>5. /\ InOrder[k].chain_seq = f + k - 1 /\ InOrder[h].chain_seq = f + h - 1
      /\ f \in Int
  BY <1>1, <1>3, <1>4, RowsInARow
<1>6. k \in 1..h /\ h \in Nat /\ k \in Int
  BY <1>1, <1>3, <1>4, <1>5
<1> DEFINE T == {j \in 1..h : Held(t, j)}
<1>7. h \in T
  BY <1>3, <1>6
<1>8. ASSUME NEW j \in 2..h, j \in T PROVE j - 1 \in T
  <2>1. j \in 1..Len(rows) /\ j # 1 /\ j - 1 \in 1..h
    BY <1>1, <1>3, <1>4, <1>6
  <2>2. Held(t, j - 1)
    BY <1>2, <1>8, <2>1, HeldBefore
  <2> QED BY <2>1, <2>2
<1> HIDE DEF T
<1>9. \A j \in 1..h : j \in T
  BY <1>6, <1>7, <1>8, InductiveDown
<1> QED BY <1>1, <1>6, <1>9 DEF T

(* The smallest number of an accepted pack is that of its first row.       *)
LEMMA FirstNumber ==
    ASSUME SystemInv, Accepted, rows # <<>>
    PROVE  Min(RowNumbers) = InOrder[1].chain_seq
<1>1. PICK S, f : S = RowNumbers /\ f = InOrder[1].chain_seq
  OBVIOUS
<1>2. 1 \in 1..Len(rows)
  <2>1. rows \in Seq(Bodies("chain_row"))
    BY AcceptedLines
  <2> QED BY <2>1
<1>3. f \in S /\ f \in Int
  BY <1>1, <1>2, RowsInARow DEF RowNumbers
<1>4. ASSUME NEW n \in S PROVE f <= n /\ n \in Int
  <2>1. PICK r \in Bodies("chain_row") : n = r.chain_seq
    BY <1>1 DEF RowNumbers
  <2>2. PICK k \in 1..Len(rows) : InOrder[k] = r
    BY RowsInARow
  <2>3. n = f + k - 1 /\ Len(rows) \in Nat
    BY <1>1, <2>1, <2>2, RowsInARow
  <2> QED BY <1>3, <2>3
<1>5. \A x \in S : (\A y \in S : x <= y) => x = f
  BY <1>3, <1>4
<1>6. Min(S) = f
  BY <1>3, <1>4, <1>5 DEF Min
<1> QED BY <1>1, <1>6

(* One accepted anchor vouches for every row up to it, back to the first   *)
(* of the pack: it is the row the table held at that number                *)
(* (chain.rs:9-10).                                                        *)
THEOREM OneAnchorAttestsPrefix == SystemSpec => []PrefixAttested
<1>1. ASSUME SystemInv PROVE PrefixAttested
  <2> SUFFICES ASSUME Accepted, NEW r \in Bodies("chain_row"),
                      NEW a \in Bodies("chain_anchor"), r.chain_seq <= a.to_seq
               PROVE  LET held == log[header.table]
                      IN  /\ r.chain_seq \in DOMAIN held
                          /\ r.entry_hash = held[r.chain_seq].entry_hash
                          /\ r.prev_hash \o r.canonical =
                                 held[r.chain_seq].prev_hash \o held[r.chain_seq].canonical
                          /\ r.chain_seq # Min(RowNumbers) \/ r.chain_seq = 1 =>
                                 r.canonical = held[r.chain_seq].canonical
    BY DEF PrefixAttested
  <2>1. PICK t, n, h : t = header.table /\ n = r.chain_seq /\ h = log[t][n]
    OBVIOUS
  <2>2. PICK k \in 1..Len(rows) : InOrder[k] = r
    BY <1>1, RowsInARow
  <2>3. t \in Tables /\ Held(t, k)
    BY <1>1, <2>1, <2>2, HeadIsHeld, AttestedIsHeld
  <2>4. n \in 1..Len(log[t]) /\ r.entry_hash = h.entry_hash
    BY <2>1, <2>2, <2>3 DEF Held
  <2>5. /\ r.prev_hash \o r.canonical = h.prev_hash \o h.canonical
        /\ k # 1 \/ n = 1 => r.canonical = h.canonical
    BY <1>1, <2>1, <2>2, <2>3, HeldBefore
  <2>6. n # Min(RowNumbers) => k # 1
    <3>1. rows # <<>>
      BY <2>2
    <3> QED BY <1>1, <2>1, <2>2, <3>1, FirstNumber
  <2>7. DOMAIN log[t] = 1..Len(log[t])
    BY <1>1, <2>3 DEF SystemInv, Database, Logged, IsListOf
  <2> QED BY <2>1, <2>4, <2>5, <2>6, <2>7
<1> QED BY <1>1, SystemInvariant, PTL

-----------------------------------------------------------------------------
(* The ranges of an accepted pack *)

(* The ranges of an accepted pack's anchors lie side by side over its rows. *)
LEMMA RangesTile ==
    ASSUME SystemInv, Accepted, anchors # <<>>
    PROVE  /\ Len(anchors) \in Nat \ {0}
           /\ \A k \in 1..Len(anchors) :
                 /\ AnchorsById[k].from_seq \in Nat \ {0} /\ AnchorsById[k].to_seq \in Nat
                 /\ AnchorsById[k].from_seq <= AnchorsById[k].to_seq
           /\ \A j, k \in 1..Len(anchors) : j < k =>
                 AnchorsById[j].to_seq < AnchorsById[k].from_seq
           /\ \A k \in 2..Len(anchors) :
                 AnchorsById[k].from_seq = AnchorsById[k-1].to_seq + 1
           /\ rows # <<>> => AnchorsById[1].from_seq = InOrder[1].chain_seq
<1>1. PICK t, m, b, s : /\ t = header.table /\ m = Len(anchors) /\ b = AnchorsById
                        /\ s = issued[header.table]
  OBVIOUS
<1>2. PICK i \in Nat \ {0} : /\ i + m - 1 <= Len(s)
                             /\ \A k \in 1..m : Same(b[k], s[i + k - 1])
  BY <1>1, AnchorsInARow
<1>3. t \in Tables /\ m \in Nat \ {0} /\ DOMAIN anchors = 1..m
  BY <1>1, AnchorsInARow
<1>4. /\ Len(s) \in Nat
      /\ \A n \in 1..Len(s) : /\ s[n].from_seq \in Nat \ {0} /\ s[n].to_seq \in Nat
                              /\ s[n].from_seq <= s[n].to_seq
      /\ \A j, n \in 1..Len(s) : j < n => s[j].to_seq < s[n].from_seq
      /\ \A n \in 2..Len(s) : s[n].from_seq = s[n-1].to_seq + 1
  BY <1>1, <1>3, RangesAscend DEF SystemInv
<1>5. PICK d : d = [k \in 1..m |-> i + k - 1]
  OBVIOUS
<1>6. /\ \A k \in 1..m : /\ d[k] \in 1..Len(s)
                         /\ b[k].from_seq = s[d[k]].from_seq /\ b[k].to_seq = s[d[k]].to_seq
      /\ \A j, k \in 1..m : j < k => d[j] < d[k]
      /\ \A k \in 2..m : d[k] \in 2..Len(s) /\ d[k] - 1 = d[k-1] /\ k - 1 \in 1..m /\ k \in 1..m
  <2>1. \A k \in 1..m : d[k] = i + k - 1 /\ d[k] \in 1..Len(s)
    BY <1>2, <1>3, <1>4, <1>5
  <2>2. ASSUME NEW k \in 1..m
        PROVE  b[k].from_seq = s[d[k]].from_seq /\ b[k].to_seq = s[d[k]].to_seq
    <3>1. PICK u : u = d[k]
      OBVIOUS
    <3>2. Same(b[k], s[u])
      BY <1>2, <2>1, <3>1
    <3> QED BY <3>1, <3>2 DEF Same
  <2>3. \A j, k \in 1..m : j < k => d[j] < d[k]
    <3> SUFFICES ASSUME NEW j \in 1..m, NEW k \in 1..m, j < k PROVE d[j] < d[k]
      OBVIOUS
    <3>1. i + j - 1 < i + k - 1
      BY <1>2, <1>3
    <3> QED BY <2>1, <3>1
  <2>4. ASSUME NEW k \in 2..m
        PROVE  d[k] \in 2..Len(s) /\ d[k] - 1 = d[k-1] /\ k - 1 \in 1..m /\ k \in 1..m
    <3>1. PICK j : j = k - 1
      OBVIOUS
    <3>2. j \in 1..m /\ k \in 1..m /\ k = j + 1
      BY <1>3, <3>1
    <3>3. d[j] = i + j - 1 /\ d[k] = i + k - 1 /\ d[k] \in 1..Len(s)
      BY <2>1, <3>2
    <3>4. d[k] \in 2..Len(s) /\ d[k] - 1 = d[j]
      BY <1>2, <1>4, <3>2, <3>3
    <3> QED BY <3>1, <3>2, <3>4
  <2> QED BY <2>1, <2>2, <2>3, <2>4
<1>7. ASSUME NEW j \in 1..m, NEW k \in 1..m, j < k PROVE b[j].to_seq < b[k].from_seq
  <2>1. PICK p, q : p = d[j] /\ q = d[k]
    OBVIOUS
  <2>2. p \in 1..Len(s) /\ q \in 1..Len(s) /\ p < q
    BY <1>6, <1>7, <2>1
  <2>3. b[j].to_seq = s[p].to_seq /\ b[k].from_seq = s[q].from_seq
    BY <1>6, <2>1
  <2>4. s[p].to_seq < s[q].from_seq
    BY <1>4, <2>2
  <2> QED BY <2>3, <2>4
<1>8. ASSUME NEW k \in 2..m PROVE b[k].from_seq = b[k-1].to_seq + 1
  <2>1. PICK p, q : p = d[k] /\ q = d[k-1]
    OBVIOUS
  <2>2. p \in 2..Len(s) /\ p - 1 = q /\ k - 1 \in 1..m /\ k \in 1..m
    BY <1>6, <2>1
  <2>3. s[p].from_seq = s[q].to_seq + 1
    BY <1>4, <2>2
  <2>4. b[k].from_seq = s[p].from_seq /\ b[k-1].to_seq = s[q].to_seq
    BY <1>6, <2>1, <2>2
  <2> QED BY <2>3, <2>4
<1>9. rows # <<>> => b[1].from_seq = InOrder[1].chain_seq
  <2>1. 1 \in DOMAIN anchors
    BY <1>3
  <2>2. Tiles(1)
    BY <2>1, AtReport DEF HeadsBind, SystemInv
  <2> QED BY <1>1, <2>2 DEF Tiles
<1>10. \A k \in 1..m : /\ b[k].from_seq \in Nat \ {0} /\ b[k].to_seq \in Nat
                       /\ b[k].from_seq <= b[k].to_seq
  BY <1>4, <1>6
<1> QED BY <1>1, <1>3, <1>7, <1>8, <1>9, <1>10

(* A number from the first range on, up to the end of one, is in a range.  *)
LEMMA RangeFound ==
    ASSUME SystemInv, Accepted, anchors # <<>>, NEW n \in Int,
           AnchorsById[1].from_seq <= n,
           NEW m \in 1..Len(anchors), n <= AnchorsById[m].to_seq
    PROVE  \E k \in 1..Len(anchors) : n \in AnchorsById[k].from_seq..AnchorsById[k].to_seq
<1>1. PICK l, b : l = Len(anchors) /\ b = AnchorsById
  OBVIOUS
<1>2. /\ l \in Nat \ {0}
      /\ \A k \in 1..l : b[k].from_seq \in Nat \ {0} /\ b[k].to_seq \in Nat
      /\ \A k \in 2..l : b[k].from_seq = b[k-1].to_seq + 1
  BY <1>1, RangesTile
<1> DEFINE Within(k) == n \in b[k].from_seq..b[k].to_seq
           T == {k \in 1..l : n <= b[k].to_seq => \E j \in 1..l : Within(j)}
<1>3. 1 \in T
  BY <1>1, <1>2
<1>4. ASSUME NEW k \in 1..l, k < l, k \in T PROVE k + 1 \in T
  <2>1. PICK j : j = k + 1
    OBVIOUS
  <2>2. j \in 2..l /\ j \in 1..l /\ j - 1 = k
    BY <1>2, <1>4, <2>1
  <2>3. CASE n <= b[k].to_seq
    BY <1>4, <2>1, <2>2, <2>3
  <2>4. CASE ~(n <= b[k].to_seq)
    <3>1. PICK x, y : x = b[k].to_seq /\ y = b[j].from_seq
      OBVIOUS
    <3>2. x \in Int /\ y = x + 1 /\ ~(n <= x)
      BY <1>2, <2>2, <2>4, <3>1
    <3>3. y <= n
      BY <3>2
    <3>4. n <= b[j].to_seq => Within(j)
      BY <1>2, <2>2, <3>1, <3>3
    <3> QED BY <2>1, <2>2, <3>4
  <2> QED BY <2>3, <2>4
<1> HIDE DEF T
<1>5. \A k \in 1..l : k \in T
  BY <1>2, <1>3, <1>4, InductiveTo
<1> QED BY <1>1, <1>5 DEF T

(* The largest number of an accepted pack is that of its last row, and the *)
(* largest end of a range that of its last anchor.                         *)
LEMMA LastNumbers ==
    ASSUME SystemInv, Accepted, rows # <<>>
    PROVE  /\ Len(rows) \in Nat \ {0}
           /\ Max(RowNumbers) = InOrder[Len(rows)].chain_seq
           /\ anchors # <<>>
           /\ \E m \in 1..Len(anchors) :
                 Max({a.to_seq : a \in Bodies("chain_anchor")}) = AnchorsById[m].to_seq
<1>1. PICK n, S, f, l : /\ n = Len(rows) /\ S = RowNumbers /\ f = InOrder[1].chain_seq
                        /\ l = InOrder[Len(rows)].chain_seq
  OBVIOUS
<1>2. n \in Nat \ {0} /\ 1 \in 1..n /\ n \in 1..n
  <2>1. rows \in Seq(Bodies("chain_row"))
    BY AcceptedLines
  <2>2. n \in Nat \ {0}
    BY <1>1, <2>1
  <2> QED BY <2>2
<1>3. l \in S /\ l \in Int /\ f \in Int /\ l = f + n - 1
  BY <1>1, <1>2, RowsInARow DEF RowNumbers
<1>4. ASSUME NEW x \in S PROVE l >= x /\ x \in Int
  <2>1. PICK r \in Bodies("chain_row") : x = r.chain_seq
    BY <1>1 DEF RowNumbers
  <2>2. PICK k \in 1..n : InOrder[k] = r
    BY <1>1, RowsInARow
  <2>3. x = f + k - 1
    BY <1>1, <2>1, <2>2, RowsInARow
  <2> QED BY <1>2, <1>3, <2>3
<1>5. Max(S) = l
  <2>1. \A x \in S : (\A y \in S : x >= y) => x = l
    BY <1>3, <1>4
  <2> QED BY <1>3, <1>4, <2>1 DEF Max
<1>6. anchors # <<>>
  BY AtReport DEF TailDeclared, SystemInv
<1>7. PICK m, b, E : m = Len(anchors) /\ b = AnchorsById
                     /\ E = {a.to_seq : a \in Bodies("chain_anchor")}
  OBVIOUS
<1>8. /\ m \in Nat \ {0} /\ m \in 1..m
      /\ \A k \in 1..m : /\ b[k].from_seq \in Nat \ {0} /\ b[k].to_seq \in Nat
                         /\ b[k].from_seq <= b[k].to_seq
      /\ \A j, k \in 1..m : j < k => b[j].to_seq < b[k].from_seq
  BY <1>6, <1>7, RangesTile
<1>9. /\ \A k \in 1..m : b[k] \in Bodies("chain_anchor")
      /\ \A a \in Bodies("chain_anchor") : \E k \in 1..m : b[k] = a
  <2>1. /\ anchors \in Seq(Bodies("chain_anchor"))
        /\ \A i \in DOMAIN anchors : anchors[i].id \in Int
        /\ Bodies("chain_anchor") = {anchors[i] : i \in DOMAIN anchors}
    BY AcceptedLines
  <2>2. /\ \A k \in 1..m : \E i \in DOMAIN anchors : b[k] = anchors[i]
        /\ \A i \in DOMAIN anchors : \E k \in 1..m : b[k] = anchors[i]
    BY <1>7, <2>1, AnchorsSorted
  <2>3. \A i \in DOMAIN anchors : anchors[i] \in Bodies("chain_anchor")
    BY <2>1
  <2>4. ASSUME NEW a \in Bodies("chain_anchor") PROVE \E k \in 1..m : b[k] = a
    <3>1. PICK i \in DOMAIN anchors : anchors[i] = a
      BY <2>1
    <3> QED BY <2>2, <3>1
  <2> QED BY <2>2, <2>3, <2>4
<1>10. PICK e : e = b[m].to_seq
  OBVIOUS
<1>11. e \in E /\ e \in Int
  BY <1>7, <1>8, <1>9, <1>10
<1>12. ASSUME NEW x \in E PROVE e >= x /\ x \in Int
  <2>1. PICK k \in 1..m : x = b[k].to_seq
    BY <1>7, <1>9
  <2>2. CASE k = m
    BY <1>8, <1>10, <2>1, <2>2
  <2>3. CASE k # m
    <3>1. k < m
      BY <1>8, <2>3
    <3>2. PICK u : u = b[m].from_seq
      OBVIOUS
    <3>3. x < u /\ u <= e /\ x \in Int /\ u \in Int
      BY <1>8, <1>10, <2>1, <3>1, <3>2
    <3> QED BY <1>11, <3>3
  <2> QED BY <2>2, <2>3
<1>13. Max(E) = e
  <2>1. \A x \in E : (\A y \in E : x >= y) => x = e
    BY <1>11, <1>12
  <2> QED BY <1>11, <1>12, <2>1 DEF Max
<1> QED BY <1>1, <1>2, <1>5, <1>6, <1>7, <1>8, <1>10, <1>13
(* Each number between the first and the last is on one row of the pack.   *)
LEMMA OneRowEach ==
    ASSUME SystemInv, Accepted, rows # <<>>,
           NEW n \in InOrder[1].chain_seq..InOrder[Len(rows)].chain_seq
    PROVE  Cardinality({i \in LinesOf("chain_row") : pack[i].body.chain_seq = n}) = 1
<1>1. PICK c : /\ Enumerates(DOMAIN rows, c)
               /\ \A k \in 1..Len(rows) : InOrder[k] = rows[c[k]]
  BY AcceptedLines, RowsSorted
<1>2. PICK l, f : l = Len(rows) /\ f = InOrder[1].chain_seq
  OBVIOUS
<1>3. /\ l \in Nat \ {0} /\ f \in Int
      /\ \A k \in 1..l : /\ InOrder[k] \in Bodies("chain_row")
                         /\ InOrder[k].chain_seq = f + k - 1
      /\ rows \in Seq(Bodies("chain_row"))
  <2>1. l \in Nat \ {0} /\ rows \in Seq(Bodies("chain_row"))
    BY <1>2, LastNumbers, AcceptedLines
  <2>2. \A k \in 1..l : /\ InOrder[k] \in Bodies("chain_row") /\ InOrder[k].chain_seq \in Int
                        /\ InOrder[k].chain_seq = f + k - 1
    BY <1>2, RowsInARow
  <2>3. 1 \in 1..l
    BY <2>1
  <2> QED BY <1>2, <2>1, <2>2, <2>3
<1>4. n \in Int /\ f <= n /\ n <= f + l - 1
  <2>1. l \in 1..l
    BY <1>3
  <2> QED BY <1>2, <1>3, <2>1
<1>5. PICK m \in 1..l : m = n - f + 1
  BY <1>3, <1>4
<1>6. PICK B : B = {r \in Bodies("chain_row") : r.chain_seq = n}
  OBVIOUS
<1>7. \A k \in 1..l : rows[c[k]] \in B <=> k = m
  <2> SUFFICES ASSUME NEW k \in 1..l PROVE rows[c[k]] \in B <=> k = m
    OBVIOUS
  <2>1. PICK r : r = InOrder[k]
    OBVIOUS
  <2>2. r = rows[c[k]] /\ r \in Bodies("chain_row") /\ r.chain_seq = f + k - 1
    BY <1>1, <1>2, <1>3, <2>1
  <2>3. r \in B <=> f + k - 1 = n
    BY <1>6, <2>2
  <2>4. f + k - 1 = n <=> k = m
    BY <1>3, <1>4, <1>5
  <2> QED BY <2>2, <2>3, <2>4
<1>8. Collected(rows, pack, LinesOf("chain_row"))
  BY AtReport DEF SystemInv, Listing
<1>9. PICK T : T = {i \in LinesOf("chain_row") : pack[i].body.chain_seq = n}
  OBVIOUS
<1>10. /\ T \subseteq LinesOf("chain_row")
       /\ \A i \in LinesOf("chain_row") : i \in T <=> pack[i].body \in B
  <2>1. \A i \in LinesOf("chain_row") : pack[i].body \in Bodies("chain_row")
    BY DEF Bodies
  <2> QED BY <1>6, <1>9, <2>1
<1> QED
  <2>1. PICK list, p, I : list = rows /\ p = pack /\ I = LinesOf("chain_row")
    OBVIOUS
  <2>2. /\ Collected(list, p, I) /\ Len(list) \in Nat /\ Enumerates(DOMAIN list, c)
        /\ m \in 1..Len(list)
        /\ OnlyOne(list, c, m, B) /\ WithBody(T, p, I, B)
    BY <1>1, <1>2, <1>3, <1>5, <1>7, <1>8, <1>10, <2>1 DEF OnlyOne, WithBody
  <2>3. Cardinality(T) = 1
    BY <2>2, OneLine
  <2> QED BY <1>9, <2>3

(* A number from the first range on, up to the end of one, is in the range *)
(* of one anchor.                                                          *)
LEMMA OneAnchorEach ==
    ASSUME SystemInv, Accepted, anchors # <<>>, NEW n \in Int,
           AnchorsById[1].from_seq <= n,
           NEW e \in 1..Len(anchors), n <= AnchorsById[e].to_seq
    PROVE  Cardinality({i \in LinesOf("chain_anchor") :
                            n \in pack[i].body.from_seq..pack[i].body.to_seq}) = 1
<1>1. PICK c : /\ Enumerates(DOMAIN anchors, c)
               /\ \A k \in 1..Len(anchors) : AnchorsById[k] = anchors[c[k]]
  BY AcceptedLines, AnchorsSorted
<1>2. PICK l, b : l = Len(anchors) /\ b = AnchorsById
  OBVIOUS
<1>3. /\ l \in Nat \ {0}
      /\ \A k \in 1..l : b[k].from_seq \in Nat \ {0} /\ b[k].to_seq \in Nat
      /\ \A j, k \in 1..l : j < k => b[j].to_seq < b[k].from_seq
  BY <1>2, RangesTile
<1>4. /\ anchors \in Seq(Bodies("chain_anchor")) /\ DOMAIN anchors = 1..l
      /\ \A k \in 1..l : b[k] = anchors[c[k]] /\ b[k] \in Bodies("chain_anchor")
  <2>1. anchors \in Seq(Bodies("chain_anchor"))
    BY AcceptedLines
  <2>2. DOMAIN anchors = 1..l /\ \A i \in 1..l : anchors[i] \in Bodies("chain_anchor")
    BY <1>2, <1>3, <2>1
  <2>3. \A k \in 1..l : c[k] \in 1..l
    BY <1>1, <1>3, <2>2, CountTo DEF Enumerates
  <2> QED BY <1>1, <1>2, <2>1, <2>2, <2>3
<1>5. PICK m \in 1..l : n \in b[m].from_seq..b[m].to_seq
  BY <1>2, RangeFound
<1>6. \A k \in 1..l : n \in b[k].from_seq..b[k].to_seq => k = m
  <2> SUFFICES ASSUME NEW k \in 1..l, n \in b[k].from_seq..b[k].to_seq, k # m PROVE FALSE
    OBVIOUS
  <2>1. PICK x, y, u, v : /\ x = b[k].from_seq /\ y = b[k].to_seq
                          /\ u = b[m].from_seq /\ v = b[m].to_seq
    OBVIOUS
  <2>2. x \in Int /\ y \in Int /\ u \in Int /\ v \in Int
    BY <1>3, <2>1
  <2>3. x <= n /\ n <= y /\ u <= n /\ n <= v
    BY <1>5, <2>1, <2>2
  <2>4. y < u \/ v < x
    BY <1>3, <2>1
  <2> QED BY <2>2, <2>3, <2>4
<1>7. PICK B : B = {a \in Bodies("chain_anchor") : n \in a.from_seq..a.to_seq}
  OBVIOUS
<1>8. \A k \in 1..l : anchors[c[k]] \in B <=> k = m
  BY <1>4, <1>5, <1>6, <1>7
<1>9. Collected(anchors, pack, LinesOf("chain_anchor"))
  BY AtReport DEF SystemInv, Listing
<1>10. PICK T : T = {i \in LinesOf("chain_anchor") : n \in pack[i].body.from_seq..pack[i].body.to_seq}
  OBVIOUS
<1>11. /\ T \subseteq LinesOf("chain_anchor")
       /\ \A i \in LinesOf("chain_anchor") : i \in T <=> pack[i].body \in B
  <2>1. \A i \in LinesOf("chain_anchor") : pack[i].body \in Bodies("chain_anchor")
    BY DEF Bodies
  <2> QED BY <1>7, <1>10, <2>1
<1> QED
  <2>1. PICK list, p, I : list = anchors /\ p = pack /\ I = LinesOf("chain_anchor")
    OBVIOUS
  <2>2. /\ Collected(list, p, I) /\ Len(list) \in Nat /\ Enumerates(DOMAIN list, c)
        /\ m \in 1..Len(list)
        /\ OnlyOne(list, c, m, B) /\ WithBody(T, p, I, B)
    BY <1>1, <1>2, <1>3, <1>5, <1>8, <1>9, <1>11, <2>1 DEF OnlyOne, WithBody
  <2>3. Cardinality(T) = 1
    BY <2>2, OneLine
  <2> QED BY <1>10, <2>3

(* The numbers of an accepted pack are on one row each, and up to its last *)
(* anchor in one range each (chain.rs:18-20, 30-31).                       *)
THEOREM OneRowOneRange == SystemSpec => []OneRangeEach
<1>1. ASSUME SystemInv PROVE OneRangeEach
  <2> DEFINE last == Max({a.to_seq : a \in Bodies("chain_anchor")})
  <2> SUFFICES ASSUME Accepted, RowNumbers # {},
                      NEW n \in Min(RowNumbers)..Max(RowNumbers)
               PROVE  /\ Cardinality({i \in LinesOf("chain_row") :
                                          pack[i].body.chain_seq = n}) = 1
                      /\ n <= last =>
                            Cardinality({i \in LinesOf("chain_anchor") :
                                n \in pack[i].body.from_seq..pack[i].body.to_seq}) = 1
    BY DEF OneRangeEach
  <2>1. rows # <<>>
    <3>1. PICK r \in Bodies("chain_row") : TRUE
      BY DEF RowNumbers
    <3> QED BY <1>1, <3>1, RowsInARow
  <2>2. n \in InOrder[1].chain_seq..InOrder[Len(rows)].chain_seq /\ n \in Int
    BY <1>1, <2>1, FirstNumber, LastNumbers
  <2>3. Cardinality({i \in LinesOf("chain_row") : pack[i].body.chain_seq = n}) = 1
    BY <1>1, <2>1, <2>2, OneRowEach
  <2>4. anchors # <<>>
    BY <1>1, <2>1, LastNumbers
  <2>5. PICK e \in 1..Len(anchors) : last = AnchorsById[e].to_seq
    BY <1>1, <2>1, LastNumbers
  <2> HIDE DEF last
  <2>6. AnchorsById[1].from_seq = InOrder[1].chain_seq
    BY <1>1, <2>1, <2>4, RangesTile
  <2>7. AnchorsById[1].from_seq <= n
    <3>1. InOrder[1].chain_seq \in Int
      <4>1. 1 \in 1..Len(rows)
        BY <1>1, <2>1, LastNumbers
      <4> QED BY <1>1, <4>1, RowsInARow
    <3>2. InOrder[Len(rows)].chain_seq \in Int
      <4>1. Len(rows) \in 1..Len(rows)
        BY <1>1, <2>1, LastNumbers
      <4> QED BY <1>1, <4>1, RowsInARow
    <3> QED BY <2>2, <2>6, <3>1, <3>2
  <2>8. n <= last =>
            Cardinality({i \in LinesOf("chain_anchor") :
                n \in pack[i].body.from_seq..pack[i].body.to_seq}) = 1
    BY <1>1, <2>2, <2>4, <2>5, <2>7, OneAnchorEach
  <2> QED BY <2>3, <2>8
<1> QED BY <1>1, SystemInvariant, PTL

-----------------------------------------------------------------------------
(* Lost lines *)

(* A pack as it was sealed: a header, the keys, the rows and anchors its   *)
(* manifest counts, and the manifest.                                      *)
Whole(o) ==
    /\ IsListOf(o) /\ Len(o) \in Nat \ {0}
    /\ LET counts == o[Len(o)].body.counts
       IN  /\ counts.rows \in Nat /\ counts.anchors \in Nat \ {0}
           /\ Len(o) = 3 + counts.rows + counts.anchors
    /\ \A i \in 1..Len(o) : o[i].kind = "manifest" => i = Len(o)

(* Fewer lines than o, under the manifest of o or none. *)
Short(f, o) ==
    /\ Len(f) < Len(o)
    /\ \A i \in DOMAIN f : f[i].kind = "manifest" => f[i].body = o[Len(o)].body

(* As long as the faults so far have only lost lines, the file is the whole *)
(* pack it was or shorter.                                                 *)
OnlyLost ==
    /\ IsListOf(faults)
    /\ stage # "live" => Whole(original)
    /\ Suffered({"lose", "truncate"}) =>
          /\ stage = "draft" => original = SealedPack(file, named, tail)
          /\ stage \in {"transit", "verify"} => file = original \/ Short(file, original)

(* What the records of a pack are. *)
LEMMA RecordKinds ==
    ASSUME NEW t, NEW r, IsListOf(r), NEW c, IsListOf(c),
           NEW f, f = Records(t, r, c)
    PROVE  /\ Len(r) \in Nat /\ Len(c) \in Nat
           /\ IsListOf(f) /\ Len(f) = 2 + Len(r) + Len(c) /\ DOMAIN f = 1..Len(f)
           /\ f[1].kind = "header" /\ f[2].kind = "signing_keys"
           /\ \A i \in 1..Len(f) : f[i].kind = "chain_row" <=> i \in 3..(2 + Len(r))
           /\ \A i \in 1..Len(f) :
                 f[i].kind = "chain_anchor" <=> i \in (3 + Len(r))..(2 + Len(r) + Len(c))
           /\ \A i \in 1..Len(f) : f[i].kind # "manifest"
<1>1. PICK h, u, v : /\ h = <<Line("header", HeaderFor(t)),
                              Line("signing_keys", [keys |-> <<KeyEntry>>])>>
                     /\ u = Lines("chain_row", r) /\ v = Lines("chain_anchor", c)
  OBVIOUS
<1>2. PICK m, n : m = Len(r) /\ n = Len(c)
  OBVIOUS
<1>3. m \in Nat /\ n \in Nat /\ DOMAIN r = 1..m /\ DOMAIN c = 1..n
  BY <1>2 DEF IsListOf
<1>4. /\ IsListOf(u) /\ Len(u) = m /\ \A k \in 1..m : u[k].kind = "chain_row"
      /\ IsListOf(v) /\ Len(v) = n /\ \A k \in 1..n : v[k].kind = "chain_anchor"
  <2>1. u = [k \in 1..m |-> Line("chain_row", r[k])]
    BY <1>1, <1>3 DEF Lines
  <2>2. v = [k \in 1..n |-> Line("chain_anchor", c[k])]
    BY <1>1, <1>3 DEF Lines
  <2>3. u \in Seq({u[k] : k \in 1..m}) /\ Len(u) = m
    BY <1>3, <2>1
  <2>4. v \in Seq({v[k] : k \in 1..n}) /\ Len(v) = n
    BY <1>3, <2>2
  <2>5. IsListOf(u) /\ IsListOf(v)
    BY <2>3, <2>4, AnyList
  <2> QED BY <2>1, <2>2, <2>3, <2>4, <2>5 DEF Line
<1>5. /\ IsListOf(h) /\ Len(h) = 2
      /\ h[1].kind = "header" /\ h[2].kind = "signing_keys"
  <2>1. h \in Seq({h[1], h[2]}) /\ Len(h) = 2
    BY <1>1
  <2>2. IsListOf(h)
    BY <2>1, AnyList
  <2> QED BY <1>1, <2>1, <2>2 DEF Line
<1>6. PICK g : g = h \o u
  OBVIOUS
<1>7. Joined(g, h, u)
  BY <1>4, <1>5, <1>6, Concatenated
<1>8. IsListOf(g)
  BY <1>7 DEF Joined
<1>9. f = g \o v
  BY <1>1, <1>6 DEF Records
<1>10. Joined(f, g, v)
  BY <1>4, <1>8, <1>9, Concatenated
<1>11. /\ Len(g) = 2 + m /\ g[1] = h[1] /\ g[2] = h[2] /\ DOMAIN g = 1..(2 + m)
       /\ \A k \in 1..m : g[2 + k] = u[k]
  BY <1>3, <1>4, <1>5, <1>7 DEF Joined
<1>12. /\ Len(f) = 2 + m + n /\ IsListOf(f) /\ DOMAIN f = 1..Len(f)
       /\ \A k \in 1..(2 + m) : f[k] = g[k]
       /\ \A k \in 1..n : f[2 + m + k] = v[k]
  BY <1>3, <1>4, <1>10, <1>11 DEF Joined
<1>13. f[1].kind = "header" /\ f[2].kind = "signing_keys"
  BY <1>3, <1>5, <1>11, <1>12
<1>14. ASSUME NEW i \in 3..(2 + m) PROVE f[i].kind = "chain_row"
  <2>1. PICK k \in 1..m : i = 2 + k
    <3>1. i - 2 \in 1..m /\ i = 2 + (i - 2)
      BY <1>3
    <3> QED BY <3>1
  <2>2. i \in 1..(2 + m)
    BY <1>3
  <2> QED BY <1>4, <1>11, <1>12, <2>1, <2>2
<1>15. ASSUME NEW i \in (3 + m)..(2 + m + n) PROVE f[i].kind = "chain_anchor"
  <2>1. PICK k \in 1..n : i = 2 + m + k
    <3>1. i - (2 + m) \in 1..n /\ i = 2 + m + (i - (2 + m))
      BY <1>3
    <3> QED BY <3>1
  <2> QED BY <1>4, <1>12, <2>1
<1>16. ASSUME NEW i \in 1..(2 + m + n)
       PROVE  i = 1 \/ i = 2 \/ i \in 3..(2 + m) \/ i \in (3 + m)..(2 + m + n)
  BY <1>3
<1>17. ASSUME NEW i \in 3..(2 + m) PROVE i # 1 /\ i # 2 /\ i \notin (3 + m)..(2 + m + n)
  BY <1>3
<1>18. ASSUME NEW i \in (3 + m)..(2 + m + n) PROVE i # 1 /\ i # 2 /\ i \notin 3..(2 + m)
  BY <1>3
<1>19. ASSUME NEW i \in 1..Len(f)
       PROVE  /\ f[i].kind = "chain_row" <=> i \in 3..(2 + m)
              /\ f[i].kind = "chain_anchor" <=> i \in (3 + m)..(2 + m + n)
              /\ f[i].kind # "manifest"
  <2>1. i = 1 \/ i = 2 \/ i \in 3..(2 + m) \/ i \in (3 + m)..(2 + m + n)
    BY <1>12, <1>16
  <2>2. CASE i \in 3..(2 + m)
    BY <1>14, <1>17, <2>2
  <2>3. CASE i \in (3 + m)..(2 + m + n)
    BY <1>15, <1>18, <2>3
  <2>4. CASE (i = 1 \/ i = 2) /\ i \notin 3..(2 + m) /\ i \notin (3 + m)..(2 + m + n)
    BY <1>13, <2>4
  <2> QED BY <2>1, <2>2, <2>3, <2>4
<1> QED BY <1>2, <1>3, <1>12, <1>13, <1>19

(* What the manifest of a sealed pack counts. *)
LEMMA SealedIsWhole ==
    ASSUME NEW t, NEW r, IsListOf(r), NEW c, IsListOf(c), Len(c) > 0,
           NEW f, f = Records(t, r, c), NEW n
    PROVE  Whole(SealedPack(f, t, n))
<1>1. PICK x, y, R, A : /\ x = Len(r) /\ y = Len(c)
                        /\ R = {i \in DOMAIN f : f[i].kind = "chain_row"}
                        /\ A = {i \in DOMAIN f : f[i].kind = "chain_anchor"}
  OBVIOUS
<1>2. /\ x \in Nat /\ y \in Nat /\ y > 0
      /\ IsListOf(f) /\ Len(f) = 2 + x + y /\ DOMAIN f = 1..Len(f)
      /\ \A i \in 1..Len(f) : f[i].kind = "chain_row" <=> i \in 3..(2 + x)
      /\ \A i \in 1..Len(f) : f[i].kind = "chain_anchor" <=> i \in (3 + x)..(2 + x + y)
      /\ \A i \in 1..Len(f) : f[i].kind # "manifest"
  <2>1. x \in Nat /\ y \in Nat /\ y > 0 /\ IsListOf(f) /\ Len(f) = 2 + x + y /\ DOMAIN f = 1..Len(f)
    BY <1>1, RecordKinds
  <2>2. \A i \in 1..Len(f) : f[i].kind = "chain_row" <=> i \in 3..(2 + x)
    BY <1>1, RecordKinds
  <2>3. \A i \in 1..Len(f) : f[i].kind = "chain_anchor" <=> i \in (3 + x)..(2 + x + y)
    BY <1>1, RecordKinds
  <2>4. \A i \in 1..Len(f) : f[i].kind # "manifest"
    BY RecordKinds
  <2> QED BY <2>1, <2>2, <2>3, <2>4
<1>3. R = 3..(2 + x)
  <2>1. 3..(2 + x) \subseteq 1..Len(f)
    BY <1>2
  <2> QED BY <1>1, <1>2, <2>1
<1>4. A = (3 + x)..(2 + x + y)
  <2>1. (3 + x)..(2 + x + y) \subseteq 1..Len(f)
    BY <1>2
  <2> QED BY <1>1, <1>2, <2>1
<1>5. Cardinality(R) = x
  <2>1. PICK u : u = 2 + x
    OBVIOUS
  <2>2. u \in Int /\ (3 > u => x = 0) /\ (~(3 > u) => u - 3 + 1 = x)
    BY <1>2, <2>1
  <2>3. Cardinality(3..u) = IF 3 > u THEN 0 ELSE u - 3 + 1
    BY <2>2, FS_Interval
  <2> QED BY <1>3, <2>1, <2>2, <2>3
<1>6. Cardinality(A) = y
  <2>1. /\ 3 + x \in Int /\ 2 + x + y \in Int /\ ~(3 + x > 2 + x + y)
        /\ (2 + x + y) - (3 + x) + 1 = y
    BY <1>2
  <2> QED BY <1>4, <2>1, FS_Interval
<1>7. PICK m, o : /\ o = SealedPack(f, t, n)
                  /\ m = [profile |-> CHAIN_PACK_PROFILE, table |-> t, unanchored_tail |-> n,
                          counts |-> [rows |-> x, anchors |-> y]]
  OBVIOUS
<1>8. o = Append(f, Line("manifest", m))
  BY <1>1, <1>5, <1>6, <1>7 DEF SealedPack
<1>9. /\ Len(o) = Len(f) + 1 /\ o[Len(o)] = Line("manifest", m) /\ IsListOf(o)
      /\ \A i \in 1..Len(f) : o[i] = f[i]
  <2>1. PICK S, l : S = Range(f) \cup {Line("manifest", m)} /\ l = Line("manifest", m)
    OBVIOUS
  <2>2. f \in Seq(S) /\ l \in S
    BY <1>2, <2>1 DEF IsListOf
  <2>3. /\ Append(f, l) \in Seq(S) /\ Len(Append(f, l)) = Len(f) + 1 /\ Len(f) \in Nat
        /\ Append(f, l)[Len(f) + 1] = l /\ \A i \in 1..Len(f) : Append(f, l)[i] = f[i]
    BY <2>2, ListGrows
  <2>4. IsListOf(o)
    BY <1>8, <2>1, <2>3, AnyList
  <2> QED BY <1>8, <2>1, <2>3, <2>4
<1>10. ASSUME NEW i \in 1..Len(o), o[i].kind = "manifest" PROVE i = Len(o)
  <2>1. i \in 1..Len(f) \/ i = Len(o)
    BY <1>2, <1>9
  <2> QED BY <1>2, <1>9, <1>10, <2>1
<1>11. o[Len(o)].body.counts = [rows |-> x, anchors |-> y]
  BY <1>7, <1>9 DEF Line
<1>12. Len(o) \in Nat \ {0} /\ Len(o) = 3 + x + y
  BY <1>2, <1>9
<1> QED BY <1>2, <1>7, <1>9, <1>10, <1>11, <1>12 DEF Whole

(* A line lost or the end cut off leaves fewer lines, none of them new.    *)
LEMMA FewerLines ==
    ASSUME NEW f, IsListOf(f), NEW g, g \in LineLost(f) \cup EndLost(f)
    PROVE  /\ Len(g) < Len(f)
           /\ \A i \in DOMAIN g : \E j \in DOMAIN f : g[i] = f[j]
<1>1. PICK S : f \in Seq(S)
  BY DEF IsListOf
<1>2. CASE g \in LineLost(f)
  BY <1>1, <1>2, Removed DEF LineLost
<1>3. CASE g \in EndLost(f)
  BY <1>1, <1>3, CutOff DEF EndLost
<1> QED BY <1>2, <1>3

(* So it leaves a whole pack short, and a short one too.                   *)
LEMMA ShortStays ==
    ASSUME NEW o, Whole(o), NEW f, IsListOf(f), f = o \/ Short(f, o),
           NEW g, g \in LineLost(f) \cup EndLost(f)
    PROVE  Short(g, o)
<1>1. /\ Len(g) < Len(f) /\ Len(f) \in Nat /\ DOMAIN f = 1..Len(f) /\ Len(o) \in Nat
      /\ \A i \in DOMAIN g : \E j \in DOMAIN f : g[i] = f[j]
  BY FewerLines DEF Whole, IsListOf
<1>2. Len(f) <= Len(o)
  BY <1>1 DEF Short
<1>3. \A j \in DOMAIN f : f[j].kind = "manifest" => f[j].body = o[Len(o)].body
  BY <1>1 DEF Short, Whole
<1>4. \A i \in DOMAIN g : g[i].kind = "manifest" => g[i].body = o[Len(o)].body
  BY <1>1, <1>3
<1>5. Len(g) < Len(o)
  <2>1. \E S : g \in Seq(S)
    <3>1. PICK S, l : S = Range(f) /\ l = f[1] /\ f \in Seq(S)
      BY DEF IsListOf
    <3>2. l \in S
      <4>1. f # <<>>
        <5> SUFFICES ASSUME f = <<>> PROVE FALSE
          OBVIOUS
        <5> QED BY FewerLines DEF LineLost, EndLost
      <4> QED BY <3>1, <4>1
    <3> QED BY <3>1, <3>2, LinesLeft
  <2>2. Len(g) \in Nat
    BY <2>1
  <2> QED BY <1>1, <1>2, <2>2
<1> QED BY <1>4, <1>5 DEF Short

(* One fault more. *)
LEMMA OneFaultMore ==
    ASSUME IsListOf(faults), NEW kind, NEW at, NEW results, Strike(kind, at, results)
    PROVE  /\ IsListOf(faults)'
           /\ \A K : Suffered(K)' => Suffered(K) /\ kind \in K
           /\ stage = at /\ file' \in results
           /\ UNCHANGED <<stage, original, tail>>
<1>1. PICK s, S, t : s = faults /\ S = Range(faults) \cup {kind} /\ t = Append(faults, kind)
  OBVIOUS
<1>2. s \in Seq(S) /\ kind \in S
  BY <1>1 DEF IsListOf
<1>3. /\ t \in Seq(S) /\ Len(s) \in Nat /\ DOMAIN s = 1..Len(s) /\ DOMAIN t = 1..(Len(s) + 1)
      /\ t[Len(s) + 1] = kind /\ \A k \in 1..Len(s) : t[k] = s[k]
  BY <1>1, <1>2, ListGrows
<1>4. faults' = t
  BY <1>1 DEF Strike
<1>5. IsListOf(t)
  BY <1>3, AnyList
<1>6. kind \in Range(t) /\ Range(s) \subseteq Range(t)
  BY <1>3 DEF Range
<1>7. \A K : Suffered(K)' => Suffered(K) /\ kind \in K
  BY <1>1, <1>4, <1>6 DEF Suffered
<1> QED BY <1>4, <1>5, <1>7 DEF Strike, IsListOf

(* Only the two faults that lose lines leave anything to say, and they     *)
(* strike a sealed pack.                                                   *)
LEMMA SpoilKeepsOnlyLost ==
    ASSUME SystemInv, OnlyLost, Spoil
    PROVE  OnlyLost'
<1>1. PICK kind, at, results : /\ Strike(kind, at, results)
                               /\ kind \in {"lose", "truncate"} =>
                                     /\ at = "transit" /\ named' = named
                                     /\ results \in {LineLost(file), EndLost(file)}
  <2>1. ASSUME Reorder \/ Newer \/ Omit \/ Repeat \/ Misname \/ Foreign \/ Duplicate
               \/ Blank \/ Garble \/ Rewrite \/ Alter
        PROVE  \E kind, at, results : /\ Strike(kind, at, results)
                                      /\ kind \notin {"lose", "truncate"}
    <3>1. CASE Reorder
      BY <3>1, "reorder" \notin {"lose", "truncate"} DEF Reorder
    <3>2. CASE Newer
      BY <3>2, "newer" \notin {"lose", "truncate"} DEF Newer
    <3>3. CASE Omit
      BY <3>3, "omit" \notin {"lose", "truncate"} DEF Omit
    <3>4. CASE Repeat
      BY <3>4, "repeat" \notin {"lose", "truncate"} DEF Repeat
    <3>5. CASE Misname
      BY <3>5, "misname" \notin {"lose", "truncate"} DEF Misname
    <3>6. CASE Foreign
      BY <3>6, "foreign" \notin {"lose", "truncate"} DEF Foreign
    <3>7. CASE Duplicate
      BY <3>7, "duplicate" \notin {"lose", "truncate"} DEF Duplicate
    <3>8. CASE Blank
      BY <3>8, "blank" \notin {"lose", "truncate"} DEF Blank
    <3>9. CASE Garble
      BY <3>9, "garble" \notin {"lose", "truncate"} DEF Garble
    <3>10. CASE Rewrite
      BY <3>10, "rewrite" \notin {"lose", "truncate"} DEF Rewrite
    <3>11. CASE Alter
      BY <3>11, "alter" \notin {"lose", "truncate"} DEF Alter
    <3> QED BY <2>1, <3>1, <3>2, <3>3, <3>4, <3>5, <3>6, <3>7, <3>8, <3>9, <3>10, <3>11
  <2>2. ASSUME Lose \/ Truncate
        PROVE  \E kind, at, results : /\ Strike(kind, at, results)
                                      /\ at = "transit" /\ named' = named
                                      /\ results \in {LineLost(file), EndLost(file)}
    BY <2>2 DEF Lose, Truncate
  <2> QED BY <2>1, <2>2 DEF Spoil
<1>2. /\ IsListOf(faults)' /\ stage = at /\ file' \in results
      /\ \A K : Suffered(K)' => Suffered(K) /\ kind \in K
      /\ UNCHANGED <<stage, original, tail>>
  BY <1>1, OneFaultMore DEF OnlyLost
<1>3. PICK K : K = {"lose", "truncate"}
  OBVIOUS
<1>4. stage \in {"draft", "transit"}
  BY DEF Spoil, Reorder, Newer, Omit, Repeat, Misname, Foreign, Lose, Truncate,
     Duplicate, Blank, Garble, Rewrite, Alter, Strike
<1>5. Whole(original)
  BY <1>4 DEF OnlyLost
<1>6. Whole(original)'
  BY <1>2, <1>5 DEF Whole, IsListOf
<1>7. ASSUME Suffered(K)'
      PROVE  stage' = "transit" /\ Short(file, original)'
  <2>1. /\ Suffered(K) /\ kind \in K /\ stage = "transit"
        /\ file' \in LineLost(file) \cup EndLost(file)
    BY <1>1, <1>2, <1>3, <1>7
  <2>2. file = original \/ Short(file, original)
    BY <1>3, <2>1 DEF OnlyLost
  <2>3. PICK f, g, o : f = file /\ g = file' /\ o = original
    OBVIOUS
  <2>4. Short(g, o)
    BY <1>5, <2>1, <2>2, <2>3, ShortStays DEF SystemInv, Delivered, SoundFile
  <2> QED BY <1>2, <2>1, <2>3, <2>4 DEF Short
<1> QED BY <1>2, <1>3, <1>6, <1>7 DEF OnlyLost

(* An exported pack is whole.                                              *)
LEMMA ExportIsWhole ==
    ASSUME Database, NEW t \in Tables, NEW i \in DOMAIN issued[t], NEW j \in DOMAIN issued[t],
           i <= j, Export(t, i, j)
    PROVE  Whole(original') /\ original' = SealedPack(file', named', tail')
<1>1. DOMAIN issued[t] = 1..Len(issued[t]) /\ Len(issued[t]) \in Nat
  BY DEF Database, Issued, IsListOf
<1>2. i \in 1..Len(issued[t]) /\ j \in i..Len(issued[t])
  BY <1>1
<1>3. PICK upto : upto = IF j = Len(issued[t]) THEN Len(log[t]) ELSE issued[t][j].to_seq
  OBVIOUS
<1>4. PICK w, s, a, r, c : /\ w = log[t] /\ s = issued[t] /\ a = issued[t][i].from_seq
                           /\ r = SubSeq(log[t], a, upto) /\ c = SubSeq(issued[t], i, j)
  OBVIOUS
<1>5. /\ Len(w) \in Nat /\ upto \in issued[t][j].to_seq..Len(w) /\ a \in Nat \ {0}
      /\ issued[t][j].to_seq \in Nat
  BY <1>2, <1>3, <1>4, ExportWrites
<1>6. IsListOf(w) /\ IsListOf(s)
  BY <1>4 DEF Database, Logged, Issued
<1>7. IsListOf(r) /\ IsListOf(c) /\ Len(c) > 0
  <2>1. upto \in 0..Len(w) /\ j \in 0..Len(s) /\ i \in Nat \ {0} /\ i <= j
    <3>1. PICK b, l, m : b = issued[t][j].to_seq /\ l = Len(w) /\ m = Len(issued[t])
      OBVIOUS
    <3>2. upto \in 0..l
      BY <1>5, <3>1
    <3>3. j \in 0..m /\ i \in Nat \ {0} /\ i <= j
      BY <1>1, <1>2, <3>1
    <3> QED BY <1>4, <3>1, <3>2, <3>3
  <2>2. w \in Seq(Range(w)) /\ s \in Seq(Range(s))
    BY <1>6 DEF IsListOf
  <2>3. r \in Seq(Range(w))
    BY <1>4, <1>5, <2>1, <2>2, PartOf
  <2>4. c \in Seq(Range(s)) /\ Len(c) = IF i <= j THEN j - i + 1 ELSE 0
    BY <1>4, <2>1, <2>2, PartOf
  <2> QED BY <2>1, <2>3, <2>4, AnyList
<1>8. PICK f : f = Records(t, r, c)
  OBVIOUS
<1>9. /\ file' = f /\ named' = t /\ original' = SealedPack(f, t, upto - issued[t][j].to_seq)
      /\ tail' = upto - issued[t][j].to_seq
  BY <1>3, <1>4, <1>8 DEF Export
<1> QED BY <1>7, <1>8, <1>9, SealedIsWhole

LostInv == SystemInv /\ OnlyLost

(* Before any fault.                                                       *)
LEMMA InitLost == SystemInit => LostInv
<1> SUFFICES ASSUME SystemInit PROVE OnlyLost
  BY InitSystem DEF LostInv
<1>1. stage = "live" /\ faults = <<>>
  BY DEF SystemInit
<1>2. IsListOf(faults)
  BY <1>1 DEF IsListOf
<1> QED BY <1>1, <1>2 DEF OnlyLost

(* Every further fault, and every step that is none.                       *)
LEMMA StepLost == LostInv /\ [SystemNext]_<<system, vars>> => LostInv'
<1> SUFFICES ASSUME SystemInv, OnlyLost, [SystemNext]_<<system, vars>> PROVE OnlyLost'
  BY StepSystem DEF LostInv
<1>1. ASSUME UNCHANGED <<faults, original>>,
             stage' # "live" => Whole(original'),
             Suffered({"lose", "truncate"}) =>
                /\ stage' = "draft" => original' = SealedPack(file', named', tail')
                /\ stage' \in {"transit", "verify"} =>
                      file' = original' \/ Short(file', original')
      PROVE  OnlyLost'
  BY <1>1 DEF OnlyLost, Suffered, Whole, Short, IsListOf, SealedPack
<1>2. CASE \E t \in Tables : Insert(t) \/ AnchorHead(t)
  <2>1. stage' = "live" /\ UNCHANGED <<faults, original>>
    BY <1>2 DEF Insert, AnchorHead
  <2> QED BY <1>1, <2>1
<1>3. ASSUME NEW t \in Tables, NEW i \in DOMAIN issued[t], NEW j \in DOMAIN issued[t],
             i <= j, Export(t, i, j)
      PROVE  OnlyLost'
  <2>1. Whole(original') /\ original' = SealedPack(file', named', tail')
    BY <1>3, ExportIsWhole DEF SystemInv
  <2>2. stage' = "draft" /\ faults' = faults
    BY <1>3 DEF Export
  <2> QED BY <2>1, <2>2 DEF OnlyLost, Whole, IsListOf, SealedPack
<1>4. CASE Spoil
  BY <1>4, SpoilKeepsOnlyLost
<1>5. CASE Seal
  <2>1. /\ stage = "draft" /\ stage' = "transit" /\ UNCHANGED <<faults, original>>
        /\ file' = SealedPack(file, named, tail)
    BY <1>5 DEF Seal
  <2>2. Whole(original')
    BY <2>1 DEF OnlyLost
  <2>3. Suffered({"lose", "truncate"}) => file' = original'
    BY <2>1 DEF OnlyLost
  <2> QED BY <1>1, <2>1, <2>2, <2>3
<1>6. CASE Deliver
  <2>1. /\ stage = "transit" /\ stage' = "verify" /\ UNCHANGED <<faults, original, file>>
    BY <1>6 DEF Deliver
  <2> QED BY <1>1, <2>1 DEF OnlyLost
<1>7. CASE UNCHANGED system
  <2>1. UNCHANGED <<stage, faults, original, file, named, tail>>
    BY <1>7 DEF system
  <2> QED BY <1>1, <2>1 DEF OnlyLost
<1> QED BY <1>2, <1>3, <1>4, <1>5, <1>6, <1>7 DEF SystemNext

(* SystemInv and OnlyLost hold throughout.                                 *)
LEMMA LostInvariant == SystemSpec => []LostInv
  BY InitLost, StepLost, PTL DEF SystemSpec

(* An accepted text has at least a header, a line of keys if it has an     *)
(* anchor, the lines its manifest counts and the manifest.                 *)
LEMMA AcceptedCount ==
    ASSUME Inv, Accepted
    PROVE  \E i \in LinesOf("manifest") :
               LET counts == pack[i].body.counts
               IN  /\ Len(pack) \in Nat /\ DOMAIN pack = 1..Len(pack)
                   /\ counts.rows = Cardinality(LinesOf("chain_row"))
                   /\ counts.anchors = Cardinality(LinesOf("chain_anchor"))
                   /\ counts.rows \in Nat /\ counts.anchors \in Nat
                   /\ counts.anchors > 0 =>
                         Len(pack) >= 3 + counts.rows + counts.anchors
<1>1. /\ \A k : Before(k) = LinesOf(k)
      /\ Len(pack) \in Nat /\ DOMAIN pack = 1..Len(pack)
      /\ HeaderIsChain /\ ManifestIsLast /\ CountsAgree /\ AnchorsVerify
  BY AtReport
<1>2. PICK i \in LinesOf("manifest") : manifest = pack[i].body
  BY <1>1 DEF Inv, Loaded, Ends, LastManifest, ManifestIsLast
<1>3. PICK h \in LinesOf("header") : TRUE
  BY <1>1 DEF Inv, Loaded, Ends, HeaderIsChain, Bodies
<1>4. PICK R, A, n : /\ R = LinesOf("chain_row") /\ A = LinesOf("chain_anchor")
                     /\ n = Len(pack)
  OBVIOUS
<1>5. /\ R \subseteq 1..n /\ A \subseteq 1..n /\ i \in 1..n /\ h \in 1..n
      /\ R \cap A = {} /\ i \notin R \cup A /\ h \notin R \cup A \cup {i}
  BY <1>1, <1>2, <1>3, <1>4 DEF LinesOf
<1>6. /\ IsFiniteSet(1..n) /\ Cardinality(1..n) = n /\ n \in Nat
      /\ IsFiniteSet(R) /\ Cardinality(R) \in Nat /\ IsFiniteSet(A) /\ Cardinality(A) \in Nat
  <2>1. IsFiniteSet(1..n) /\ Cardinality(1..n) = n
    BY <1>1, <1>4, CountTo
  <2> QED BY <1>1, <1>4, <1>5, <2>1, FS_Subset, FS_CardinalityType
<1>7. /\ manifest.counts.rows = Cardinality(R) /\ manifest.counts.anchors = Cardinality(A)
      /\ Len(anchors) = Cardinality(A)
  BY <1>1, <1>4 DEF CountsAgree, CountsOK, ManifestIsLast, Inv, Loaded, Counters
<1>8. ASSUME Cardinality(A) > 0 PROVE n >= 3 + Cardinality(R) + Cardinality(A)
  <2>1. PICK k \in LinesOf("signing_keys") : TRUE
    <3>1. PICK j \in DOMAIN anchors : TRUE
      <4>1. anchors \in Seq(Bodies("chain_anchor")) /\ Len(anchors) > 0
        BY <1>7, <1>8 DEF Inv, Loaded, Lists
      <4>2. 1 \in DOMAIN anchors
        BY <4>1
      <4> QED BY <4>2
    <3>2. AnchorSignatureOK(anchors[j])
      BY <1>1 DEF AnchorsVerify
    <3>3. KeyById(anchors[j].signing_key_id) \in DeclaredKeys
      BY <3>2, KeyFound DEF AnchorSignatureOK, Inv
    <3> QED BY <3>3 DEF DeclaredKeys, Bodies
  <2>2. k \in 1..n /\ k \notin R \cup A \cup {i, h}
    BY <1>1, <1>2, <1>3, <1>4, <2>1 DEF LinesOf
  <2>3. PICK T : T = R \cup A
    OBVIOUS
  <2>4. IsFiniteSet(T) /\ Cardinality(T) = Cardinality(R) + Cardinality(A)
    <3>1. Cardinality(R \cap A) = 0
      BY <1>5, FS_EmptySet
    <3>2. /\ IsFiniteSet(R \cup A)
          /\ Cardinality(R \cup A) = Cardinality(R) + Cardinality(A) - Cardinality(R \cap A)
      BY <1>6, FS_Union
    <3>3. PICK x, y : x = Cardinality(R) /\ y = Cardinality(A)
      OBVIOUS
    <3>4. x \in Nat /\ y \in Nat /\ Cardinality(T) = x + y - 0
      BY <1>6, <2>3, <3>1, <3>2, <3>3
    <3> QED BY <2>3, <3>2, <3>3, <3>4
  <2>5. PICK U : U = T \cup {i}
    OBVIOUS
  <2>6. IsFiniteSet(U) /\ Cardinality(U) = Cardinality(T) + 1
    BY <1>5, <2>3, <2>4, <2>5, FS_AddElement
  <2>7. PICK V : V = U \cup {h}
    OBVIOUS
  <2>8. IsFiniteSet(V) /\ Cardinality(V) = Cardinality(U) + 1
    BY <1>5, <2>3, <2>5, <2>6, <2>7, FS_AddElement
  <2>9. PICK W : W = V \cup {k}
    OBVIOUS
  <2>10. IsFiniteSet(W) /\ Cardinality(W) = Cardinality(V) + 1
    BY <2>2, <2>3, <2>5, <2>7, <2>8, <2>9, FS_AddElement
  <2>11. W \subseteq 1..n
    BY <1>5, <2>2, <2>3, <2>5, <2>7, <2>9
  <2>12. Cardinality(W) <= n
    BY <1>6, <2>11, FS_Subset
  <2> QED BY <1>6, <2>4, <2>6, <2>8, <2>10, <2>12
<1> QED BY <1>1, <1>2, <1>4, <1>6, <1>7, <1>8

(* Of the packs that only lost lines, the whole one alone passes           *)
(* (chain.rs:14-15).                                                       *)
THEOREM LostLinesShow == SystemSpec => []LossDetected
<1>1. ASSUME LostInv PROVE LossDetected
  <2> SUFFICES ASSUME Accepted, Suffered({"lose", "truncate"}) PROVE pack = original
    BY DEF LossDetected
  <2>1. SystemInv /\ OnlyLost /\ Inv
    BY <1>1 DEF LostInv, SystemInv
  <2>2. stage = "verify" /\ pack = file
    BY <2>1 DEF SystemInv, Delivered, Stages, Accepted
  <2>3. Whole(original) /\ (pack = original \/ Short(pack, original))
    BY <2>1, <2>2 DEF OnlyLost
  <2> SUFFICES ASSUME Short(pack, original) PROVE FALSE
    BY <2>3
  <2>4. PICK i \in LinesOf("manifest") :
            LET counts == pack[i].body.counts
            IN  /\ Len(pack) \in Nat /\ DOMAIN pack = 1..Len(pack)
                /\ counts.rows = Cardinality(LinesOf("chain_row"))
                /\ counts.anchors = Cardinality(LinesOf("chain_anchor"))
                /\ counts.rows \in Nat /\ counts.anchors \in Nat
                /\ counts.anchors > 0 => Len(pack) >= 3 + counts.rows + counts.anchors
    BY <2>1, AcceptedCount
  <2>5. pack[i].body = original[Len(original)].body
    BY <2>4 DEF Short, LinesOf
  <2>6. PICK r, a, n, m : /\ r = pack[i].body.counts.rows /\ a = pack[i].body.counts.anchors
                          /\ n = Len(pack) /\ m = Len(original)
    OBVIOUS
  <2>7. m = 3 + r + a /\ a > 0 /\ m \in Nat
    BY <2>3, <2>5, <2>6 DEF Whole
  <2>8. n < m
    BY <2>6 DEF Short
  <2>9. n >= 3 + r + a /\ n \in Nat
    BY <2>4, <2>6, <2>7
  <2> QED BY <2>7, <2>8, <2>9
<1> QED BY <1>1, LostInvariant, PTL

-----------------------------------------------------------------------------
(* The ledger *)

(* The rows up to the last anchor, in the order of the table.              *)
LEMMA AttestedArranged ==
    ASSUME NEW S, rows \in Seq(S), \A i \in DOMAIN rows : rows[i].chain_seq \in Int,
           anchors # <<>>
    PROVE  ArrangedByKey(Attested, rows, {i \in DOMAIN rows : rows[i].chain_seq <= LastAnchored},
                         [i \in DOMAIN rows |-> rows[i].chain_seq])
<1> DEFINE T(i) == rows[i].chain_seq <= LastAnchored
           P(i) == {j \in DOMAIN rows :
                         /\ T(j)
                         /\ \/ rows[j].chain_seq < rows[i].chain_seq
                            \/ ~(rows[i].chain_seq < rows[j].chain_seq) /\ j < i}
           I    == {i \in DOMAIN rows : T(i)}
           At(k) == CHOOSE i \in DOMAIN rows : /\ T(i)
                                               /\ k = 1 + Cardinality(P(i))
           c == [k \in 1..Cardinality(I) |-> At(k)]
<1>1. PICK key : key = [i \in DOMAIN rows |-> rows[i].chain_seq]
  OBVIOUS
<1>2. /\ Len(rows) \in Nat /\ DOMAIN rows = 1..Len(rows) /\ I \subseteq 1..Len(rows)
      /\ \A i \in DOMAIN rows : key[i] \in Int /\ key[i] = rows[i].chain_seq
  BY <1>1
<1>3. Attested = [k \in 1..Cardinality(I) |-> rows[c[k]]] \o <<>>
  <2>1. Attested = [k \in 1..Cardinality(I) |-> rows[At(k)]] \o <<>>
    BY DEF Attested, Arranged
  <2> HIDE DEF At, I
  <2> QED BY <2>1
<1>4. \A i \in I : P(i) = Under(I, key, i)
  BY <1>2 DEF Under
<1>5. ASSUME NEW k \in 1..Cardinality(I),
             \E i \in I : k = 1 + Cardinality(Under(I, key, i))
      PROVE  c[k] \in I /\ k = 1 + Cardinality(Under(I, key, c[k]))
  <2> HIDE DEF P, T
  <2>1. \E i \in DOMAIN rows : /\ T(i)
                               /\ k = 1 + Cardinality(P(i))
    BY <1>4, <1>5
  <2>2. At(k) \in I /\ k = 1 + Cardinality(P(At(k)))
    BY <2>1
  <2>3. c[k] = At(k)
    OBVIOUS
  <2> QED BY <1>4, <2>2, <2>3
<1> HIDE DEF c
<1>6. \A i \in I : key[i] \in Int
  BY <1>2
<1> HIDE DEF I
<1>7. ArrangedByKey(Attested, rows, I, key)
  BY <1>2, <1>3, <1>5, <1>6, Arranging
<1> QED BY <1>1, <1>7 DEF I

(* They are the first rows, up to the number the last anchor ends at.      *)
LEMMA AttestedRows ==
    ASSUME SystemInv, Accepted, anchors # <<>>
    PROVE  \E e \in 1..Len(anchors) : \E m \in 1..Len(rows) :
               /\ LastAnchored = AnchorsById[e].to_seq
               /\ InOrder[m].chain_seq = LastAnchored
               /\ Attested = [k \in 1..m |-> InOrder[k]]
<1>1. /\ anchors \in Seq(Bodies("chain_anchor")) /\ rows \in Seq(Bodies("chain_row"))
      /\ \A i \in DOMAIN rows : rows[i].chain_seq \in Int
      /\ Bodies("chain_anchor") = {anchors[i] : i \in DOMAIN anchors}
  BY AcceptedLines
<1>2. rows # <<>>
  <2>1. 1 \in DOMAIN anchors /\ anchors[1] \in Bodies("chain_anchor")
    BY <1>1
  <2>2. PICK k \in 1..Len(rows) : TRUE
    BY <2>1, HeadIsHeld
  <2> QED BY <2>2
<1>3. PICK e \in 1..Len(anchors) : LastAnchored = AnchorsById[e].to_seq
  <2>1. PICK E : E = {a.to_seq : a \in Bodies("chain_anchor")}
    OBVIOUS
  <2>2. E = {anchors[i].to_seq : i \in DOMAIN anchors}
    BY <1>1, <2>1
  <2>3. PICK e \in 1..Len(anchors) : Max(E) = AnchorsById[e].to_seq
    BY <1>2, <2>1, LastNumbers
  <2> QED BY <2>2, <2>3 DEF LastAnchored
<1>4. PICK n, f, z : n = Len(rows) /\ f = InOrder[1].chain_seq /\ z = LastAnchored
  OBVIOUS
<1>5. /\ n \in Nat \ {0} /\ f \in Int /\ DOMAIN rows = 1..n
      /\ \A k \in 1..n : InOrder[k].chain_seq = f + k - 1
  <2>1. n \in Nat \ {0} /\ DOMAIN rows = 1..n
    BY <1>2, <1>4, LastNumbers, RowsInARow
  <2>2. \A k \in 1..n : InOrder[k].chain_seq \in Int /\ InOrder[k].chain_seq = f + k - 1
    BY <1>4, RowsInARow
  <2>3. 1 \in 1..n
    BY <2>1
  <2> QED BY <1>4, <2>1, <2>2, <2>3
<1>6. PICK m \in 1..n : InOrder[m].chain_seq = z
  <2>1. AnchorsById[e] \in Bodies("chain_anchor")
    <3>1. \A i \in DOMAIN anchors : anchors[i].id \in Int
      BY AcceptedLines
    <3>2. PICK i \in DOMAIN anchors : AnchorsById[e] = anchors[i]
      BY <1>1, <1>3, <3>1, AnchorsSorted
    <3> QED BY <1>1, <3>2
  <2> QED BY <1>3, <1>4, <2>1, HeadIsHeld
<1>7. z = f + m - 1
  BY <1>5, <1>6
<1>8. PICK d : Enumerates(DOMAIN rows, d) /\ \A k \in 1..n : InOrder[k] = rows[d[k]]
  BY <1>1, <1>4, RowsSorted
<1>9. PICK I, key : /\ I = {i \in DOMAIN rows : rows[i].chain_seq <= z}
                    /\ key = [i \in DOMAIN rows |-> rows[i].chain_seq]
  OBVIOUS
<1>10. /\ \A k \in 1..n : d[k] \in 1..n /\ key[d[k]] = f + k - 1
       /\ \A i \in 1..n : \E k \in 1..n : d[k] = i
       /\ \A j, k \in 1..n : d[j] = d[k] => j = k
  <2>1. Cardinality(DOMAIN rows) = n
    BY <1>5, CountTo
  <2>2. /\ \A k \in 1..n : d[k] \in 1..n
        /\ \A i \in 1..n : \E k \in 1..n : d[k] = i
        /\ \A j, k \in 1..n : d[j] = d[k] => j = k
    BY <1>5, <1>8, <2>1 DEF Enumerates
  <2>3. ASSUME NEW k \in 1..n PROVE key[d[k]] = f + k - 1
    BY <1>5, <1>8, <1>9, <2>2
  <2> QED BY <2>2, <2>3
<1>11. \A i \in 1..n : i \in I <=> key[i] <= z
  BY <1>5, <1>9
<1>12. Enumerates(I, d) /\ Cardinality(I) = m
  <2>1. \A k \in 1..m : k \in 1..n /\ f + k - 1 <= z
    BY <1>5, <1>7
  <2>2. ASSUME NEW k \in 1..m PROVE d[k] \in I
    <3>1. PICK i : i = d[k]
      OBVIOUS
    <3>2. i \in 1..n /\ key[i] = f + k - 1 /\ f + k - 1 <= z
      BY <1>10, <2>1, <3>1
    <3> QED BY <1>11, <3>1, <3>2
  <2>3. ASSUME NEW i \in I PROVE \E k \in 1..m : d[k] = i
    <3>1. i \in 1..n
      BY <1>5, <1>9
    <3>2. PICK k \in 1..n : d[k] = i
      BY <1>10, <3>1
    <3>3. f + k - 1 <= z
      <4>1. key[i] = f + k - 1 /\ key[i] <= z
        BY <1>10, <1>11, <3>1, <3>2
      <4> QED BY <4>1
    <3>4. k \in 1..m
      BY <1>5, <1>7, <3>3
    <3> QED BY <3>2, <3>4
  <2>4. \A j, k \in 1..m : d[j] = d[k] => j = k
    BY <1>10, <2>1
  <2>5. m \in Nat
    BY <1>5
  <2> QED BY <2>2, <2>3, <2>4, <2>5, ListedOnce
<1>13. EnumeratesByKey(I, key, d)
  <2>1. ASSUME NEW j \in 1..m, NEW k \in 1..m, j < k PROVE key[d[j]] < key[d[k]]
    <3>1. j \in 1..n /\ k \in 1..n /\ f + j - 1 < f + k - 1
      BY <1>5, <2>1
    <3> QED BY <1>10, <3>1
  <2> QED BY <1>12, <2>1 DEF EnumeratesByKey
<1>14. ArrangedByKey(Attested, rows, I, key)
  BY <1>1, <1>4, <1>9, AttestedArranged
<1>15. PICK c : EnumeratesByKey(I, key, c) /\ Attested = [k \in 1..Cardinality(I) |-> rows[c[k]]]
  BY <1>14 DEF ArrangedByKey
<1>16. \A i \in I : key[i] \in Int /\ i \in Int
  BY <1>1, <1>5, <1>9
<1>17. \A k \in 1..m : c[k] = d[k]
  BY <1>12, <1>13, <1>15, <1>16, OneOrder
<1>18. Attested = [k \in 1..m |-> InOrder[k]]
  <2>1. \A k \in 1..m : k \in 1..n
    BY <1>5
  <2>2. \A k \in 1..m : rows[c[k]] = InOrder[k]
    BY <1>8, <1>17, <2>1
  <2> QED BY <1>12, <1>15, <2>2
<1> QED BY <1>3, <1>4, <1>6, <1>18

(* What an accepted pack shows is a window of what is sealed of a table.   *)
Windowed ==
    \E t \in Tables : \E from \in 1..(AnchoredTo(t) + 1) : \E to \in 0..AnchoredTo(t) :
        Shown = SubSeq(EntryHashes(log[t]), from, to)

(* The entry hashes of a table, and the last of them that is sealed.       *)
LEMMA SealedPart ==
    ASSUME Database, NEW t \in Tables
    PROVE  /\ AnchoredTo(t) \in 0..Len(log[t]) /\ Len(log[t]) \in Nat
           /\ EntryHashes(log[t]) = [i \in 1..Len(log[t]) |-> log[t][i].entry_hash]
           /\ IsListOf(EntryHashes(log[t])) /\ Len(EntryHashes(log[t])) = Len(log[t])
           /\ \A n \in 1..Len(issued[t]) : issued[t][n].to_seq <= AnchoredTo(t)
<1>1. PICK s, w, m : s = issued[t] /\ w = log[t] /\ m = Len(issued[t])
  OBVIOUS
<1>2. /\ m \in Nat /\ IsListOf(s) /\ IsListOf(w) /\ Len(w) \in Nat /\ DOMAIN w = 1..Len(w)
      /\ \A n \in 1..m : /\ s[n].from_seq \in Nat /\ s[n].to_seq \in 0..Len(w)
                         /\ s[n].from_seq <= s[n].to_seq
      /\ \A j, n \in 1..m : j < n => s[j].to_seq < s[n].from_seq
  <2>1. IsListOf(s) /\ IsListOf(w)
    BY <1>1 DEF Database, Logged, Issued
  <2>2. Len(w) \in Nat /\ DOMAIN w = 1..Len(w) /\ m \in Nat
    BY <1>1, <2>1 DEF IsListOf
  <2> QED BY <1>1, <2>1, <2>2, RangesAscend
<1>3. AnchoredTo(t) = IF m = 0 THEN 0 ELSE s[m].to_seq
  BY <1>1, <1>2 DEF AnchoredTo, Last, IsListOf
<1>4. AnchoredTo(t) \in 0..Len(w)
  BY <1>2, <1>3
<1>5. ASSUME NEW n \in 1..m PROVE s[n].to_seq <= AnchoredTo(t)
  <2>1. m # 0 /\ m \in 1..m
    BY <1>2
  <2>2. CASE n = m
    BY <1>2, <1>3, <2>1, <2>2
  <2>3. CASE n # m
    <3>1. PICK x, y, z : x = s[n].to_seq /\ y = s[m].from_seq /\ z = s[m].to_seq
      OBVIOUS
    <3>2. n < m
      BY <1>2, <2>3
    <3>3. x < y /\ y <= z /\ x \in Int /\ y \in Int /\ z \in Int
      BY <1>2, <2>1, <3>1, <3>2
    <3> QED BY <1>3, <2>1, <3>1, <3>3
  <2> QED BY <2>2, <2>3
<1>6. PICK h : h = EntryHashes(w)
  OBVIOUS
<1>7. h = [i \in 1..Len(w) |-> w[i].entry_hash]
  BY <1>2, <1>6 DEF EntryHashes
<1>8. h \in Seq({w[i].entry_hash : i \in 1..Len(w)}) /\ Len(h) = Len(w)
  BY <1>2, <1>7
<1>9. IsListOf(h)
  BY <1>8, AnyList
<1> QED BY <1>1, <1>2, <1>4, <1>5, <1>6, <1>7, <1>8, <1>9

(* The rows an accepted pack attests are a window of one table.            *)
LEMMA ShownIsWindow == SystemInv /\ Accepted => Windowed
<1> SUFFICES ASSUME SystemInv, Accepted PROVE Windowed
  OBVIOUS
<1>1. Shown = EntryHashes(Attested) /\ Database
  BY DEF Shown, SystemInv
<1>2. CASE anchors = <<>>
  <2>1. Shown = <<>>
    BY <1>1, <1>2 DEF Attested, EntryHashes
  <2>2. named \in Tables
    BY DEF SystemInv, Delivered, Stages, Accepted
  <2>3. PICK h, n : h = EntryHashes(log[named]) /\ n = AnchoredTo(named)
    OBVIOUS
  <2>4. n \in Nat /\ IsListOf(h) /\ Len(h) \in Nat
    <3>1. PICK l : l = Len(log[named])
      OBVIOUS
    <3>2. n \in 0..l /\ l \in Nat /\ IsListOf(h) /\ Len(h) = l
      BY <1>1, <2>2, <2>3, <3>1, SealedPart
    <3> QED BY <3>2
  <2>5. SubSeq(h, 1, 0) = <<>> /\ 1 \in 1..(n + 1) /\ 0 \in 0..n
    BY <2>4
  <2> QED BY <2>1, <2>2, <2>3, <2>5 DEF Windowed
<1>3. CASE anchors # <<>>
  <2>1. PICK e \in 1..Len(anchors) : \E m \in 1..Len(rows) :
               /\ LastAnchored = AnchorsById[e].to_seq
               /\ InOrder[m].chain_seq = LastAnchored
               /\ Attested = [k \in 1..m |-> InOrder[k]]
    BY <1>3, AttestedRows
  <2>2. PICK m \in 1..Len(rows) : /\ LastAnchored = AnchorsById[e].to_seq
                                  /\ InOrder[m].chain_seq = LastAnchored
                                  /\ Attested = [k \in 1..m |-> InOrder[k]]
    BY <2>1
  <2>3. PICK t, z, f, n, h : /\ t = header.table /\ z = LastAnchored
                             /\ f = InOrder[1].chain_seq /\ n = Len(rows)
                             /\ h = EntryHashes(log[header.table])
    OBVIOUS
  <2>4. t \in Tables
    BY <1>3, <2>3, AnchorsInARow
  <2>5. z \in 1..AnchoredTo(t)
    <3>1. PICK i \in Nat \ {0} : /\ i + Len(anchors) - 1 <= Len(issued[t])
                                 /\ \A k \in 1..Len(anchors) :
                                       Same(AnchorsById[k], issued[t][i + k - 1])
      BY <1>3, <2>3, AnchorsInARow
    <3>2. PICK j : j = i + e - 1
      OBVIOUS
    <3>3. Len(anchors) \in Nat /\ Len(issued[t]) \in Nat
      BY <1>1, <1>3, <2>4, AnchorsInARow, RangesAscend
    <3>4. j \in 1..Len(issued[t])
      BY <3>1, <3>2, <3>3
    <3>5. z = issued[t][j].to_seq
      BY <2>2, <2>3, <3>1, <3>2 DEF Same
    <3>6. z <= AnchoredTo(t) /\ z \in 1..Len(log[t])
      BY <1>1, <2>4, <3>4, <3>5, SealedPart, RangesAscend
    <3>7. PICK q, l : q = AnchoredTo(t) /\ l = Len(log[t])
      OBVIOUS
    <3>8. q \in 0..l /\ l \in Nat
      BY <1>1, <2>4, <3>7, SealedPart
    <3> QED BY <3>6, <3>7, <3>8
  <2>6. /\ n \in Nat /\ f \in Int
        /\ \A k \in 1..n : InOrder[k].chain_seq = f + k - 1 /\ InOrder[k].chain_seq \in Int
    <3>1. n \in Nat /\ 1 \in 1..n
      BY <2>3, RowsInARow
    <3> QED BY <2>3, <3>1, RowsInARow
  <2>7. z = f + m - 1
    BY <2>2, <2>3, <2>6
  <2>8. ASSUME NEW k \in 1..m PROVE Held(t, k)
    <3>1. AnchorsById[e] \in Bodies("chain_anchor")
      <4>1. /\ anchors \in Seq(Bodies("chain_anchor"))
            /\ \A i \in DOMAIN anchors : anchors[i].id \in Int
            /\ Bodies("chain_anchor") = {anchors[i] : i \in DOMAIN anchors}
        BY AcceptedLines
      <4>2. PICK i \in DOMAIN anchors : AnchorsById[e] = anchors[i]
        BY <4>1, AnchorsSorted
      <4> QED BY <4>1, <4>2
    <3>2. k \in 1..n /\ f + k - 1 <= z
      BY <2>2, <2>3, <2>6, <2>7
    <3>3. InOrder[k].chain_seq <= AnchorsById[e].to_seq
      BY <2>2, <2>3, <2>6, <3>2
    <3> QED BY <2>3, <3>1, <3>2, <3>3, AttestedIsHeld
  <2>9. f \in Nat \ {0} /\ f <= z
    <3>1. 1 \in 1..m /\ m \in Int
      BY <2>2, <2>3, <2>6
    <3>2. f \in 1..Len(log[t])
      BY <2>3, <2>8, <3>1 DEF Held
    <3>3. f \in Nat \ {0}
      BY <1>1, <2>4, <3>2, SealedPart
    <3> QED BY <2>7, <3>1, <3>3
  <2>10. /\ h = [i \in 1..Len(log[t]) |-> log[t][i].entry_hash]
         /\ IsListOf(h) /\ Len(h) = Len(log[t]) /\ Len(h) \in Nat
         /\ AnchoredTo(t) \in 0..Len(h)
    BY <1>1, <2>3, <2>4, SealedPart
  <2>11. ASSUME NEW k \in 1..m PROVE InOrder[k].entry_hash = h[f + k - 1]
    <3>1. k \in 1..n
      BY <2>2, <2>3, <2>6
    <3>2. InOrder[k].chain_seq = f + k - 1
      BY <2>6, <3>1
    <3> QED BY <2>8, <2>10, <3>2 DEF Held
  <2>12. Shown = [k \in 1..m |-> h[f + k - 1]]
    <3>1. PICK A : A = Attested
      OBVIOUS
    <3>2. DOMAIN A = 1..m /\ \A k \in 1..m : A[k] = InOrder[k]
      BY <2>2, <3>1
    <3>3. Shown = [k \in 1..m |-> A[k].entry_hash]
      BY <1>1, <3>1, <3>2 DEF EntryHashes
    <3> QED BY <2>11, <3>2, <3>3
  <2>13. SubSeq(h, f, z) = [k \in 1..(z - f + 1) |-> h[f + k - 1]]
    <3>1. h \in Seq(Range(h)) /\ f \in 1..Len(h) /\ z \in 1..Len(h)
      BY <2>5, <2>9, <2>10 DEF IsListOf
    <3> QED BY <3>1
  <2>14. z - f + 1 = m /\ f \in 1..(AnchoredTo(t) + 1) /\ z \in 0..AnchoredTo(t)
    <3>1. PICK q : q = AnchoredTo(t)
      OBVIOUS
    <3>2. q \in Nat
      BY <2>10, <3>1
    <3>3. m \in Int
      BY <2>2, <2>3, <2>6
    <3> QED BY <2>5, <2>6, <2>7, <2>9, <3>1, <3>2, <3>3
  <2>15. Shown = SubSeq(EntryHashes(log[t]), f, z)
    BY <2>3, <2>12, <2>13, <2>14
  <2> QED BY <2>4, <2>14, <2>15 DEF Windowed
<1> QED BY <1>2, <1>3

(* What the mapping to the ledger needs of a state. *)
Showing == Accepted => Windowed

(* Nothing is shown before the report.                                     *)
LEMMA NothingShown ==
    ASSUME pc # "report"
    PROVE  Answer = "none" /\ Shown = <<>>
BY DEF Answer, Shown, Accepted

(* Empty tables are an empty ledger.                                       *)
LEMMA InitLedger == SystemInit => L!Init
<1> SUFFICES ASSUME SystemInit PROVE L!Init
  OBVIOUS
<1>1. /\ log = [t \in Tables |-> <<>>] /\ issued = [t \in Tables |-> <<>>] /\ pc = "idle"
  BY DEF SystemInit, Init
<1>2. Histories = [t \in Tables |-> <<>>]
  BY <1>1 DEF Histories, EntryHashes
<1>3. SealedTo = [t \in Tables |-> 0]
  BY <1>1 DEF SealedTo, AnchoredTo
<1>4. Answer = "none" /\ Shown = <<>>
  BY <1>1, NothingShown
<1> QED BY <1>2, <1>3, <1>4 DEF L!Init

(* A row or an anchor more is a step of the ledger.                        *)
LEMMA TablesGrow ==
    ASSUME SystemInv, Database', NEW t \in Tables, Insert(t) \/ AnchorHead(t)
    PROVE  L!Grow(t)
<1>1. /\ pc = "idle" /\ pc' = "idle"
      /\ DOMAIN log = Tables /\ DOMAIN issued = Tables /\ Database
      /\ \A u \in Tables : u # t => log'[u] = log[u] /\ issued'[u] = issued[u]
      /\ DOMAIN log' = Tables /\ DOMAIN issued' = Tables
  BY DEF SystemInv, Delivered, Stages, Database, Insert, AnchorHead, vars
<1>2. UNCHANGED <<Answer, Shown>>
  <2>1. (Answer = "none" /\ Shown = <<>>)'
    BY <1>1 DEF Answer, Shown, Accepted
  <2> QED BY <1>1, <2>1, NothingShown
<1>3. /\ Histories' = [u \in Tables |-> EntryHashes(log'[u])]
      /\ Histories = [u \in Tables |-> EntryHashes(log[u])]
      /\ SealedTo' = [u \in Tables |-> AnchoredTo(u)']
      /\ SealedTo = [u \in Tables |-> AnchoredTo(u)]
  BY DEF Histories, SealedTo, EntryHashes, AnchoredTo
<1>4. \A u \in Tables : u # t => /\ EntryHashes(log'[u]) = EntryHashes(log[u])
                                 /\ AnchoredTo(u)' = AnchoredTo(u)
  BY <1>1 DEF AnchoredTo
<1>5. /\ Histories' = [Histories EXCEPT ![t] = Histories'[t]]
      /\ SealedTo' = [SealedTo EXCEPT ![t] = SealedTo'[t]]
  BY <1>3, <1>4
<1>6. PICK w, x, a, b, h, g : /\ w = log[t] /\ x = log'[t]
                              /\ a = AnchoredTo(t) /\ b = AnchoredTo(t)'
                              /\ h = EntryHashes(log[t]) /\ g = EntryHashes(log'[t])
  OBVIOUS
<1>7. /\ a \in 0..Len(w) /\ Len(w) \in Nat /\ h = [i \in 1..Len(w) |-> w[i].entry_hash]
      /\ IsListOf(h) /\ Len(h) = Len(w)
      /\ \A n \in 1..Len(issued[t]) : issued[t][n].to_seq <= a
  BY <1>1, <1>6, SealedPart
<1>8. /\ IsListOf(x) /\ DOMAIN x = 1..Len(x) /\ Len(x) \in Nat /\ Len(w) <= Len(x)
      /\ \A n \in 1..Len(w) : x[n] = w[n]
  <2>1. CASE Insert(t)
    <3>1. /\ Len(x) = Len(w) + 1 /\ Len(w) \in Nat /\ IsListOf(x)
          /\ \A n \in 1..Len(w) : x[n] = w[n]
      BY <1>1, <1>6, <2>1, InsertLogged
    <3> QED BY <3>1 DEF IsListOf
  <2>2. CASE AnchorHead(t)
    <3>1. x = w /\ IsListOf(w)
      BY <1>1, <1>6, <2>2 DEF AnchorHead, Database, Logged
    <3> QED BY <1>7, <3>1 DEF IsListOf
  <2> QED BY <2>1, <2>2
<1>9. g = [i \in 1..Len(x) |-> x[i].entry_hash] /\ IsListOf(g) /\ Len(g) = Len(x)
  <2>1. g = [i \in 1..Len(x) |-> x[i].entry_hash]
    BY <1>6, <1>8 DEF EntryHashes
  <2>2. g \in Seq({x[i].entry_hash : i \in 1..Len(x)}) /\ Len(g) = Len(x)
    BY <1>8, <2>1
  <2> QED BY <2>1, <2>2, AnyList
<1>10. IsPrefix(h, g)
  <2>1. \A n \in 1..Len(h) : h[n] = g[n] /\ n \in 1..Len(g)
    BY <1>7, <1>8, <1>9
  <2>2. Len(h) \in Nat /\ Len(g) \in Nat /\ Len(h) <= Len(g)
    BY <1>7, <1>8, <1>9
  <2>3. SubSeq(h, 1, Len(h)) = [n \in 1..Len(h) |-> h[n]]
    BY <1>7, <2>2 DEF IsListOf
  <2>4. SubSeq(g, 1, Len(h)) = [n \in 1..Len(h) |-> g[n]]
    BY <1>9, <2>2 DEF IsListOf
  <2> QED BY <2>1, <2>2, <2>3, <2>4 DEF IsPrefix
<1>11. b \in a..Len(g)
  <2>1. CASE Insert(t)
    <3>1. b = a
      BY <1>6, <2>1 DEF Insert, AnchoredTo
    <3> QED BY <1>7, <1>8, <1>9, <3>1
  <2>2. CASE AnchorHead(t)
    <3>1. PICK m, s : m = Len(issued[t]) /\ s = issued'[t]
      OBVIOUS
    <3>2. /\ m \in Nat /\ Len(s) = m + 1 /\ IsListOf(s) /\ Sealing(t, m + 1)'
          /\ \A n \in 1..m : s[n] = issued[t][n] /\ log' = log
      BY <1>1, <2>2, <3>1, AnchorIssued
    <3>3. PICK j : j = m + 1
      OBVIOUS
    <3>4. b = s[j].to_seq
      BY <1>6, <3>1, <3>2, <3>3 DEF AnchoredTo, Last, IsListOf
    <3>5. PICK y : y = s[j].from_seq
      OBVIOUS
    <3>6. /\ y = IF j = 1 THEN 1 ELSE s[j-1].to_seq + 1
          /\ b \in y..Len(x) /\ y \in Nat \ {0}
      BY <1>6, <3>1, <3>2, <3>3, <3>4, <3>5 DEF Sealing
    <3>7. a = IF m = 0 THEN 0 ELSE issued[t][m].to_seq
      <4>1. IsListOf(issued[t])
        BY <1>1 DEF Database, Issued
      <4> QED BY <1>6, <3>1, <4>1 DEF AnchoredTo, Last, IsListOf
    <3>8. y = a + 1
      <4>1. CASE m = 0
        BY <3>3, <3>6, <3>7, <4>1
      <4>2. CASE m # 0
        <5>1. m \in 1..m /\ j # 1 /\ j - 1 = m
          BY <3>2, <3>3, <4>2
        <5> QED BY <3>2, <3>6, <3>7, <4>2, <5>1
      <4> QED BY <4>1, <4>2
    <3> QED BY <1>7, <1>8, <1>9, <3>6, <3>8
  <2> QED BY <2>1, <2>2
<1>12. /\ Histories[t] = h /\ Histories'[t] = g /\ SealedTo[t] = a /\ SealedTo'[t] = b
  BY <1>3, <1>6
<1>13. L!IsBook(Histories'[t])
  BY <1>9, <1>12 DEF L!IsBook, L!Range, IsListOf, Range
<1>14. L!IsPrefix(Histories[t], Histories'[t])
  BY <1>10, <1>12 DEF L!IsPrefix, IsPrefix
<1> QED BY <1>2, <1>5, <1>11, <1>12, <1>13, <1>14 DEF L!Grow, L!answer

(* A step of verify_chain() tells nothing before its last check.           *)
LEMMA VerifyTells ==
    ASSUME SystemInv, Showing', VerifyChain, UNCHANGED system
    PROVE  L!Next \/ UNCHANGED L!vars
<1>1. /\ named \in Tables
      /\ Histories' = Histories /\ SealedTo' = SealedTo
      /\ pc # "report"
  <2>1. pc # "idle" /\ pc # "report"
    BY DEF VerifyChain, Parse, ReadBlank, ReadHeader, ReadSigningKeys, ReadChainRow,
       ReadChainAnchor, ReadManifest, ReadOther, ReadMalformed, ParseDone, AtLine,
       Check, CheckParse, CheckHeader, CheckManifestTerminal, CheckCounts, CheckSigningKeys,
       CheckRowRecompute, CheckLinkage, CheckAnchorSignature, CheckHeadBinding,
       CheckContinuity, CheckCoverage, Record, Skip
  <2>2. named \in Tables
    BY <2>1 DEF SystemInv, Delivered, Stages
  <2>3. log' = log /\ issued' = issued
    BY DEF system, database
  <2> QED BY <2>1, <2>2, <2>3 DEF Histories, EntryHashes, SealedTo, AnchoredTo
<1>2. Answer = "none" /\ Shown = <<>>
  BY <1>1, NothingShown
<1>3. CASE pc' # "report"
  <2>1. Answer' = "none" /\ Shown' = <<>>
    BY <1>3 DEF Answer, Shown, Accepted
  <2> QED BY <1>1, <1>2, <2>1 DEF L!vars, L!books, L!answer
<1>4. CASE pc' = "report" /\ ~Passed'
  <2>1. Answer' = "FAIL" /\ Shown' = <<>>
    BY <1>4 DEF Answer, Shown, Accepted
  <2>2. L!Reject
    BY <1>1, <1>2, <2>1 DEF L!Reject, L!books
  <2> QED BY <1>1, <2>2 DEF L!Next
<1>5. CASE pc' = "report" /\ Passed'
  <2>1. Answer' = "PASS"
    BY <1>5 DEF Answer
  <2>2. Windowed'
    BY <1>5 DEF Showing, Accepted
  <2>3. log' = log /\ issued' = issued
    BY DEF system, database
  <2>4. PICK t \in Tables :
            \E from \in 1..(AnchoredTo(t) + 1) : \E to \in 0..AnchoredTo(t) :
                Shown' = SubSeq(EntryHashes(log[t]), from, to)
    BY <2>2, <2>3 DEF Windowed, AnchoredTo, EntryHashes
  <2>5. PICK from \in 1..(AnchoredTo(t) + 1), to \in 0..AnchoredTo(t) :
                Shown' = SubSeq(EntryHashes(log[t]), from, to)
    BY <2>4
  <2>6. Histories[t] = EntryHashes(log[t]) /\ SealedTo[t] = AnchoredTo(t)
    BY DEF Histories, SealedTo
  <2>7. Shown' \in L!Windows(t)
    BY <2>5, <2>6 DEF L!Windows
  <2>8. L!Show(t)
    BY <1>1, <1>2, <2>1, <2>7 DEF L!Show, L!books
  <2> QED BY <2>8 DEF L!Next
<1> QED BY <1>3, <1>4, <1>5

(* Every step maps to a step of the ledger or to none. *)
LEMMA StepLedger ==
    SystemInv /\ SystemInv' /\ Showing' /\ [SystemNext]_<<system, vars>> => [L!Next]_L!vars
<1> SUFFICES ASSUME SystemInv, SystemInv', Showing', [SystemNext]_<<system, vars>>
             PROVE  L!Next \/ UNCHANGED L!vars
  OBVIOUS
<1>1. CASE \E t \in Tables : Insert(t) \/ AnchorHead(t)
  <2>1. PICK t \in Tables : Insert(t) \/ AnchorHead(t)
    BY <1>1
  <2>2. L!Grow(t)
    BY <2>1, TablesGrow DEF SystemInv
  <2> QED BY <2>2 DEF L!Next
<1>2. CASE VerifyChain /\ UNCHANGED system
  BY <1>2, VerifyTells
<1>3. ASSUME UNCHANGED database, pc # "report", pc' # "report" PROVE UNCHANGED L!vars
  <2>1. Histories' = Histories /\ SealedTo' = SealedTo
    BY <1>3 DEF database, Histories, EntryHashes, SealedTo, AnchoredTo
  <2>2. Answer = "none" /\ Shown = <<>>
    BY <1>3, NothingShown
  <2>3. Answer' = "none" /\ Shown' = <<>>
    BY <1>3 DEF Answer, Shown, Accepted
  <2> QED BY <2>1, <2>2, <2>3 DEF L!vars, L!books, L!answer
<1>4. ASSUME stage # "verify", UNCHANGED database, UNCHANGED vars PROVE UNCHANGED L!vars
  <2>1. pc = "idle" /\ pc' = pc
    BY <1>4 DEF SystemInv, Delivered, Stages, vars
  <2> QED BY <1>3, <1>4, <2>1
<1>5. CASE \E t \in Tables : \E i, j \in DOMAIN issued[t] : i <= j /\ Export(t, i, j)
  <2>1. stage = "live" /\ UNCHANGED database /\ UNCHANGED vars
    BY <1>5 DEF Export
  <2> QED BY <1>4, <2>1
<1>6. CASE Spoil
  <2>1. stage \in {"draft", "transit"} /\ UNCHANGED database /\ UNCHANGED vars
    BY <1>6 DEF Spoil, Reorder, Newer, Omit, Repeat, Misname, Foreign, Lose, Truncate,
       Duplicate, Blank, Garble, Rewrite, Alter, Strike
  <2> QED BY <1>4, <2>1
<1>7. CASE Seal
  <2>1. stage = "draft" /\ UNCHANGED database /\ UNCHANGED vars
    BY <1>7 DEF Seal
  <2> QED BY <1>4, <2>1
<1>8. CASE Deliver
  <2>1. pc = "idle" /\ pc' = "parse" /\ UNCHANGED database
    BY <1>8 DEF Deliver, Submit
  <2> QED BY <1>3, <2>1
<1>9. CASE UNCHANGED <<system, vars>>
  <2>1. /\ log' = log /\ issued' = issued /\ pc' = pc /\ findings' = findings
        /\ rows' = rows /\ anchors' = anchors
    BY <1>9 DEF system, database, vars, loaded
  <2>2. Histories' = Histories /\ SealedTo' = SealedTo
    BY <2>1 DEF Histories, EntryHashes, SealedTo, AnchoredTo
  <2>3. Accepted' = Accepted /\ Answer' = Answer
    BY <2>1 DEF Answer, Accepted, Passed
  <2>4. LastAnchored' = LastAnchored
    BY <2>1 DEF LastAnchored
  <2>5. Attested' = Attested
    BY <2>1, <2>4 DEF Attested, Arranged
  <2>6. EntryHashes(Attested)' = EntryHashes(Attested)
    BY <2>5 DEF EntryHashes
  <2> QED BY <2>2, <2>3, <2>6 DEF L!vars, L!books, L!answer, Shown
<1> QED BY <1>1, <1>2, <1>5, <1>6, <1>7, <1>8, <1>9 DEF SystemNext

(* Tables, anchors and verify_chain() implement the ledger: a table is     *)
(* only added to, an anchor seals what is under it, and what a PASS shows  *)
(* is a window of one table as it was sealed (chain.rs:9-10).              *)
THEOREM TablesAreALedger == SystemSpec => LedgerOfTables
<1>1. SystemInv => Showing
  BY ShownIsWindow DEF Showing
<1> QED BY <1>1, SystemInvariant, InitLedger, StepLedger, PTL
        DEF SystemSpec, LedgerOfTables, L!Spec

=============================================================================
