----------------------------- MODULE RepoProofs ------------------------------
(***************************************************************************)
(* Proofs about what is read from a clamped repo and its app, and what is  *)
(* kept in its .jig, for every value of the constants: each part by        *)
(* itself, then the run that MCRepo makes of them.                         *)
(***************************************************************************)
EXTENDS MCRepo, WellFoundedInduction, FiniteSetTheorems, TLAPS

-----------------------------------------------------------------------------
(* Numbers and sequences                                                   *)

LEMMA LeastOf == ASSUME NEW S, S \subseteq Nat, S # {} PROVE \E x \in S : \A y \in S : x <= y
<1>1. IsWellFoundedOn(OpToRel(<, Nat), Nat)
  BY NatLessThanWellFounded
<1>2. PICK x \in S : \A y \in S : ~ (<<y, x>> \in OpToRel(<, Nat))
  BY <1>1, WFMin
<1>3. \A y \in S : ~ (y < x)
  BY <1>2 DEF OpToRel
<1> QED BY <1>3

LEMMA AppendIs ==
  ASSUME NEW S, NEW q \in Seq(S), NEW x \in S
  PROVE  LET p == Append(q, x) IN
         /\ p \in Seq(S) /\ Len(p) = Len(q) + 1 /\ p[Len(q) + 1] = x
         /\ \A i \in DOMAIN q : p[i] = q[i]
         /\ \A i \in DOMAIN p : i \in DOMAIN q \/ i = Len(q) + 1
         /\ \A i \in DOMAIN q : i \in Nat /\ 1 <= i /\ i <= Len(q) /\ i \in DOMAIN p /\ q[i] \in S
         /\ Len(q) \in Nat /\ Len(q) + 1 \in DOMAIN p
OBVIOUS

-----------------------------------------------------------------------------
(* Docs: the index of a folder                                             *)

DocNames == Seq(PathNames)
DocPaths == DocNames \ {<<>>}

LEMMA SamePath ==
  ASSUME NEW s \in DocNames, NEW t \in DocNames, NEW m, Len(s) = m, Len(t) = m, \A i \in 1 .. m : s[i] = t[i]
  PROVE  s = t
BY DEF DocNames

LEMMA PrefixIs ==
  ASSUME NEW s \in DocNames, NEW t \in DocNames
  PROVE  IsPrefix(s, t) <=> (Len(s) <= Len(t) /\ \A i \in 1 .. Len(s) : s[i] = t[i])
<1>1. SubSeq(s, 1, Len(s)) = s
  BY DEF DocNames
<1>2. CASE Len(s) <= Len(t)
  <2>1. /\ SubSeq(t, 1, Len(s)) \in DocNames /\ Len(SubSeq(t, 1, Len(s))) = Len(s)
        /\ \A i \in 1 .. Len(s) : SubSeq(t, 1, Len(s))[i] = t[i]
    BY <1>2 DEF DocNames
  <2> QED BY <1>1, <1>2, <2>1, SamePath DEF IsPrefix
<1>3. CASE ~ (Len(s) <= Len(t))
  BY <1>3 DEF IsPrefix
<1> QED BY <1>2, <1>3

LEMMA Joined ==
  ASSUME NEW s \in DocNames, NEW t \in DocNames, NEW n, n = Len(s), NEW k, k = Len(t)
  PROVE  /\ s \o t \in DocNames /\ Len(s \o t) = n + k
         /\ \A i \in 1 .. n : (s \o t)[i] = s[i]
         /\ \A i \in n + 1 .. n + k : (s \o t)[i] = t[i - n]
BY DEF DocNames

LEMMA FromOn ==
  ASSUME NEW s \in DocNames, NEW j \in Nat \ {0}, NEW m, m = Len(s), j <= m + 1
  PROVE  /\ SubSeq(s, j, m) \in DocNames /\ Len(SubSeq(s, j, m)) = m - (j - 1)
         /\ \A i \in 1 .. m - (j - 1) : SubSeq(s, j, m)[i] = s[i + (j - 1)]
BY DEF DocNames

LEMMA OneName ==
  ASSUME NEW a \in PathNames
  PROVE  /\ <<a>> \in DocNames /\ <<a>> \in DocPaths /\ Len(<<a>>) = 1 /\ <<a>>[1] = a
         /\ \A t \in DocNames : /\ <<a>> \o t \in DocPaths /\ Len(<<a>> \o t) = 1 + Len(t) /\ (<<a>> \o t)[1] = a
                            /\ \A i \in 2 .. 1 + Len(t) : (<<a>> \o t)[i] = t[i - 1]
<1>1. <<a>> \in DocNames
  BY DEF DocNames
<1>2. <<a>> # <<>> /\ Len(<<a>>) = 1 /\ <<a>>[1] = a
  OBVIOUS
<1>3. ASSUME NEW t \in DocNames
      PROVE  /\ <<a>> \o t \in DocNames /\ Len(<<a>> \o t) = 1 + Len(t) /\ (<<a>> \o t)[1] = a
             /\ \A i \in 2 .. 1 + Len(t) : (<<a>> \o t)[i] = t[i - 1]
  BY DEF DocNames
<1>4. ASSUME NEW t \in DocNames PROVE <<a>> \o t # <<>>
  BY <1>3 DEF DocNames
<1> QED BY <1>1, <1>2, <1>3, <1>4 DEF DocPaths

LEMMA RepoNames == {"repo", "link"} \subseteq PathNames
BY DEF PathNames

LEMMA Splits ==
  ASSUME NEW m \in Nat, m >= 1
  PROVE  /\ \A i \in 1 .. m : i = 1 \/ i \in 2 .. m
         /\ \A i \in 2 .. m : i - 1 \in 1 .. m - 1 /\ (i - 1) + 1 = i /\ i \in 1 + 1 .. m
OBVIOUS

\* A path rebased onto a start as long as the old one: the names below stay where they are.
LEMMA RebasedSame ==
  ASSUME NEW p \in DocNames, NEW from \in DocNames, NEW onto \in DocNames, Len(from) <= Len(p), Len(onto) = Len(from)
  PROVE  /\ Rebased(p, from, onto) \in DocNames
         /\ Len(Rebased(p, from, onto)) = Len(p)
         /\ \A i \in 1 .. Len(onto) : Rebased(p, from, onto)[i] = onto[i]
         /\ \A i \in Len(onto) + 1 .. Len(p) : Rebased(p, from, onto)[i] = p[i]
<1> DEFINE n == Len(onto)
           m == Len(p)
           tail == SubSeq(p, n + 1, m)
<1>0. n \in Nat /\ m \in Nat /\ n <= m /\ n = Len(onto) /\ m = Len(p) /\ n = Len(from)
  BY DEF DocNames
<1> HIDE DEF n, m
<1>1. /\ tail \in DocNames /\ Len(tail) = m - n
      /\ \A i \in 1 .. m - n : tail[i] = p[i + n]
  <2>1. n + 1 \in Nat \ {0} /\ (n + 1) - 1 = n /\ n + 1 <= m + 1
    BY <1>0
  <2> HIDE DEF tail
  <2>2. /\ tail \in DocNames /\ Len(tail) = m - ((n + 1) - 1)
        /\ \A i \in 1 .. m - ((n + 1) - 1) : tail[i] = p[i + ((n + 1) - 1)]
    BY <1>0, <2>1, FromOn DEF tail
  <2> QED BY <2>1, <2>2
<1> HIDE DEF tail
<1>2. Rebased(p, from, onto) = onto \o tail
  BY <1>0 DEF Rebased, tail
<1>3. /\ onto \o tail \in DocNames /\ Len(onto \o tail) = n + (m - n)
      /\ \A i \in 1 .. n : (onto \o tail)[i] = onto[i]
      /\ \A i \in n + 1 .. n + (m - n) : (onto \o tail)[i] = tail[i - n]
  <2> DEFINE k == m - n
  <2>1. k = Len(tail) /\ tail \in DocNames /\ onto \in DocNames /\ n = Len(onto)
    BY <1>0, <1>1
  <2> HIDE DEF k
  <2>2. /\ onto \o tail \in DocNames /\ Len(onto \o tail) = n + k
        /\ \A i \in 1 .. n : (onto \o tail)[i] = onto[i]
        /\ \A i \in n + 1 .. n + k : (onto \o tail)[i] = tail[i - n]
    BY <2>1, Joined
  <2> QED BY <2>2 DEF k
<1>4. n + (m - n) = m
  BY <1>0
<1>5. ASSUME NEW i \in n + 1 .. m PROVE Rebased(p, from, onto)[i] = p[i]
  <2>1. i - n \in 1 .. m - n /\ (i - n) + n = i
    BY <1>0
  <2>2. tail[i - n] = p[i]
    BY <1>1, <2>1
  <2> QED BY <1>2, <1>3, <1>4, <2>2
<1>6. \A i \in n + 1 .. m : Rebased(p, from, onto)[i] = p[i]
  BY <1>5
<1> QED BY <1>0, <1>2, <1>3, <1>4, <1>6

LEMMA RealPathIs ==
  ASSUME NEW p \in DocPaths
  PROVE  /\ RealPath(p) \in DocPaths /\ Len(RealPath(p)) = Len(p)
         /\ RealPath(p)[1] = (IF p[1] = "link" THEN "repo" ELSE p[1])
         /\ \A i \in 2 .. Len(p) : RealPath(p)[i] = p[i]
<1>1. p \in DocNames /\ Len(p) \in Nat /\ Len(p) >= 1 /\ LinkedRepo \in DocNames /\ Len(LinkedRepo) = 1 /\ LinkedRepo[1] = "link"
  <2>1. p \in DocNames /\ Len(p) \in Nat /\ Len(p) >= 1
    BY DEF DocPaths, DocNames
  <2> QED BY <2>1, OneName, RepoNames DEF LinkedRepo
<1>2. IsPrefix(LinkedRepo, p) <=> p[1] = "link"
  <2>1. IsPrefix(LinkedRepo, p) <=> (1 <= Len(p) /\ \A i \in 1 .. 1 : LinkedRepo[i] = p[i])
    BY <1>1, PrefixIs
  <2> QED BY <1>1, <2>1
<1>3. CASE p[1] = "link"
  <2> DEFINE tail == SubSeq(p, 2, Len(p))
  <2>1. tail \in DocNames /\ Len(tail) = Len(p) - 1 /\ \A i \in 1 .. Len(p) - 1 : tail[i] = p[i + 1]
    <3> DEFINE m == Len(p)
    <3>1. 2 \in Nat \ {0} /\ 2 - 1 = 1 /\ 2 <= m + 1 /\ p \in DocNames /\ m = Len(p)
      BY <1>1
    <3> HIDE DEF m
    <3>2. /\ SubSeq(p, 2, m) \in DocNames /\ Len(SubSeq(p, 2, m)) = m - (2 - 1)
          /\ \A i \in 1 .. m - (2 - 1) : SubSeq(p, 2, m)[i] = p[i + (2 - 1)]
      BY <3>1, FromOn
    <3> QED BY <3>1, <3>2
  <2>2. RealPath(p) = <<"repo">> \o tail
    BY <1>2, <1>3 DEF RealPath, RealRepo
  <2> HIDE DEF tail
  <2> DEFINE whole == <<"repo">> \o tail
  <2>4. /\ whole \in DocPaths /\ Len(whole) = Len(p) /\ whole[1] = "repo"
        /\ \A i \in 2 .. Len(p) : whole[i] = p[i]
    <3>1. /\ whole \in DocPaths /\ Len(whole) = 1 + Len(tail) /\ whole[1] = "repo"
          /\ \A i \in 2 .. 1 + Len(tail) : whole[i] = tail[i - 1]
      BY <2>1, OneName, RepoNames
    <3> HIDE DEF whole
    <3>2. 1 + Len(tail) = Len(p) /\ \A i \in 2 .. Len(p) : i - 1 \in 1 .. Len(p) - 1 /\ (i - 1) + 1 = i
      BY <1>1, <2>1
    <3> QED BY <2>1, <3>1, <3>2
  <2> HIDE DEF whole
  <2>w. RealPath(p) = whole
    BY <2>2 DEF whole
  <2> QED BY <1>3, <2>4, <2>w
<1>4. CASE p[1] # "link"
  BY <1>1, <1>2, <1>4 DEF RealPath
<1> QED BY <1>3, <1>4

\* What is known of a clamp: the folder is walked as it was named or by its real path.
CallNamed(call) ==
  /\ call.repo \in RepoSpellings
  /\ call.at # "unused" => call.reported \in DocPaths /\ call.folder \in {call.reported, RealPath(call.reported)}

\* A file that the walk found, and what a clamp records of it.
Found(folder, f) ==
  /\ f \in DcFiles /\ IsPrefix(RealPath(folder), f) /\ RealPath(folder) # f
  /\ Between(RealPath(folder), f) \cap SKIP_DIRS = {}

LeadsBack(repo, root, e) ==
  \E f \in DcFiles :
    /\ Found(root, f) /\ kindForExtension(f) = e.kind /\ e.kind # "ignored"
    /\ RealPath(IF e.file.inside THEN repo \o e.file.path ELSE e.file.path) = f
    /\ IsPrefix(repo, root) => e.file.inside
    /\ e.file \in DocRefs

LEMMA FilesAre == \A f \in DcFiles : f \in DocPaths /\ f[1] # "link" /\ \A g \in DcFiles : ~ IsStrictPrefix(f, g)
BY DcPaths DEF DocPaths, DocNames

LEMMA RefLeadsBack ==
  ASSUME NEW call, CallNamed(call), call.at # "unused", NEW f, Found(call.folder, f),
         NEW p, p = Rebased(f, RealPath(call.folder), call.folder)
  PROVE  /\ p \in DocNames /\ kindForExtension(p) = kindForExtension(f)
         /\ kindForExtension(f) # "ignored"
              => LeadsBack(call.repo, call.reported, [file |-> fileRef(call, p), kind |-> kindForExtension(p)])
<1> DEFINE folder == call.folder
           root == call.reported
           repo == call.repo
           rf == RealPath(folder)
           n == Len(root)
           m == Len(f)
<1>1. root \in DocPaths /\ folder \in DocPaths /\ Len(folder) = n /\ n \in Nat /\ n >= 1
  BY RealPathIs DEF CallNamed, DocPaths, DocNames
<1>2. /\ rf \in DocPaths /\ Len(rf) = n /\ f \in DocPaths /\ m \in Nat /\ f[1] # "link" /\ f \in DcFiles
      /\ n <= m /\ \A i \in 1 .. n : rf[i] = f[i]
  <2>1. rf \in DocPaths /\ Len(rf) = n
    BY <1>1, RealPathIs
  <2>2. f \in DocPaths /\ f[1] # "link" /\ f \in DcFiles
    BY FilesAre DEF Found
  <2> QED BY <2>1, <2>2, PrefixIs DEF Found, DocPaths, DocNames
<1>3. RealPath(root) = rf
  <2>1. CASE folder = root
    BY <2>1
  <2>2. CASE folder = RealPath(root)
    <3>1. /\ rf[1] = RealPath(root)[1] /\ \A i \in 2 .. n : rf[i] = RealPath(root)[i]
          /\ RealPath(root) \in DocPaths /\ Len(RealPath(root)) = n
      BY <1>1, <2>2, RealPathIs
    <3>2. \A i \in 1 .. n : i = 1 \/ i \in 2 .. n
      BY <1>1
    <3> QED BY <1>2, <3>1, <3>2, SamePath DEF DocPaths
  <2> QED BY <2>1, <2>2 DEF CallNamed
<1>4. n < m
  <2>1. CASE n = m
    <3>1. rf = f
      BY <1>2, <2>1, SamePath DEF DocPaths
    <3> QED BY <3>1 DEF Found
  <2> QED BY <1>1, <1>2, <2>1
<1>5. /\ p \in DocNames /\ Len(p) = m
      /\ \A i \in 1 .. n : p[i] = folder[i]
      /\ \A i \in n + 1 .. m : p[i] = f[i]
  <2>1. rf \in DocNames /\ f \in DocNames /\ folder \in DocNames
    BY <1>1, <1>2 DEF DocPaths
  <2> QED BY <1>1, <1>2, <2>1, RebasedSame
<1>6. kindForExtension(p) = kindForExtension(f)
  BY <1>1, <1>2, <1>4, <1>5 DEF kindForExtension, Last
<1> DEFINE q == Rebased(p, folder, root)
<1>7. /\ q \in DocPaths /\ Len(q) = m
      /\ \A i \in 1 .. n : q[i] = root[i]
      /\ \A i \in n + 1 .. m : q[i] = f[i]
  <2>1. folder \in DocNames /\ root \in DocNames /\ Len(folder) <= Len(p)
    BY <1>1, <1>2, <1>5 DEF DocPaths
  <2>2. q \in DocNames /\ Len(q) = m /\ (\A i \in 1 .. n : q[i] = root[i])
        /\ \A i \in n + 1 .. m : q[i] = p[i]
    BY <1>1, <1>2, <1>5, <2>1, RebasedSame
  <2> QED BY <1>1, <1>4, <1>5, <2>2 DEF DocPaths
<1> HIDE DEF q
<1>8. RealPath(q) = f /\ (\A i \in 2 .. m : q[i] = f[i]) /\ (q[1] = "link" \/ q[1] = f[1])
  <2>1. /\ RealPath(q) \in DocPaths /\ Len(RealPath(q)) = m
        /\ RealPath(q)[1] = (IF q[1] = "link" THEN "repo" ELSE q[1])
        /\ \A i \in 2 .. m : RealPath(q)[i] = q[i]
    BY <1>7, RealPathIs
  <2>2. /\ rf[1] = (IF root[1] = "link" THEN "repo" ELSE root[1])
        /\ \A i \in 2 .. n : rf[i] = root[i]
    BY <1>1, <1>3, RealPathIs
  <2>3. q[1] = root[1] /\ rf[1] = f[1]
    BY <1>1, <1>2, <1>7
  <2>4. \A i \in 2 .. m : q[i] = f[i]
    <3> TAKE i \in 2 .. m
    <3>1. CASE i <= n
      BY <1>1, <1>2, <1>7, <2>2, <3>1
    <3>2. CASE i > n
      BY <1>1, <1>2, <1>7, <3>2
    <3> QED BY <1>1, <1>2, <3>1, <3>2
  <2>5. \A i \in 1 .. m : RealPath(q)[i] = f[i]
    BY <1>1, <1>2, <2>1, <2>2, <2>3, <2>4
  <2> QED BY <1>2, <2>1, <2>2, <2>3, <2>4, <2>5, SamePath DEF DocPaths
<1>9. repo \in DocNames /\ Len(repo) = 1 /\ (repo[1] = "repo" \/ repo[1] = "link")
  <2>1. repo = <<"repo">> \/ repo = <<"link">>
    BY DEF CallNamed, RepoSpellings, RealRepo, LinkedRepo
  <2> HIDE DEF repo
  <2> QED BY <2>1, OneName, RepoNames
<1> DEFINE ref == computeFileRef(repo, q)
<1>10. fileRef(call, p) = ref
  BY DEF fileRef, q
<1>11. q \in DocNames /\ q[1] \in PathNames /\ 1 < m
  BY <1>1, <1>2, <1>4, <1>7 DEF DocPaths, DocNames
<1>12. /\ IsStrictPrefix(repo, q) <=> repo[1] = q[1]
       /\ IsPrefix(repo, root) => repo[1] = q[1]
  <2>1. IsPrefix(repo, q) <=> repo[1] = q[1]
    BY <1>2, <1>7, <1>9, <1>11, PrefixIs
  <2>2. repo # q
    BY <1>7, <1>9, <1>11
  <2>3. IsPrefix(repo, root) => repo[1] = root[1]
    BY <1>1, <1>9, PrefixIs DEF DocPaths
  <2>4. root[1] = q[1]
    BY <1>1, <1>7
  <2> QED BY <2>1, <2>2, <2>3, <2>4 DEF IsStrictPrefix
<1> DEFINE rest == Rebased(q, repo, <<>>)
<1>13. rest = SubSeq(q, 2, m) /\ rest \in DocNames /\ Len(rest) = m - 1 /\ \A i \in 1 .. m - 1 : rest[i] = q[i + 1]
  <2>1. rest = <<>> \o SubSeq(q, 2, m)
    BY <1>7, <1>9 DEF Rebased
  <2>2. /\ SubSeq(q, 2, m) \in DocNames /\ Len(SubSeq(q, 2, m)) = m - 1
        /\ \A i \in 1 .. m - 1 : SubSeq(q, 2, m)[i] = q[i + 1]
    <3>1. 2 \in Nat \ {0} /\ 2 - 1 = 1 /\ 2 <= m + 1 /\ q \in DocNames /\ m = Len(q)
      BY <1>7, <1>11, <1>2
    <3> HIDE DEF m
    <3>2. /\ SubSeq(q, 2, m) \in DocNames /\ Len(SubSeq(q, 2, m)) = m - (2 - 1)
          /\ \A i \in 1 .. m - (2 - 1) : SubSeq(q, 2, m)[i] = q[i + (2 - 1)]
      BY <3>1, FromOn
    <3> QED BY <3>1, <3>2
  <2>3. rest = SubSeq(q, 2, m)
    BY <2>1, <2>2 DEF DocNames
  <2> QED BY <2>2, <2>3
<1> HIDE DEF rest
<1>14. repo[1] = q[1] => repo \o rest = q
  <2> SUFFICES ASSUME repo[1] = q[1] PROVE repo \o rest = q
    OBVIOUS
  <2>1. /\ repo \o rest \in DocNames /\ Len(repo \o rest) = m
        /\ (repo \o rest)[1] = repo[1]
        /\ \A i \in 2 .. m : (repo \o rest)[i] = rest[i - 1]
    <3>1. \/ repo = <<"repo">> \/ repo = <<"link">>
      BY DEF CallNamed, RepoSpellings, RealRepo, LinkedRepo
    <3> HIDE DEF repo
    <3>2. 1 + (m - 1) = m
      BY <1>2
    <3>3. PICK a \in PathNames : repo = <<a>>
      BY <3>1, RepoNames
    <3>4. repo[1] = a
      BY <3>3, OneName
    <3> HIDE DEF rest
    <3>5. /\ <<a>> \o rest \in DocPaths /\ Len(<<a>> \o rest) = 1 + Len(rest) /\ (<<a>> \o rest)[1] = a
          /\ \A i \in 2 .. 1 + Len(rest) : (<<a>> \o rest)[i] = rest[i - 1]
      BY <1>13, OneName
    <3> QED BY <1>13, <3>2, <3>3, <3>4, <3>5 DEF DocPaths
  <2>2. \A i \in 2 .. m : rest[i - 1] = q[i]
    BY <1>2, <1>13
  <2>3. \A i \in 1 .. m : i = 1 \/ i \in 2 .. m
    BY <1>2
  <2>4. \A i \in 1 .. m : (repo \o rest)[i] = q[i]
    BY <2>1, <2>2, <2>3
  <2> QED BY <1>7, <1>11, <2>1, <2>4, SamePath
<1>15. ref \in DocRefs
  <2> DEFINE heads == RepoSpellings \cup {SubSeq(g, 1, 1) : g \in DcFiles}
             below == SubSeq(f, 2, m)
  <2>1. below \in DocNames /\ Len(below) = m - 1 /\ \A i \in 1 .. m - 1 : below[i] = f[i + 1]
    BY <1>2, <1>11, FromOn DEF DocPaths
  <2>2. <<q[1]>> \in heads /\ q[1] \in PathNames
    <3>1. CASE q[1] = "link"
      BY <3>1, RepoNames DEF RepoSpellings, LinkedRepo
    <3>2. CASE q[1] = f[1]
      <4>1. SubSeq(f, 1, 1) = <<f[1]>> /\ f[1] \in PathNames
        <5>1. f \in Seq(PathNames) /\ Len(f) >= 1
          BY <1>2, <1>11 DEF DocPaths, DocNames
        <5>2. SubSeq(f, 1, 1) \in Seq(PathNames) /\ Len(SubSeq(f, 1, 1)) = 1 /\ SubSeq(f, 1, 1)[1] = f[1]
          BY <5>1
        <5>3. f[1] \in PathNames
          BY <5>1
        <5>4. <<f[1]>> \in DocNames /\ Len(<<f[1]>>) = 1 /\ <<f[1]>>[1] = f[1]
          BY <5>3, OneName
        <5>5. \A i \in 1 .. 1 : SubSeq(f, 1, 1)[i] = <<f[1]>>[i]
          BY <5>2, <5>4
        <5> HIDE DEF n, m
        <5>6. SubSeq(f, 1, 1) \in DocNames
          BY <5>2 DEF DocNames
        <5> QED BY <5>2, <5>3, <5>4, <5>5, <5>6, SamePath
      <4>2. SubSeq(f, 1, 1) \in heads
        BY <1>2
      <4> QED BY <3>2, <4>1, <4>2
    <3> QED BY <1>8, <3>1, <3>2
  <2> DEFINE s == <<q[1]>>
  <2>3. /\ s \o below \in DocNames /\ Len(s \o below) = m
        /\ (s \o below)[1] = q[1] /\ s \in heads
        /\ \A i \in 2 .. m : (s \o below)[i] = below[i - 1]
    <3> HIDE DEF heads, below
    <3>1. 1 + (m - 1) = m
      BY <1>2
    <3> QED BY <2>1, <2>2, <3>1, OneName DEF DocPaths
  <2> HIDE DEF heads, below, s
  <2>4. \A i \in 2 .. m : below[i - 1] = f[i]
    BY <1>2, <2>1
  <2>5. s \o below = q
    <3>1. \A i \in 1 .. m : i = 1 \/ i \in 2 .. m
      BY <1>2
    <3>2. \A i \in 1 .. m : (s \o below)[i] = q[i]
      BY <1>8, <2>3, <2>4, <3>1
    <3> QED BY <1>7, <1>11, <2>3, <3>2, SamePath
  <2>6. SubSeq(s \o below, 1, m) = q
    BY <1>7, <1>11, <2>5 DEF DocNames
  <2>7. SubSeq(s \o below, 2, m) = rest
    BY <1>13, <2>5
  <2>8. ref.path \in {SubSeq(s \o below, 1, m), SubSeq(s \o below, 2, m)} /\ ref.inside \in BOOLEAN
        /\ ref = [inside |-> ref.inside, path |-> ref.path]
    BY <2>6, <2>7 DEF computeFileRef, rest
  <2> DEFINE paths == {SubSeq(z \o SubSeq(g, 2, Len(g)), k, Len(g)) : z \in heads, g \in DcFiles, k \in {1, 2}}
  <2>9. SubSeq(s \o below, 1, m) \in paths /\ SubSeq(s \o below, 2, m) \in paths
    BY <1>2, <2>3 DEF below
  <2>10. DocRefs = [inside : BOOLEAN, path : paths]
    BY DEF DocRefs, heads
  <2> HIDE DEF paths, ref
  <2> QED BY <2>8, <2>9, <2>10
<1>16. RealPath(IF ref.inside THEN repo \o ref.path ELSE ref.path) = f /\ (IsPrefix(repo, root) => ref.inside)
  <2>1. CASE repo[1] = q[1]
    <3>1. ref.inside /\ ref.path = rest
      BY <1>12, <2>1 DEF computeFileRef, rest
    <3> QED BY <1>8, <1>14, <2>1, <3>1
  <2>2. CASE repo[1] # q[1]
    <3>1. ref.inside = FALSE /\ ref.path = q
      BY <1>12, <2>2 DEF computeFileRef
    <3> QED BY <1>8, <1>12, <2>2, <3>1
  <2> QED BY <2>1, <2>2
<1>17. Found(root, f)
  BY <1>3 DEF Found
<1>18. ASSUME kindForExtension(f) # "ignored"
       PROVE  LeadsBack(repo, root, [file |-> ref, kind |-> kindForExtension(p)])
  <2> DEFINE e == [file |-> ref, kind |-> kindForExtension(p)]
  <2>1. e.file = ref /\ e.kind = kindForExtension(f)
    BY <1>6
  <2> HIDE DEF e, ref
  <2> QED BY <1>2, <1>15, <1>16, <1>17, <1>18, <2>1 DEF LeadsBack, e
<1> HIDE DEF ref
<1> QED BY <1>5, <1>6, <1>10, <1>18

ClampStates == {"unused", "stat", "reading", "reload", "done", "failed"}
ClampSet ==
  [at : ClampStates, repo : RepoSpellings, folder : DocNames, reported : DocNames, listed : SUBSET DocNames,
   todo : SUBSET DocNames, files : SUBSET FileEntries, chunks : SUBSET [file : DocRefs, says : {"no-extractable-text", "text"}]]

FilesOf(entries) == {e.file : e \in entries}

\* What a clamp has listed it found, what it has recorded leads back, and nothing it has done
\* with is missing.
ClampSound(call) ==
  /\ CallNamed(call) /\ call.todo \subseteq call.listed
  /\ call.at \in {"unused", "stat"} => call.listed = {} /\ call.files = {} /\ call.chunks = {}
  /\ \A p \in call.listed : /\ kindForExtension(p) # "ignored"
                            /\ \E f \in DcFiles : /\ Found(call.folder, f)
                                                  /\ p = Rebased(f, RealPath(call.folder), call.folder)
  /\ \A e \in call.files : LeadsBack(call.repo, call.reported, e)
  /\ FilesOf(call.chunks) = FilesOf(call.files)
  /\ call.at = "reading" => FilesOf(call.files) = {fileRef(call, p) : p \in call.listed \ call.todo}

IndexSound ==
  \/ dcIndex = NoIndex
  \/ /\ dcIndex.files \subseteq FileEntries /\ FilesOf(dcIndex.chunks) = FilesOf(dcIndex.files)
     /\ \A e \in dcIndex.files : LeadsBack(dcIndex.by, dcIndex.root, e)

DiskTyped ==
  /\ dcRepo \in RepoSpellings /\ dcWired \in BOOLEAN
  /\ dcDisk \in [DcFiles -> {"gone", "text", "image"}] /\ \A f \in DcFiles : dcDisk[f] \in HeldBy(f)

ClampsSound ==
  /\ dcCall \in [DcCalls -> ClampSet] /\ \A c \in DcCalls : ClampSound(dcCall[c])

ClampInv == DiskTyped /\ ClampsSound /\ IndexSound

LEMMA FoldersAre == \A folder \in DcFolders : folder \in DocPaths /\ RealPath(folder) \in DocPaths
BY DcPaths, RealPathIs DEF DocPaths, DocNames

\* One clamp moves to another state of a clamp.
LEMMA ClampMoves ==
  ASSUME ClampsSound, NEW c \in DcCalls, NEW new \in ClampSet, ClampSound(new), dcCall' = [dcCall EXCEPT ![c] = new]
  PROVE  ClampsSound'
<1>1. dcCall' \in [DcCalls -> ClampSet]
  BY DEF ClampsSound
<1>2. \A d \in DcCalls : dcCall'[d] = IF d = c THEN new ELSE dcCall[d]
  BY DEF ClampsSound
<1> QED BY <1>1, <1>2 DEF ClampsSound

LEMMA ClampStart == DocsClampInit => ClampInv
<1> SUFFICES ASSUME DocsClampInit PROVE ClampInv
  OBVIOUS
<1>1. DiskTyped
  BY DEF DocsClampInit, DiskTyped, HeldBy
<1>2. NoClamp \in ClampSet
  BY DEF NoClamp, ClampSet, ClampStates, RepoSpellings, DocNames
<1>3. ClampSound(NoClamp)
  <2>1. /\ NoClamp.at = "unused" /\ NoClamp.repo = RealRepo /\ NoClamp.listed = {} /\ NoClamp.todo = {}
        /\ NoClamp.files = {} /\ NoClamp.chunks = {}
    BY DEF NoClamp
  <2> QED BY <2>1 DEF ClampSound, CallNamed, RepoSpellings, FilesOf
<1> QED BY <1>1, <1>2, <1>3 DEF DocsClampInit, ClampInv, ClampsSound, IndexSound

\* A clamp that is asked for names its folder as it was named or by its real path.
LEMMA AskedSound ==
  ASSUME NEW repo \in RepoSpellings, NEW root \in DocPaths, NEW folder \in {root, RealPath(root)},
         NEW new, new = [NoClamp EXCEPT !.at = "stat", !.repo = repo, !.folder = folder, !.reported = root]
  PROVE  new \in ClampSet /\ ClampSound(new)
<1>1. folder \in DocNames /\ root \in DocNames
  BY RealPathIs DEF DocPaths
<1>2. /\ new.at = "stat" /\ new.repo = repo /\ new.folder = folder /\ new.reported = root
      /\ new.listed = {} /\ new.todo = {} /\ new.files = {} /\ new.chunks = {}
  BY DEF NoClamp
<1>3. new = [at |-> "stat", repo |-> repo, folder |-> folder, reported |-> root, listed |-> {}, todo |-> {},
             files |-> {}, chunks |-> {}]
  BY DEF NoClamp
<1>4. new \in ClampSet
  BY <1>1, <1>3 DEF ClampSet, ClampStates
<1> QED BY <1>1, <1>2, <1>4 DEF ClampSound, CallNamed, FilesOf

LEMMA WalkedSound ==
  ASSUME NEW old \in ClampSet, ClampSound(old), old.at = "stat",
         NEW listed, listed = {p \in walk(old.folder) : kindForExtension(p) # "ignored"},
         NEW g \in DcFiles, IsStrictPrefix(RealPath(old.folder), g)
  PROVE  /\ listed \subseteq DocNames
         /\ \A p \in listed : /\ kindForExtension(p) # "ignored"
                              /\ \E f \in DcFiles : /\ Found(old.folder, f)
                                                    /\ p = Rebased(f, RealPath(old.folder), old.folder)
<1>1. CallNamed(old) /\ old.at # "unused"
  BY DEF ClampSound
<1>2. ASSUME NEW p \in listed
      PROVE  /\ p \in DocNames
             /\ \E f \in DcFiles : Found(old.folder, f) /\ p = Rebased(f, RealPath(old.folder), old.folder)
  <2>1. PICK f \in DcFiles : /\ IsPrefix(RealPath(old.folder), f)
                             /\ Between(RealPath(old.folder), f) \cap SKIP_DIRS = {}
                             /\ p = Rebased(f, RealPath(old.folder), old.folder)
    BY DEF walk
  <2>2. RealPath(old.folder) # f
    BY FilesAre
  <2>3. Found(old.folder, f)
    BY <2>1, <2>2 DEF Found
  <2> QED BY <1>1, <2>1, <2>3, RefLeadsBack
<1> QED BY <1>2

LEMMA ClampStep == ClampInv /\ DocsClampNext => ClampInv' /\ WholeOrNothing
<1> SUFFICES ASSUME ClampInv, DocsClampNext PROVE ClampInv' /\ WholeOrNothing
  OBVIOUS
<1>t. DiskTyped /\ ClampsSound /\ IndexSound
  BY DEF ClampInv
<1>c. \A c \in DcCalls : dcCall[c] \in ClampSet /\ ClampSound(dcCall[c])
  BY <1>t DEF ClampsSound
\* What is left to show of a step that leaves the disk and the index alone.
<1>u. ASSUME UNCHANGED <<dcRepo, dcDisk, dcIndex, dcWired>>, ClampsSound' PROVE ClampInv' /\ WholeOrNothing
  BY <1>t, <1>u DEF ClampInv, DiskTyped, IndexSound, WholeOrNothing
<1>1. ASSUME NEW c \in DcCalls, NEW folder \in DcFolders, PostDocsClamp(c, folder) PROVE ClampInv' /\ WholeOrNothing
  <2> DEFINE new == [NoClamp EXCEPT !.at = "stat", !.repo = dcRepo, !.folder = RealPath(folder), !.reported = folder]
  <2>1. new \in ClampSet /\ ClampSound(new)
    BY <1>t, FoldersAre, AskedSound DEF DiskTyped
  <2>2. dcCall' = [dcCall EXCEPT ![c] = new] /\ UNCHANGED <<dcRepo, dcDisk, dcIndex, dcWired>>
    BY <1>1 DEF PostDocsClamp
  <2> HIDE DEF new
  <2> QED BY <1>t, <1>u, <2>1, <2>2, ClampMoves
<1>2. ASSUME NEW c \in DcCalls, NEW folder \in DcFolders, NEW repo \in RepoSpellings, runClampCommand(c, repo, folder)
      PROVE  ClampInv' /\ WholeOrNothing
  <2> DEFINE new == [NoClamp EXCEPT !.at = "stat", !.repo = repo, !.folder = folder, !.reported = folder]
  <2>1. new \in ClampSet /\ ClampSound(new)
    BY FoldersAre, AskedSound
  <2>2. dcCall' = [dcCall EXCEPT ![c] = new] /\ UNCHANGED <<dcRepo, dcDisk, dcIndex, dcWired>>
    BY <1>2 DEF runClampCommand
  <2> HIDE DEF new
  <2> QED BY <1>t, <1>u, <2>1, <2>2, ClampMoves
<1>3. ASSUME NEW c \in DcCalls, Walked(c) PROVE ClampInv' /\ WholeOrNothing
  <2> DEFINE old == dcCall[c]
             there == \E f \in DcFiles : IsStrictPrefix(RealPath(dcCall[c].folder), f)
             listed == {p \in walk(dcCall[c].folder) : kindForExtension(p) # "ignored"}
             at == IF there THEN "reading" ELSE "failed"
             all == IF there THEN listed ELSE {}
             new == [old EXCEPT !.at = at, !.listed = all, !.todo = all]
  <2>1. old \in ClampSet /\ ClampSound(old) /\ old.at = "stat"
    BY <1>3, <1>c DEF Walked
  <2>2. dcCall' = [dcCall EXCEPT ![c] = new] /\ UNCHANGED <<dcRepo, dcDisk, dcIndex, dcWired>>
    BY <1>3 DEF Walked
  <2>3. /\ all \subseteq DocNames /\ at \in {"reading", "failed"}
        /\ \A p \in all : /\ kindForExtension(p) # "ignored"
                          /\ \E f \in DcFiles : /\ Found(old.folder, f)
                                                /\ p = Rebased(f, RealPath(old.folder), old.folder)
    <3>1. CASE there
      <4>1. PICK g \in DcFiles : IsStrictPrefix(RealPath(old.folder), g)
        BY <3>1
      <4>2. listed = {p \in walk(old.folder) : kindForExtension(p) # "ignored"}
        OBVIOUS
      <4>3. all = listed /\ at = "reading"
        BY <3>1
      <4> HIDE DEF old, listed, all, at
      <4> QED BY <2>1, <4>1, <4>2, <4>3, WalkedSound
    <3>2. CASE ~ there
      BY <3>2
    <3> QED BY <3>1, <3>2
  <2> HIDE DEF old, at, all
  <2>4. /\ new \in ClampSet /\ new.at = at /\ new.listed = all /\ new.todo = all /\ new.files = old.files
        /\ new.chunks = old.chunks /\ new.folder = old.folder /\ new.reported = old.reported /\ new.repo = old.repo
    BY <2>1, <2>3 DEF ClampSet, ClampStates
  <2> HIDE DEF new
  <2>5. ClampSound(new)
    <3>1. CallNamed(new)
      BY <2>1, <2>4 DEF ClampSound, CallNamed
    <3>2. old.files = {} /\ old.chunks = {}
      BY <2>1 DEF ClampSound
    <3>3. FilesOf(new.chunks) = {} /\ FilesOf(new.files) = {}
      BY <2>4, <3>2 DEF FilesOf
    <3>4. {fileRef(new, p) : p \in new.listed \ new.todo} = {}
      BY <2>4
    <3> QED BY <2>3, <2>4, <3>1, <3>2, <3>3, <3>4 DEF ClampSound
  <2> QED BY <1>t, <1>u, <2>2, <2>4, <2>5, ClampMoves
<1>4. ASSUME NEW c \in DcCalls, ReadFileStep(c) PROVE ClampInv' /\ WholeOrNothing
  <2> DEFINE old == dcCall[c]
             p == CHOOSE q \in dcCall[c].todo : TRUE
             text == dcDisk[RealPath(p)]
             ref == fileRef(dcCall[c], p)
             kind == kindForExtension(p)
             entry == [file |-> ref, kind |-> kind]
             read == [old EXCEPT !.todo = @ \ {p}, !.files = @ \cup {entry}, !.chunks = @ \cup {ChunkOf(ref, text)}]
             failed == [old EXCEPT !.at = "failed"]
             new == IF text = "gone" THEN failed ELSE read
  <2>1. old \in ClampSet /\ ClampSound(old) /\ old.at = "reading" /\ p \in old.todo
    BY <1>4, <1>c DEF ReadFileStep
  <2>2. dcCall' = [dcCall EXCEPT ![c] = new] /\ UNCHANGED <<dcRepo, dcDisk, dcIndex, dcWired>>
    <3>1. CASE text = "gone"
      <4>1. new = failed
        BY <3>1
      <4>2. dcCall' = [dcCall EXCEPT ![c] = failed]
        BY <1>4, <3>1 DEF ReadFileStep, ReadFailed
      <4> QED BY <1>4, <4>1, <4>2 DEF ReadFileStep
    <3>2. CASE text # "gone"
      <4>1. new = read
        BY <3>2
      <4>2. dcCall' = [dcCall EXCEPT ![c] = read]
        BY <1>4, <3>2 DEF ReadFileStep
      <4> QED BY <1>4, <4>1, <4>2 DEF ReadFileStep
    <3> QED BY <3>1, <3>2
  <2>3. new = failed \/ new = read
    OBVIOUS
  <2>4. ref = fileRef(old, p) /\ kind = kindForExtension(p)
    OBVIOUS
  <2>5. ChunkOf(ref, text).file = ref /\ ChunkOf(ref, text) = [file |-> ref, says |-> ChunkOf(ref, text).says]
        /\ ChunkOf(ref, text).says \in {"no-extractable-text", "text"}
    BY DEF ChunkOf
  <2> DEFINE chunk == ChunkOf(ref, text)
  <2>6. read = [old EXCEPT !.todo = @ \ {p}, !.files = @ \cup {entry}, !.chunks = @ \cup {chunk}]
        /\ failed = [old EXCEPT !.at = "failed"]
        /\ chunk.file = ref /\ chunk = [file |-> ref, says |-> chunk.says] /\ chunk.says \in {"no-extractable-text", "text"}
        /\ entry.file = ref /\ entry.kind = kind /\ entry = [file |-> ref, kind |-> kind]
    BY <2>5
  <2> HIDE DEF old, p, text, ref, kind, entry, chunk, read, failed, new
  <2>7. CASE new = failed
    <3>1. /\ failed \in ClampSet /\ failed.at = "failed" /\ failed.listed = old.listed /\ failed.todo = old.todo
          /\ failed.files = old.files /\ failed.chunks = old.chunks /\ failed.folder = old.folder
          /\ failed.reported = old.reported /\ failed.repo = old.repo
      BY <2>1, <2>6 DEF ClampSet, ClampStates
    <3>2. CallNamed(failed)
      BY <2>1, <3>1 DEF ClampSound, CallNamed
    <3>3. ClampSound(failed)
      BY <2>1, <3>1, <3>2 DEF ClampSound
    <3> QED BY <1>t, <1>u, <2>2, <2>7, <3>1, <3>3, ClampMoves
  <2>8. CASE new = read
    <3>1. PICK f \in DcFiles : Found(old.folder, f) /\ p = Rebased(f, RealPath(old.folder), old.folder)
      BY <2>1 DEF ClampSound
    <3>2. kind # "ignored"
      BY <2>1, <2>4 DEF ClampSound
    <3>3. CallNamed(old) /\ old.at # "unused"
      BY <2>1 DEF ClampSound
    <3>4. LeadsBack(old.repo, old.reported, entry)
      BY <2>4, <2>6, <3>1, <3>2, <3>3, RefLeadsBack
    <3>5. ref \in DocRefs /\ kind \in {"md", "txt", "pdf"}
      BY <2>4, <2>6, <3>2, <3>4 DEF LeadsBack, kindForExtension
    <3>6. entry \in FileEntries
      BY <2>6, <3>5 DEF FileEntries
    <3>7. chunk \in [file : DocRefs, says : {"no-extractable-text", "text"}]
      BY <2>6, <3>5
    <3>8. /\ read \in ClampSet /\ read.at = old.at /\ read.listed = old.listed /\ read.todo = old.todo \ {p}
          /\ read.files = old.files \cup {entry} /\ read.chunks = old.chunks \cup {chunk} /\ read.folder = old.folder
          /\ read.reported = old.reported /\ read.repo = old.repo
      BY <2>1, <2>6, <3>6, <3>7 DEF ClampSet, ClampStates
    <3>9. CallNamed(read)
      BY <2>1, <3>8 DEF ClampSound, CallNamed
    <3>10. FilesOf(read.chunks) = FilesOf(old.chunks) \cup {ref} /\ FilesOf(read.files) = FilesOf(old.files) \cup {ref}
      BY <2>6, <3>8 DEF FilesOf
    <3>11. \A q : fileRef(read, q) = fileRef(old, q)
      BY <3>8 DEF fileRef
    <3>12. {fileRef(read, q) : q \in read.listed \ read.todo} = {fileRef(old, q) : q \in old.listed \ old.todo} \cup {ref}
      <4>1. read.listed \ read.todo = (old.listed \ old.todo) \cup {p}
        BY <2>1, <3>8 DEF ClampSound
      <4>2. {fileRef(read, q) : q \in read.listed \ read.todo} = {fileRef(old, q) : q \in (old.listed \ old.todo) \cup {p}}
        BY <3>11, <4>1
      <4> QED BY <2>4, <4>2
    <3>13. ClampSound(read)
      <4>1. FilesOf(old.chunks) = FilesOf(old.files) /\ old.todo \subseteq old.listed
            /\ FilesOf(old.files) = {fileRef(old, q) : q \in old.listed \ old.todo}
        BY <2>1 DEF ClampSound
      <4>2. FilesOf(read.chunks) = FilesOf(read.files)
            /\ FilesOf(read.files) = {fileRef(read, q) : q \in read.listed \ read.todo}
        BY <3>10, <3>12, <4>1
      <4>3. \A e \in read.files : LeadsBack(read.repo, read.reported, e)
        BY <2>1, <3>4, <3>8 DEF ClampSound
      <4>4. \A q \in read.listed : /\ kindForExtension(q) # "ignored"
                                   /\ \E g \in DcFiles : /\ Found(read.folder, g)
                                                         /\ q = Rebased(g, RealPath(read.folder), read.folder)
        BY <2>1, <3>8 DEF ClampSound
      <4> QED BY <2>1, <3>8, <3>9, <4>1, <4>2, <4>3, <4>4 DEF ClampSound
    <3> QED BY <1>t, <1>u, <2>2, <2>8, <3>8, <3>13, ClampMoves
  <2> QED BY <2>3, <2>7, <2>8
<1>5. ASSUME NEW c \in DcCalls, WriteIndex(c) PROVE ClampInv' /\ WholeOrNothing
  <2> DEFINE old == dcCall[c]
             at == IF c \in DcCliCalls THEN "done" ELSE "reload"
             new == [old EXCEPT !.at = at]
             index == [root |-> old.reported, files |-> old.files, chunks |-> old.chunks, by |-> old.repo]
  <2>1. old \in ClampSet /\ ClampSound(old) /\ old.at = "reading" /\ old.todo = {} /\ at \in {"done", "reload"}
    BY <1>5, <1>c DEF WriteIndex
  <2>2. dcCall' = [dcCall EXCEPT ![c] = new] /\ UNCHANGED <<dcRepo, dcDisk, dcWired>> /\ dcIndex' = index
    BY <1>5 DEF WriteIndex
  <2>3. index.root = old.reported /\ index.files = old.files /\ index.chunks = old.chunks /\ index.by = old.repo
    OBVIOUS
  <2>o. old = dcCall[c]
    OBVIOUS
  <2>n. new = [old EXCEPT !.at = at]
    OBVIOUS
  <2> HIDE DEF old, at, new, index
  <2>4. /\ new \in ClampSet /\ new.at = at /\ new.listed = old.listed /\ new.todo = old.todo
        /\ new.files = old.files /\ new.chunks = old.chunks /\ new.folder = old.folder
        /\ new.reported = old.reported /\ new.repo = old.repo
    BY <2>1, <2>n DEF ClampSet, ClampStates
  <2>5. CallNamed(new)
    BY <2>1, <2>4 DEF ClampSound, CallNamed
  <2>6. ClampSound(new)
    BY <2>1, <2>4, <2>5 DEF ClampSound
  <2>7. ClampsSound'
    BY <1>t, <2>2, <2>4, <2>6, ClampMoves
  <2>8. IndexSound'
    <3>1. old.files \subseteq FileEntries
      BY <2>1 DEF ClampSet
    <3>2. FilesOf(index.chunks) = FilesOf(index.files) /\ \A e \in index.files : LeadsBack(index.by, index.root, e)
      BY <2>1, <2>3 DEF ClampSound
    <3> QED BY <2>2, <2>3, <3>1, <3>2 DEF IndexSound
  <2>9. WholeOrNothing
    <3>1. FilesOf(index.files) = {fileRef(old, p) : p \in old.listed}
      <4>1. old.listed \ old.todo = old.listed
        BY <2>1
      <4>2. FilesOf(old.files) = {fileRef(old, p) : p \in old.listed \ old.todo}
        BY <2>1 DEF ClampSound
      <4> QED BY <2>3, <4>1, <4>2
    <3> QED BY <2>2, <2>3, <2>o, <3>1 DEF WholeOrNothing, FilesOf
  <2>10. DiskTyped'
    BY <1>t, <2>2 DEF DiskTyped
  <2> QED BY <2>7, <2>8, <2>9, <2>10 DEF ClampInv
<1>6. ASSUME NEW c \in DcCalls, ReloadStore(c) PROVE ClampInv' /\ WholeOrNothing
  <2> DEFINE old == dcCall[c]
             new == [old EXCEPT !.at = "done"]
  <2>1. old \in ClampSet /\ ClampSound(old) /\ old.at = "reload"
    BY <1>6, <1>c DEF ReloadStore
  <2>2. dcCall' = [dcCall EXCEPT ![c] = new] /\ UNCHANGED <<dcRepo, dcDisk, dcIndex>> /\ dcWired' = (dcIndex # NoIndex)
    BY <1>6 DEF ReloadStore
  <2> HIDE DEF old
  <2>4. /\ new \in ClampSet /\ new.at = "done" /\ new.listed = old.listed /\ new.todo = old.todo
        /\ new.files = old.files /\ new.chunks = old.chunks /\ new.folder = old.folder
        /\ new.reported = old.reported /\ new.repo = old.repo
    BY <2>1 DEF ClampSet, ClampStates
  <2> HIDE DEF new
  <2>5. CallNamed(new)
    BY <2>1, <2>4 DEF ClampSound, CallNamed
  <2>6. ClampSound(new)
    BY <2>1, <2>4, <2>5 DEF ClampSound
  <2>7. ClampsSound'
    BY <1>t, <2>2, <2>4, <2>6, ClampMoves
  <2> QED BY <1>t, <2>2, <2>7 DEF ClampInv, IndexSound, DiskTyped, WholeOrNothing
<1>7. ASSUME NEW f \in DcFiles, NEW text \in HeldBy(f), DiskChanges(f, text) PROVE ClampInv' /\ WholeOrNothing
  <2>1. text \in {"gone", "text", "image"}
    BY DEF HeldBy
  <2>2. DiskTyped'
    BY <1>7, <1>t, <2>1 DEF DiskChanges, DiskTyped
  <2> QED BY <1>7, <1>t, <2>2 DEF DiskChanges, ClampInv, ClampsSound, IndexSound, WholeOrNothing
<1> QED BY <1>1, <1>2, <1>3, <1>4, <1>5, <1>6, <1>7 DEF DocsClampNext

LEMMA ClampStutter == ClampInv /\ UNCHANGED docsClampVars => ClampInv' /\ WholeOrNothing
BY DEF ClampInv, docsClampVars, DiskTyped, ClampsSound, IndexSound, WholeOrNothing

LEMMA ClampShows == ClampInv => DocsClampTypeOK /\ RefsReadBack
<1> SUFFICES ASSUME ClampInv PROVE DocsClampTypeOK /\ RefsReadBack
  OBVIOUS
<1>1. DocsClampTypeOK
  <2>1. \A c \in DcCalls : /\ dcCall[c].at \in {"unused", "stat", "reading", "reload", "done", "failed"}
                           /\ dcCall[c].todo \subseteq dcCall[c].listed
                           /\ dcCall[c].files \subseteq FileEntries
    BY DEF ClampInv, ClampsSound, ClampSound, ClampSet, ClampStates
  <2>2. dcIndex # NoIndex => /\ dcIndex.files \subseteq FileEntries
                             /\ {k.file : k \in dcIndex.chunks} = {e.file : e \in dcIndex.files}
    BY DEF ClampInv, IndexSound, FilesOf
  <2> QED BY <2>1, <2>2 DEF DocsClampTypeOK, ClampInv, DiskTyped
<1>2. RefsReadBack
  <2> SUFFICES ASSUME dcIndex # NoIndex, NEW e \in dcIndex.files
               PROVE  /\ ReadBack(e.file) \in DcFiles /\ kindForExtension(ReadBack(e.file)) = e.kind
                      /\ IsPrefix(RealPath(dcIndex.root), ReadBack(e.file))
                      /\ Between(RealPath(dcIndex.root), ReadBack(e.file)) \cap SKIP_DIRS = {}
                      /\ IsPrefix(dcIndex.by, dcIndex.root) => e.file.inside
    BY DEF RefsReadBack
  <2>1. LeadsBack(dcIndex.by, dcIndex.root, e)
    BY DEF ClampInv, IndexSound
  <2>2. PICK f \in DcFiles : /\ Found(dcIndex.root, f) /\ kindForExtension(f) = e.kind
                             /\ RealPath(IF e.file.inside THEN dcIndex.by \o e.file.path ELSE e.file.path) = f
                             /\ IsPrefix(dcIndex.by, dcIndex.root) => e.file.inside
    BY <2>1 DEF LeadsBack
  <2>3. ReadBack(e.file) = f
    BY <2>2 DEF ReadBack
  <2> QED BY <2>2, <2>3 DEF Found
<1> QED BY <1>1, <1>2

-----------------------------------------------------------------------------
(* The survey                                                              *)

AnySays == UNION {AdapterSays(a) : a \in Adapters}
AdapterReads == [name : Adapters, survey : AnySays]
SurveyRunSet == [at : {"unused", "reading", "collecting", "gauges", "own", "done"}, next : 1 .. 4,
                 read : Seq(AdapterReads), gauges : SUBSET Gauges]

SurveyTyped ==
  /\ smRepo \in [Adapters -> AnySays \cup {NoSurvey}]
  /\ \A a \in Adapters : smRepo[a] \in AdapterSays(a) \cup {NoSurvey}
  /\ smRun \in [SmRuns -> SurveyRunSet]
  /\ \A r \in SmRuns : \A i \in DOMAIN smRun[r].read :
       smRun[r].read[i].survey \in AdapterSays(smRun[r].read[i].name)
  /\ smOwn \in [Adapters -> SmRuns \cup {NoSurvey}]
  /\ smMixed \in BOOLEAN

\* Since the last run that had the files to itself, who is between its two writes has written
\* the survey.
OneWrites == ~smMixed => \A r \in SmRuns : smRun[r].at = "gauges" => smSurvey.by = r

SurveyInv == SurveyTyped /\ OneWrites /\ SurveyAndGaugesAgree /\ MergedApart

LEMMA AdaptersAre == /\ Adapters = {"angular", "dotnet", "web"} /\ Len(SURVEY_ADAPTERS) = 3
                     /\ \A n \in 1 .. 3 : SURVEY_ADAPTERS[n] \in Adapters
BY DEF Adapters, SURVEY_ADAPTERS, ToSet

\* However many adapters ran and whatever they found, a name in the merged survey leads to the
\* schemas of one adapter, a name without an adapter to one schema, and web is in the stack
\* only by itself.
LEMMA MergeApart ==
  ASSUME NEW read
  PROVE  /\ \A s, t \in mergeSurveys(read).schemas : s.ref = t.ref => s.by = t.by /\ (Len(s.ref) = 1 => s = t)
         /\ "web" \in mergeSurveys(read).stack => mergeSurveys(read).adapters = {"web"}
<1> DEFINE results == Contributors(read)
           Ref(x, n) == IF Collides(results, x, n) THEN <<x.name, n.name>> ELSE <<n.name>>
           Merge(x, n) == [by |-> x.name, of |-> n, ref |-> Ref(x, n)]
<1>1. \A s \in mergeSurveys(read).schemas : \E x \in results : \E n \in x.survey.schemas : s = Merge(x, n)
  BY DEF mergeSurveys, mergeSchemas
<1>2. ASSUME NEW x \in results, NEW y \in results, NEW n \in x.survey.schemas, NEW m \in y.survey.schemas,
             Ref(x, n) = Ref(y, m)
      PROVE  x.name = y.name /\ (Len(Ref(x, n)) = 1 => x = y /\ n = m)
  <2>1. CASE Collides(results, x, n)
    <3>1. Ref(x, n) = <<x.name, n.name>>
      BY <2>1
    <3>2. CASE Collides(results, y, m)
      <4>1. Ref(y, m) = <<y.name, m.name>>
        BY <3>2
      <4>2. Len(<<x.name, n.name>>) = 2
        OBVIOUS
      <4>3. x.name = y.name
        BY <1>2, <3>1, <4>1
      <4> QED BY <3>1, <4>2, <4>3
    <3>3. CASE ~Collides(results, y, m)
      <4>1. Ref(y, m) = <<m.name>>
        BY <3>3
      <4>2. <<x.name, n.name>> # <<m.name>>
        OBVIOUS
      <4> QED BY <1>2, <3>1, <4>1, <4>2
    <3> QED BY <3>2, <3>3
  <2>2. CASE ~Collides(results, x, n)
    <3>1. Ref(x, n) = <<n.name>>
      BY <2>2
    <3>2. CASE Collides(results, y, m)
      <4>1. Ref(y, m) = <<y.name, m.name>>
        BY <3>2
      <4>2. <<y.name, m.name>> # <<n.name>>
        OBVIOUS
      <4> QED BY <1>2, <3>1, <4>1, <4>2
    <3>3. CASE ~Collides(results, y, m)
      <4>1. Ref(y, m) = <<m.name>>
        BY <3>3
      <4>2. n.name = m.name
        BY <1>2, <3>1, <4>1
      <4>3. x = y /\ n = m
        BY <2>2, <4>2 DEF Collides
      <4> QED BY <4>3
    <3> QED BY <3>2, <3>3
  <2> QED BY <2>1, <2>2
<1>3. \A s, t \in mergeSurveys(read).schemas : s.ref = t.ref => s.by = t.by /\ (Len(s.ref) = 1 => s = t)
  <2> SUFFICES ASSUME NEW s \in mergeSurveys(read).schemas, NEW t \in mergeSurveys(read).schemas, s.ref = t.ref
               PROVE  s.by = t.by /\ (Len(s.ref) = 1 => s = t)
    OBVIOUS
  <2>1. PICK x \in results : \E n \in x.survey.schemas : s = Merge(x, n)
    BY <1>1
  <2>1a. PICK n \in x.survey.schemas : s = Merge(x, n)
    BY <2>1
  <2>2. PICK y \in results : \E m \in y.survey.schemas : t = Merge(y, m)
    BY <1>1
  <2>2a. PICK m \in y.survey.schemas : t = Merge(y, m)
    BY <2>2
  <2> HIDE DEF results, Ref
  <2>3. s.by = x.name /\ t.by = y.name /\ s.ref = Ref(x, n) /\ t.ref = Ref(y, m)
    BY <2>1a, <2>2a
  <2>4. x.name = y.name /\ (Len(Ref(x, n)) = 1 => x = y /\ n = m)
    BY <1>2, <2>3
  <2> QED BY <2>1a, <2>2a, <2>3, <2>4
<1>4. ASSUME "web" \in mergeSurveys(read).stack PROVE mergeSurveys(read).adapters = {"web"}
  <2>1. PICK i \in DOMAIN read : Contributes(read, i) /\ read[i].name = "web"
    BY <1>4 DEF mergeSurveys, Contributors
  <2>2. \A j \in DOMAIN read : read[j].name = "web"
    BY <2>1 DEF Contributes
  <2> QED BY <2>1, <2>2 DEF mergeSurveys
<1> QED BY <1>3, <1>4

\* What the styles hold now are gauges.
LEMMA GaugesTyped == ASSUME SurveyTyped, NEW a \in Adapters PROVE GaugesNow(a) \subseteq SmGauges
<1>1. CASE smRepo[a] = NoSurvey
  BY <1>1 DEF GaugesNow
<1>2. CASE smRepo[a] # NoSurvey
  <2>1. smRepo[a] \in AdapterSays(a)
    BY <1>2 DEF SurveyTyped
  <2>2. smRepo[a].gauges \in (IF a = "dotnet" THEN {{}} ELSE SUBSET SmGauges)
    BY <2>1 DEF AdapterSays
  <2> QED BY <1>2, <2>2 DEF GaugesNow
<1> QED BY <1>1, <1>2

\* What an adapter says without its gauges it may say.
LEMMA WithoutGauges ==
  ASSUME NEW a \in Adapters, NEW x \in AdapterSays(a) PROVE [x EXCEPT !.gauges = {}] \in AdapterSays(a)
BY DEF AdapterSays

LEMMA SurveyStart == SurveyInit => SurveyInv
<1> SUFFICES ASSUME SurveyInit PROVE SurveyInv
  OBVIOUS
<1>1. NotRun \in SurveyRunSet /\ DOMAIN NotRun.read = {} /\ NotRun.at = "unused"
  BY DEF NotRun, SurveyRunSet
<1>2. SurveyTyped
  BY <1>1 DEF SurveyInit, SurveyTyped, AnySays
<1>3. OneWrites /\ SurveyAndGaugesAgree /\ MergedApart
  BY <1>1 DEF SurveyInit, OneWrites, SurveyAndGaugesAgree, MergedApart
<1> QED BY <1>2, <1>3 DEF SurveyInv

\* A run that moves to another run record of its kind.
LEMMA RunMoves ==
  ASSUME SurveyTyped, NEW r \in SmRuns, NEW new \in SurveyRunSet, smRun' = [smRun EXCEPT ![r] = new],
         \A i \in DOMAIN new.read : new.read[i].survey \in AdapterSays(new.read[i].name),
         smRepo' = smRepo, smOwn' \in [Adapters -> SmRuns \cup {NoSurvey}], smMixed' \in BOOLEAN
  PROVE  /\ SurveyTyped' /\ smRun'[r] = new
         /\ \A q \in SmRuns : q # r => smRun'[q] = smRun[q]
BY DEF SurveyTyped

LEMMA SurveyStep == SurveyInv /\ SurveyNext => SurveyInv'
<1> SUFFICES ASSUME SurveyInv, SurveyNext PROVE SurveyInv'
  OBVIOUS
<1>t. SurveyTyped /\ OneWrites /\ SurveyAndGaugesAgree /\ MergedApart
  BY DEF SurveyInv
<1>r. \A r \in SmRuns : smRun[r] \in SurveyRunSet
  BY <1>t DEF SurveyTyped
<1>1. ASSUME NEW r \in SmRuns, StartSurvey(r) PROVE SurveyInv'
  <2> DEFINE new == [smRun[r] EXCEPT !.at = "reading"]
  <2>1. new \in SurveyRunSet /\ new.read = smRun[r].read /\ new.at = "reading" /\ smRun' = [smRun EXCEPT ![r] = new]
        /\ UNCHANGED <<smRepo, smSurvey, smGauges, smOwn, smMixed>> /\ smRun[r].at = "unused"
    BY <1>1, <1>r DEF StartSurvey, SurveyRunSet
  <2> HIDE DEF new
  <2>2. SurveyTyped' /\ smRun'[r] = new /\ \A q \in SmRuns : q # r => smRun'[q] = smRun[q]
    BY <1>t, <2>1, RunMoves DEF SurveyTyped
  <2> QED BY <1>t, <2>1, <2>2 DEF SurveyInv, OneWrites, SurveyAndGaugesAgree, MergedApart
<1>2. ASSUME NEW r \in SmRuns, AskAdapter(r) PROVE SurveyInv'
  <2> DEFINE a == SURVEY_ADAPTERS[smRun[r].next]
             says == [smRepo[a] EXCEPT !.gauges = {}]
             said == [name |-> a, survey |-> says]
             read == IF smRepo[a] = NoSurvey THEN smRun[r].read ELSE Append(smRun[r].read, said)
             new == [smRun[r] EXCEPT !.next = @ + 1, !.read = read]
  <2>0. smRun[r].next \in 1 .. 3 /\ smRun[r].read \in Seq(AdapterReads)
        /\ \A i \in DOMAIN smRun[r].read : smRun[r].read[i].survey \in AdapterSays(smRun[r].read[i].name)
    BY <1>2, <1>r, <1>t, AdaptersAre DEF AskAdapter, SurveyRunSet, SurveyTyped
  <2>1. a \in Adapters
    BY <2>0, AdaptersAre
  <2>2. read \in Seq(AdapterReads) /\ \A i \in DOMAIN read : read[i].survey \in AdapterSays(read[i].name)
    <3>1. CASE smRepo[a] = NoSurvey
      BY <2>0, <3>1
    <3>2. CASE smRepo[a] # NoSurvey
      <4>1. smRepo[a] \in AdapterSays(a)
        BY <1>t, <2>1, <3>2 DEF SurveyTyped
      <4>1a. says \in AdapterSays(a) /\ says \in AnySays
        BY <2>1, <4>1, WithoutGauges DEF AnySays
      <4> HIDE DEF says
      <4>2. said \in AdapterReads /\ said.survey \in AdapterSays(said.name)
        BY <2>1, <4>1a DEF AdapterReads
      <4> HIDE DEF said, a
      <4>3. read = Append(smRun[r].read, said)
        BY <3>2
      <4> QED BY <2>0, <4>2, <4>3
    <3> QED BY <3>1, <3>2
  <2>3. smRun' = [smRun EXCEPT ![r] = new]
    BY <1>2 DEF AskAdapter
  <2> HIDE DEF read
  <2>4. new \in SurveyRunSet /\ new.read = read /\ new.at = smRun[r].at
    <3> DEFINE old == smRun[r]
               k == smRun[r].next + 1
    <3>1. old \in SurveyRunSet /\ k \in 1 .. 4
      BY <1>r, <2>0
    <3>2. new = [old EXCEPT !.next = k, !.read = read]
      OBVIOUS
    <3> HIDE DEF new, old, k
    <3>3. new \in SurveyRunSet /\ new.read = read /\ new.at = old.at
      BY <2>2, <3>1, <3>2 DEF SurveyRunSet
    <3> QED BY <3>3 DEF old
  <2> HIDE DEF new
  <2>5. UNCHANGED <<smRepo, smSurvey, smGauges, smOwn, smMixed>>
    BY <1>2 DEF AskAdapter
  <2>6. SurveyTyped' /\ smRun'[r] = new /\ \A q \in SmRuns : q # r => smRun'[q] = smRun[q]
    BY <1>t, <2>2, <2>3, <2>4, <2>5, RunMoves DEF SurveyTyped
  <2> QED BY <1>t, <2>4, <2>5, <2>6 DEF SurveyInv, OneWrites, SurveyAndGaugesAgree, MergedApart
<1>3. ASSUME NEW r \in SmRuns, Merged(r) PROVE SurveyInv'
  <2> DEFINE new == [smRun[r] EXCEPT !.at = "collecting", !.next = 1]
  <2>1. smRun' = [smRun EXCEPT ![r] = new]
        /\ UNCHANGED <<smRepo, smSurvey, smGauges, smOwn, smMixed>> /\ smRun[r].at = "reading"
    BY <1>3 DEF Merged
  <2>2. new \in SurveyRunSet /\ new.read = smRun[r].read /\ new.at = "collecting"
    <3> DEFINE old == smRun[r]
               k == 1
    <3>1. old \in SurveyRunSet /\ k \in 1 .. 4
      BY <1>r
    <3>2. new = [old EXCEPT !.at = "collecting", !.next = k]
      OBVIOUS
    <3> HIDE DEF new, old, k
    <3>3. new \in SurveyRunSet /\ new.read = old.read /\ new.at = "collecting"
      BY <3>1, <3>2 DEF SurveyRunSet
    <3> QED BY <3>3 DEF old
  <2> HIDE DEF new
  <2>3. SurveyTyped' /\ smRun'[r] = new /\ \A q \in SmRuns : q # r => smRun'[q] = smRun[q]
    BY <1>t, <2>1, <2>2, RunMoves DEF SurveyTyped
  <2> QED BY <1>t, <2>1, <2>2, <2>3 DEF SurveyInv, OneWrites, SurveyAndGaugesAgree, MergedApart
<1>4. ASSUME NEW r \in SmRuns, CollectGauges(r) PROVE SurveyInv'
  <2> DEFINE a == GAUGE_READERS[smRun[r].next]
             known == {g.name : g \in smRun[r].gauges}
             fresh == IF RanIn(r, a) THEN GaugesNow(a) \ known ELSE {}
             more == smRun[r].gauges \cup {[by |-> a, name |-> g] : g \in fresh}
             new == [smRun[r] EXCEPT !.next = @ + 1, !.gauges = more]
  <2>0. smRun[r].next \in 1 .. 2 /\ smRun[r].gauges \subseteq Gauges
    BY <1>4, <1>r DEF CollectGauges, SurveyRunSet, GAUGE_READERS
  <2>1. a \in {"angular", "web"}
    BY <2>0 DEF GAUGE_READERS
  <2>2. fresh \subseteq SmGauges
    BY <1>t, <2>1, GaugesTyped, AdaptersAre
  <2>3. smRun' = [smRun EXCEPT ![r] = new] /\ UNCHANGED <<smRepo, smSurvey, smGauges, smOwn, smMixed>>
    BY <1>4 DEF CollectGauges
  <2> HIDE DEF a, fresh
  <2>4. more \subseteq Gauges
    BY <2>0, <2>1, <2>2 DEF Gauges
  <2> HIDE DEF more
  <2>5. new \in SurveyRunSet /\ new.read = smRun[r].read /\ new.at = smRun[r].at
    <3> DEFINE old == smRun[r]
               k == smRun[r].next + 1
    <3>1. old \in SurveyRunSet /\ k \in 1 .. 4
      BY <1>r, <2>0
    <3>2. new = [old EXCEPT !.next = k, !.gauges = more]
      OBVIOUS
    <3> HIDE DEF new, old, k
    <3>3. new \in SurveyRunSet /\ new.read = old.read /\ new.at = old.at
      BY <2>4, <3>1, <3>2 DEF SurveyRunSet
    <3> QED BY <3>3 DEF old
  <2> HIDE DEF new
  <2>6. SurveyTyped' /\ smRun'[r] = new /\ \A q \in SmRuns : q # r => smRun'[q] = smRun[q]
    BY <1>t, <2>3, <2>5, RunMoves DEF SurveyTyped
  <2> QED BY <1>t, <2>3, <2>5, <2>6 DEF SurveyInv, OneWrites, SurveyAndGaugesAgree, MergedApart
<1>5. ASSUME NEW r \in SmRuns, WriteSurvey(r) PROVE SurveyInv'
  <2> DEFINE new == [smRun[r] EXCEPT !.at = "gauges"]
  <2>1. new \in SurveyRunSet /\ new.read = smRun[r].read /\ new.at = "gauges" /\ smRun' = [smRun EXCEPT ![r] = new]
        /\ UNCHANGED <<smRepo, smGauges, smOwn>> /\ smRun[r].at = "collecting"
        /\ smSurvey' = [by |-> r, of |-> mergeSurveys(smRun[r].read)]
        /\ smMixed' = (\E q \in SmRuns : smRun[q].at = "gauges")
    BY <1>5, <1>r DEF WriteSurvey, SurveyRunSet
  <2> HIDE DEF new
  <2>2. SurveyTyped' /\ smRun'[r] = new /\ \A q \in SmRuns : q # r => smRun'[q] = smRun[q]
    BY <1>t, <2>1, RunMoves DEF SurveyTyped
  <2>3. MergedApart'
    BY <2>1, MergeApart DEF MergedApart
  <2>4. OneWrites' /\ SurveyAndGaugesAgree'
    BY <1>t, <2>1, <2>2 DEF OneWrites, SurveyAndGaugesAgree
  <2> QED BY <2>2, <2>3, <2>4 DEF SurveyInv
<1>6. ASSUME NEW r \in SmRuns, WriteGauges(r) PROVE SurveyInv'
  <2> DEFINE new == [smRun[r] EXCEPT !.at = "own", !.next = 1]
             file == GaugesFile(r, smRun[r].gauges)
  <2>0. new \in SurveyRunSet /\ new.read = smRun[r].read /\ new.at = "own"
    <3> DEFINE old == smRun[r]
               k == 1
    <3>1. old \in SurveyRunSet /\ k \in 1 .. 4
      BY <1>r
    <3>2. new = [old EXCEPT !.at = "own", !.next = k]
      OBVIOUS
    <3> HIDE DEF new, old, k
    <3>3. new \in SurveyRunSet /\ new.read = old.read /\ new.at = "own"
      BY <3>1, <3>2 DEF SurveyRunSet
    <3> QED BY <3>3 DEF old
  <2>1. smRun' = [smRun EXCEPT ![r] = new]
        /\ UNCHANGED <<smRepo, smSurvey, smOwn, smMixed>> /\ smRun[r].at = "gauges" /\ smGauges' = file
    BY <1>6 DEF WriteGauges
  <2>2. file # NoSurvey /\ file.by = r
    <3>1. file \in GaugesFiles
      BY <1>r DEF SurveyRunSet, GaugesFile, GaugesFiles
    <3>2. file.by = r
      BY DEF GaugesFile
    <3> QED BY <3>1, <3>2, NoSurveyIsNone
  <2> HIDE DEF new, file
  <2>3. SurveyTyped' /\ smRun'[r] = new /\ \A q \in SmRuns : q # r => smRun'[q] = smRun[q]
    BY <1>t, <2>0, <2>1, RunMoves DEF SurveyTyped
  <2>4. OneWrites'
    BY <1>t, <2>0, <2>1, <2>3 DEF OneWrites
  <2>5. SurveyAndGaugesAgree'
    BY <1>t, <2>0, <2>1, <2>2, <2>3 DEF OneWrites, SurveyAndGaugesAgree
  <2> QED BY <1>t, <2>1, <2>3, <2>4, <2>5 DEF SurveyInv, MergedApart
<1>7. ASSUME NEW r \in SmRuns, WriteOwn(r) \/ Aborted(r) PROVE SurveyInv'
  <2> DEFINE new == [NotRun EXCEPT !.at = "done"]
  <2>0. new \in SurveyRunSet /\ DOMAIN new.read = {} /\ new.at = "done"
    <3>1. NotRun \in SurveyRunSet /\ DOMAIN NotRun.read = {}
      BY DEF NotRun, SurveyRunSet
    <3>2. PICK old : old = NotRun
      OBVIOUS
    <3>3. new = [old EXCEPT !.at = "done"]
      BY <3>2
    <3> HIDE DEF new
    <3>4. new \in SurveyRunSet /\ new.read = old.read /\ new.at = "done"
      BY <3>1, <3>2, <3>3 DEF SurveyRunSet
    <3> QED BY <3>1, <3>2, <3>4
  <2>a. smRun' = [smRun EXCEPT ![r] = new] /\ UNCHANGED <<smRepo, smSurvey, smGauges>>
    BY <1>7 DEF WriteOwn, Aborted
  <2> HIDE DEF new
  <2>1. (smMixed => smMixed') /\ (smRun[r].at = "gauges" => smMixed')
    <3>1. CASE WriteOwn(r)
      BY <3>1 DEF WriteOwn
    <3>2. CASE Aborted(r)
      BY <3>2 DEF Aborted
    <3> QED BY <1>7, <3>1, <3>2
  <2>2. smOwn' \in [Adapters -> SmRuns \cup {NoSurvey}] /\ smMixed' \in BOOLEAN
    BY <1>7, <1>t DEF WriteOwn, Aborted, SurveyTyped
  <2>3. SurveyTyped' /\ smRun'[r] = new /\ \A q \in SmRuns : q # r => smRun'[q] = smRun[q]
    BY <1>t, <2>0, <2>a, <2>2, RunMoves
  <2>4. OneWrites'
    BY <1>t, <2>0, <2>a, <2>1, <2>3 DEF OneWrites
  <2>5. SurveyAndGaugesAgree'
    BY <1>t, <2>0, <2>a, <2>1, <2>3 DEF SurveyAndGaugesAgree
  <2>6. MergedApart'
    BY <1>t, <2>a DEF MergedApart
  <2> QED BY <2>3, <2>4, <2>5, <2>6 DEF SurveyInv
<1>8. ASSUME NEW a \in Adapters, RepoLoses(a) PROVE SurveyInv'
  BY <1>8, <1>t DEF RepoLoses, SurveyInv, SurveyTyped, OneWrites, SurveyAndGaugesAgree, MergedApart
<1>9. ASSUME NEW a \in Adapters, NEW gauges \in SUBSET SmGauges, StylesEdited(a, gauges) PROVE SurveyInv'
  <2> DEFINE says == [smRepo[a] EXCEPT !.gauges = gauges]
  <2>1. says \in AdapterSays(a) /\ says \in AnySays /\ smRepo' = [smRepo EXCEPT ![a] = says]
        /\ UNCHANGED <<smRun, smSurvey, smGauges, smOwn, smMixed>>
    BY <1>9 DEF StylesEdited, AnySays
  <2> HIDE DEF says
  <2>2. SurveyTyped'
    BY <1>t, <2>1 DEF SurveyTyped
  <2> QED BY <1>t, <2>1, <2>2 DEF SurveyInv, OneWrites, SurveyAndGaugesAgree, MergedApart
<1> QED BY <1>1, <1>2, <1>3, <1>4, <1>5, <1>6, <1>7, <1>8, <1>9 DEF SurveyNext

LEMMA SurveyStutter == SurveyInv /\ UNCHANGED surveyVars => SurveyInv'
BY DEF SurveyInv, surveyVars, SurveyTyped, OneWrites, SurveyAndGaugesAgree, MergedApart

LEMMA SurveyShows == SurveyInv => SurveyTypeOK
<1> SUFFICES ASSUME SurveyInv PROVE SurveyTypeOK
  OBVIOUS
<1>1. \A r \in SmRuns : /\ smRun[r].at \in {"unused", "reading", "collecting", "gauges", "own", "done"}
                        /\ smRun[r].next \in 1 .. 4 /\ smRun[r].gauges \subseteq Gauges
  BY DEF SurveyInv, SurveyTyped, SurveyRunSet
<1> QED BY <1>1, AdaptersAre DEF SurveyTypeOK, SurveyInv, SurveyTyped

-----------------------------------------------------------------------------
(* Shop face and prompt context                                            *)

PickSet == [component : PickedNames, file : ScFiles \cup {Unnamed}, text : SUBSET ScNouns]

\* Before a survey nothing is looked up, and what was looked up is what the survey says.
Follows ==
  /\ scSurvey = NothingSurveyed => {scFace, scContext, scDraft} = {NotMade}
  /\ scFace \in {NotMade, buildShopFace}
  /\ scContext \in {NotMade, buildPromptContext}
  /\ scDraft \in {NotMade, buildPrompt}

SurveyRead ==
  /\ scSurvey.components \in Seq(Components)
  /\ scSurvey.routed \subseteq ScNames /\ scSurvey.endpoints \subseteq ScNouns
  /\ scPick.file \in ScFiles \cup {Unnamed}

ContextInv == SurveyRead /\ Follows

LEMMA FoundIsListed ==
  ASSUME SurveyRead, NEW places \in SUBSET DOMAIN scSurvey.components
  PROVE  FirstAt(places) \in ToSet(scSurvey.components) \cup {Unnamed}
<1>1. CASE places # {}
  <2>1. places \subseteq Nat
    BY DEF SurveyRead
  <2>2. \E i \in places : \A j \in places : i <= j
    BY <1>1, <2>1, LeastOf
  <2>3. (CHOOSE i \in places : \A j \in places : i <= j) \in places
    BY <2>2
  <2> QED BY <1>1, <2>3 DEF FirstAt, ToSet
<1> QED BY <1>1 DEF FirstAt

\* Each look-up finds a component of the survey or none.
LEMMA EachFinds ==
  ASSUME SurveyRead
  PROVE  /\ {findComponent, findTarget, DrafterFinds} \subseteq ToSet(scSurvey.components) \cup {Unnamed}
         /\ ToSet(scSurvey.components) \subseteq Components
<1>1. \A n : PlacesOf(n) \in SUBSET DOMAIN scSurvey.components /\ PlacesIn(n) \in SUBSET DOMAIN scSurvey.components
  BY DEF PlacesOf, PlacesIn
<1>2. {ByName, ByFile, ByStrippedName, DrafterFinds} \subseteq ToSet(scSurvey.components) \cup {Unnamed}
  BY <1>1, FoundIsListed DEF ByName, ByFile, ByStrippedName, DrafterFinds
<1>3. ToSet(scSurvey.components) \subseteq Components
  BY DEF SurveyRead, ToSet
<1> QED BY <1>2, <1>3 DEF findComponent, findTarget

LEMMA FilesTyped ==
  ASSUME NEW c \in Components, NEW n \in ScNames \cup ScNouns
  PROVE  /\ OwnFiles(c) \subseteq FilesNamed /\ Of("spec", c.file) \in FilesNamed
         /\ {Of("route", n), Of("endpoint", n), Of("test", n)} \subseteq FilesNamed
BY DEF Components, OwnFiles, Of, FilesNamed

LEMMA MadeTyped == SurveyRead => {NotMade, buildShopFace, buildPromptContext, buildPrompt} \subseteq Made
<1> SUFFICES ASSUME SurveyRead PROVE {NotMade, buildShopFace, buildPromptContext, buildPrompt} \subseteq Made
  OBVIOUS
<1>1. \A c \in Components : OwnFiles(c) \subseteq FilesNamed /\ Of("spec", c.file) \in FilesNamed /\ c.name \in ScNames
  BY FilesTyped DEF Components, OwnFiles, Of, FilesNamed
<1>2. \A n \in ScNames \cup ScNouns : Of("route", n) \in FilesNamed /\ Of("endpoint", n) \in FilesNamed /\ Of("test", n) \in FilesNamed
  BY DEF Of, FilesNamed
<1>3. \A f \in ScFiles : Of("class", f) \in FilesNamed
  BY DEF Of, FilesNamed
<1>4. \A c : matchingEndpoints(c) \subseteq ScNouns
  BY DEF matchingEndpoints, SurveyRead
<1>5. \A c \in Components \cup {Unnamed} : RoutesOf(c) \subseteq FilesNamed
  BY <1>2 DEF RoutesOf, SurveyRead
<1>6. NotMade \in Made
  BY DEF NotMade, Made
<1>7. buildShopFace \in Made
  <2> DEFINE c == findComponent
             eps == matchingEndpoints(c)
             route == IF c # Unnamed /\ c.name \in scSurvey.routed /\ scWords.navigates
                      THEN {Of("route", c.name)} ELSE {}
             own == IF c = Unnamed THEN FilesOfNone ELSE OwnFiles(c) \cup {Of("spec", c.file)} \cup route
  <2>1. c \in Components \cup {Unnamed}
    BY EachFinds
  <2> HIDE DEF c
  <2>2. route \subseteq FilesNamed
    BY <1>1, <1>2, <2>1
  <2> HIDE DEF route
  <2>3. own \subseteq FilesNamed
    BY <1>1, <2>1, <2>2 DEF FilesOfNone
  <2> HIDE DEF own
  <2>4. eps \subseteq ScNouns
    BY <1>4
  <2> HIDE DEF eps
  <2>5. {Of("endpoint", n) : n \in eps} \subseteq FilesNamed /\ {Of("test", n) : n \in eps} \subseteq FilesNamed
    BY <1>2, <2>4
  <2>6. (IF c = Unnamed THEN {} ELSE {Of("spec", c.file)}) \subseteq FilesNamed
    BY <1>1, <2>1
  <2>7. buildShopFace =
         [component |-> c, files |-> own \cup {Of("endpoint", n) : n \in eps},
          tests |-> (IF c = Unnamed THEN {} ELSE {Of("spec", c.file)}) \cup {Of("test", n) : n \in eps},
          routes |-> route, endpoints |-> eps, gauges |-> {}]
    BY DEF buildShopFace, c, own, eps, route
  <2> QED BY <2>1, <2>2, <2>3, <2>4, <2>5, <2>6, <2>7 DEF Made
<1>8. buildPromptContext \in Made
  <2> DEFINE c == findTarget
             own == IF c = Unnamed THEN ClaimedFile ELSE OwnFiles(c)
  <2>1. c \in Components \cup {Unnamed}
    BY EachFinds
  <2> HIDE DEF c
  <2>2. own \subseteq FilesNamed
    BY <1>1, <1>3, <2>1 DEF SurveyRead, ClaimedFile
  <2> HIDE DEF own
  <2>3. buildPromptContext =
         [component |-> c, files |-> own, tests |-> {}, routes |-> RoutesOf(c),
          endpoints |-> matchingEndpoints(c), gauges |-> {f \in own : f.what = "style"}]
    BY DEF buildPromptContext, c, own
  <2> QED BY <1>4, <1>5, <2>1, <2>2, <2>3 DEF Made
<1>9. buildPrompt \in Made
  <2>1. DrafterFinds \in Components \cup {Unnamed}
    BY EachFinds
  <2>2. relatedEndpoints \subseteq ScNouns
    BY DEF relatedEndpoints, SurveyRead
  <2> QED BY <1>5, <2>1, <2>2 DEF buildPrompt, Made
<1> QED BY <1>6, <1>7, <1>8, <1>9

LEMMA FaceIsProven == SurveyRead => buildShopFace.files \subseteq Surveyed
<1> SUFFICES ASSUME SurveyRead PROVE buildShopFace.files \subseteq Surveyed
  OBVIOUS
<1> DEFINE c == findComponent
           route == IF c # Unnamed /\ c.name \in scSurvey.routed /\ scWords.navigates
                    THEN {Of("route", c.name)} ELSE {}
           own == IF c = Unnamed THEN FilesOfNone ELSE OwnFiles(c) \cup {Of("spec", c.file)} \cup route
           eps == matchingEndpoints(c)
<1>1. c \in ToSet(scSurvey.components) \cup {Unnamed}
  BY EachFinds
<1>2. eps \subseteq scSurvey.endpoints
  BY DEF matchingEndpoints
<1>3. buildShopFace.files = own \cup {Of("endpoint", n) : n \in eps}
  BY DEF buildShopFace
<1> HIDE DEF c, eps
<1>4. route \subseteq {Of("route", n) : n \in scSurvey.routed}
  BY ZenonT(20)
<1> HIDE DEF route
<1>e. {Of("endpoint", n) : n \in eps} \subseteq {Of("endpoint", n) : n \in scSurvey.endpoints}
  BY <1>2, ZenonT(20)
<1> DEFINE ends == {Of("endpoint", n) : n \in eps}
           byRoute == {Of("route", n) : n \in scSurvey.routed}
           byEnd == {Of("endpoint", n) : n \in scSurvey.endpoints}
           byComp == UNION {OwnFiles(d) \cup {Of("spec", d.file)} : d \in ToSet(scSurvey.components)}
<1>s. Surveyed = (byComp \cup byRoute) \cup byEnd
  BY DEF Surveyed
<1> HIDE DEF ends, byRoute, byEnd
<1>5. CASE c = Unnamed
  <2>1. own = {}
    BY <1>5 DEF FilesOfNone
  <2> HIDE DEF own
  <2> QED BY <1>e, <1>s, <1>3, <2>1 DEF ends, byEnd
<1>6. CASE c # Unnamed
  <2>1. own = OwnFiles(c) \cup {Of("spec", c.file)} \cup route
    BY <1>6
  <2>2. OwnFiles(c) \cup {Of("spec", c.file)} \subseteq UNION {OwnFiles(d) \cup {Of("spec", d.file)} : d \in ToSet(scSurvey.components)}
    BY <1>1, <1>6
  <2>3. ends \subseteq byEnd /\ route \subseteq byRoute /\ buildShopFace.files = own \cup ends
    BY <1>e, <1>3, <1>4 DEF ends, byEnd, byRoute
  <2>4. OwnFiles(c) \cup {Of("spec", c.file)} \subseteq byComp
    BY <2>2
  <2> HIDE DEF own, byComp
  <2> QED BY <1>s, <2>1, <2>3, <2>4
<1> QED BY <1>5, <1>6

\* The context of a prompt names what the survey has, or the one file that the pick claims.
LEMMA ContextIsProven ==
  ASSUME SurveyRead
  PROVE  \/ buildPromptContext.files \subseteq Surveyed
         \/ buildPromptContext.component = Unnamed /\ buildPromptContext.files = ClaimedFile
<1>1. buildPromptContext.component = findTarget
      /\ buildPromptContext.files = (IF findTarget = Unnamed THEN ClaimedFile ELSE OwnFiles(findTarget))
  BY DEF buildPromptContext
<1>2. CASE findTarget = Unnamed
  BY <1>1, <1>2
<1>3. CASE findTarget # Unnamed
  <2> DEFINE c == findTarget
             byComp == UNION {OwnFiles(d) \cup {Of("spec", d.file)} : d \in ToSet(scSurvey.components)}
  <2>1. c \in ToSet(scSurvey.components) /\ buildPromptContext.files = OwnFiles(c)
    BY <1>1, <1>3, EachFinds
  <2> HIDE DEF c
  <2>2. OwnFiles(c) \subseteq byComp
    BY <2>1
  <2>3. byComp \subseteq Surveyed
    BY DEF Surveyed
  <2> QED BY <2>1, <2>2, <2>3
<1> QED BY <1>2, <1>3

LEMMA FaceAndContext ==
  ASSUME buildShopFace.component # Unnamed
  PROVE  /\ buildShopFace.component = buildPromptContext.component
         /\ buildPromptContext.files \subseteq buildShopFace.files
         /\ buildPromptContext.endpoints = buildShopFace.endpoints
<1>1. buildShopFace.component = findComponent
  BY DEF buildShopFace
<1>2. findTarget = findComponent
  BY <1>1 DEF findTarget, findComponent
<1>3. buildPromptContext.files = OwnFiles(findComponent)
  BY <1>1, <1>2 DEF buildPromptContext
<1>4. OwnFiles(findComponent) \subseteq buildShopFace.files
  BY <1>1 DEF buildShopFace
<1>5. buildPromptContext.component = findComponent /\ buildPromptContext.endpoints = matchingEndpoints(findComponent)
  BY <1>2 DEF buildPromptContext
<1>6. buildShopFace.endpoints = matchingEndpoints(findComponent)
  BY DEF buildShopFace
<1> QED BY <1>1, <1>3, <1>4, <1>5, <1>6

LEMMA ContextStart == SurveyContextInit => ContextInv
BY DEF SurveyContextInit, NothingSurveyed, ContextInv, SurveyRead, Follows

\* Looking up again what was looked up already finds the same, as the survey, the pick and the
\* words stay.
LEMMA SameLookUps ==
  ASSUME UNCHANGED <<scSurvey, scPick, scWords>>
  PROVE  /\ buildShopFace' = buildShopFace /\ buildPromptContext' = buildPromptContext
         /\ buildPrompt' = buildPrompt
<1>1. \A places : FirstAt(places)' = FirstAt(places)
  BY DEF FirstAt
<1>2. ByName' = ByName /\ ByFile' = ByFile /\ ByStrippedName' = ByStrippedName /\ DrafterFinds' = DrafterFinds
  BY DEF ByName, ByFile, ByStrippedName, DrafterFinds, FirstAt, PlacesOf, PlacesIn
<1>3. findComponent' = findComponent /\ findTarget' = findTarget
  BY <1>2 DEF findComponent, findTarget
<1>4. buildShopFace' = buildShopFace
  BY <1>3 DEF buildShopFace, matchingEndpoints, nounsFrom
<1>5. buildPromptContext' = buildPromptContext
  BY <1>3 DEF buildPromptContext, matchingEndpoints, nounsFrom, RoutesOf, ClaimedFile
<1>6. buildPrompt' = buildPrompt
  BY <1>2 DEF buildPrompt, RoutesOf, relatedEndpoints, nounsFor
<1> QED BY <1>4, <1>5, <1>6

LEMMA ContextStep == ContextInv /\ SurveyContextNext => ContextInv'
<1> SUFFICES ASSUME ContextInv, SurveyContextNext PROVE ContextInv'
  OBVIOUS
<1>1. ASSUME NEW components \in BoundedSeq(Components, 2), NEW routed \in {{}, ScNames},
             NEW name \in PickedNames, NEW file \in ScFiles \cup {Unnamed}, NEW text \in {{}, ScNouns},
             NEW nouns \in SUBSET ScNouns, NEW navigates \in BOOLEAN,
             PersonPicks(components, routed, [component |-> name, file |-> file, text |-> text],
                         [nouns |-> nouns, navigates |-> navigates])
      PROVE  ContextInv'
  <2>1. components \in Seq(Components)
    <3>1. PICK n \in 0 .. 2 : components \in [1 .. n -> Components]
      BY DEF BoundedSeq, SeqOf
    <3> QED BY <3>1
  <2>2. SurveyRead'
    BY <1>1, <2>1 DEF PersonPicks, SurveyRead
  <2>3. {scFace, scContext, scDraft}' = {NotMade}
    BY <1>1 DEF PersonPicks, ContextInv, Follows
  <2> QED BY <2>2, <2>3 DEF ContextInv, Follows
<1>2. ASSUME ReleaseOrder \/ ReadyPrompt \/ DraftOrder PROVE ContextInv'
  <2>1. UNCHANGED <<scSurvey, scPick, scWords>>
    BY <1>2 DEF ReleaseOrder, ReadyPrompt, DraftOrder
  <2>2. SurveyRead'
    BY <2>1 DEF ContextInv, SurveyRead
  <2>3. scFace' \in {scFace, buildShopFace} /\ scContext' \in {scContext, buildPromptContext}
        /\ scDraft' \in {scDraft, buildPrompt}
    BY <1>2 DEF ReleaseOrder, ReadyPrompt, DraftOrder
  <2>4. scSurvey # NothingSurveyed
    BY <1>2 DEF ReleaseOrder, ReadyPrompt, DraftOrder, ContextInv, Follows
  <2> QED BY <2>1, <2>2, <2>3, <2>4, SameLookUps DEF ContextInv, Follows
<1> QED BY <1>1, <1>2 DEF SurveyContextNext

LEMMA ContextStutter == ContextInv /\ UNCHANGED surveyContextVars => ContextInv'
BY SameLookUps DEF ContextInv, surveyContextVars, SurveyRead, Follows

LEMMA ContextShows == ContextInv => SurveyContextTypeOK /\ FilesProven /\ FaceAndContextAgree
<1> SUFFICES ASSUME ContextInv PROVE SurveyContextTypeOK /\ FilesProven /\ FaceAndContextAgree
  OBVIOUS
<1>1. SurveyContextTypeOK
  BY MadeTyped DEF SurveyContextTypeOK, ContextInv, Follows
<1>2. FilesProven
  BY FaceIsProven, ContextIsProven DEF FilesProven, ContextInv, Follows, NotMade
<1>3. FaceAndContextAgree
  <2> SUFFICES ASSUME scFace.component \notin {Unnamed, NotYet}, scContext.component \notin {Unnamed, NotYet}
               PROVE  /\ scFace.component = scContext.component
                      /\ scContext.files \subseteq scFace.files /\ scContext.endpoints = scFace.endpoints
    BY DEF FaceAndContextAgree
  <2>1. NotMade.component = NotYet
    BY DEF NotMade
  <2>2. scFace = buildShopFace /\ scContext = buildPromptContext
    BY <2>1 DEF ContextInv, Follows
  <2> QED BY <2>2, FaceAndContext
<1> QED BY <1>1, <1>2, <1>3

-----------------------------------------------------------------------------
(* The app to start                                                        *)

LEMMA NothingIsNone == /\ Nothing \notin Nat /\ Nothing \notin ScriptNames
                       /\ Configured # Nothing /\ DefaultGuess # Nothing
BY DetectNames DEF Configured, DefaultGuess

LEMMA AngularPortOK ==
  ASSUME NEW repo \in RepoFiles
  PROVE  LET port == angularConfiguredPort(repo) IN
         /\ port = Nothing \/ isValidPort(port)
         /\ isValidPort(Or(port, DefaultGuess))
         /\ repo.angular.port = Configured => port = Configured
<1>1. repo.angular \in AngularFiles
  BY DEF RepoFiles
<1>2. isValidPort(DefaultGuess) /\ isValidPort(Configured)
  BY NothingIsNone DEF isValidPort, DefaultGuess, Configured
<1>3. CASE repo.angular \in [kind : {"none", "corrupt"}, port : {Nothing}]
  BY <1>2, <1>3, NothingIsNone DEF angularConfiguredPort, Or
<1>4. CASE repo.angular \in [kind : {"read"}, port : {Nothing, Infinite, Configured}]
  BY <1>2, <1>4, NothingIsNone DEF angularConfiguredPort, Or
<1> QED BY <1>1, <1>3, <1>4 DEF AngularFiles

LEMMA HintPortOK ==
  ASSUME NEW repo \in RepoFiles, HintNamed(repo)
  PROVE  /\ HintPort(repo) = Nothing \/ isValidPort(HintPort(repo))
         /\ repo.hint.script \in packageJsonScriptNames(repo)
<1>1. repo.hint \in [script : HintScripts \cup {Nothing}, port : {Nothing, Infinite, Hinted}]
  BY DEF RepoFiles
<1>2. LET hint == readDevServerHint(repo) IN
      hint.script = repo.hint.script /\ (hint.port = Nothing \/ isValidPort(hint.port))
  BY <1>1 DEF readDevServerHint
<1> QED BY <1>2 DEF HintPort, HintNamed

LEMMA PreferredOK ==
  ASSUME NEW repo \in RepoFiles, NEW preferred
  PROVE  LET script == packageJsonScript(repo, preferred) IN
         script = Nothing \/ script \in packageJsonScriptNames(repo)
<1> DEFINE names == packageJsonScriptNames(repo)
           ranks == {n \in DOMAIN Priority : Priority[n] \in names}
           best == CHOOSE n \in ranks : \A k \in ranks : n <= k
<1>1. ranks \in SUBSET Nat
  BY DEF Priority
<1>2. ASSUME ranks # {} PROVE best \in ranks
  <2>1. \E n \in ranks : \A k \in ranks : n <= k
    BY <1>1, <1>2, LeastOf
  <2> QED BY <2>1
<1> QED BY <1>2 DEF packageJsonScript

\* What is detected can be run: a script of the repo's own, a port that can be bound.
Runnable(repo, d) ==
  /\ d \in Detected /\ ~d.fetch /\ isValidPort(d.port)
  /\ d.script # Nothing => d.script \in packageJsonScriptNames(repo)
  /\ d.source # "survey" /\ repo.angular.port = Configured => d.port = Configured

LEMMA DetectedRunnable ==
  ASSUME NEW repo \in RepoFiles
  PROVE  detectDevScript(repo) = Nothing \/ Runnable(repo, detectDevScript(repo))
<1> DEFINE angular == angularConfiguredPort(repo)
           script == packageJsonScript(repo, repo.hint.script)
           d == detectDevScript(repo)
<1>1. /\ angular = Nothing \/ isValidPort(angular)
      /\ isValidPort(Or(angular, DefaultGuess))
      /\ repo.angular.port = Configured => angular = Configured
  BY AngularPortOK
<1>2. \A port : isValidPort(port) => port \in Nat
  BY DEF isValidPort
<1>n. packageJsonScriptNames(repo) \subseteq ScriptNames
  BY DEF packageJsonScriptNames, RepoFiles
<1>h. readDevServerHint(repo).script = repo.hint.script
  <2>1. repo.hint \in [script : HintScripts \cup {Nothing}, port : {Nothing, Infinite, Hinted}]
    BY DEF RepoFiles
  <2> QED BY <2>1 DEF readDevServerHint
<1>3. CASE HintNamed(repo)
  <2> DEFINE port == Or(HintPort(repo), Or(angular, DefaultGuess))
  <2>1. isValidPort(port)
    BY <1>1, <1>3, HintPortOK DEF Or
  <2>2. d = npm("survey", repo.hint.script, port)
    BY <1>3, <1>h DEF detectDevScript
  <2>3. repo.hint.script \in packageJsonScriptNames(repo)
    BY <1>3, HintPortOK
  <2> HIDE DEF port
  <2> QED BY <1>2, <1>n, <2>1, <2>2, <2>3 DEF npm, Runnable, Detected, Sources
<1>4. CASE ~HintNamed(repo) /\ script # Nothing
  <2> DEFINE port == Or(angular, DefaultGuess)
  <2>1. d = npm("package.json", script, port)
    BY <1>4, <1>h DEF detectDevScript
  <2>2. script \in packageJsonScriptNames(repo)
    BY <1>4, PreferredOK
  <2>3. repo.angular.port = Configured => port = Configured
    BY <1>1, NothingIsNone DEF Or
  <2>4. isValidPort(port)
    BY <1>1
  <2> HIDE DEF port, script
  <2> QED BY <1>2, <1>n, <2>1, <2>2, <2>3, <2>4 DEF npm, Runnable, Detected, Sources
<1>5. CASE ~HintNamed(repo) /\ script = Nothing /\ angular # Nothing /\ hasLocalAngularCli(repo)
  <2>1. d = [source |-> "angular.json", script |-> Nothing, port |-> angular, fetch |-> ~repo.ng]
    BY <1>5, <1>h DEF detectDevScript
  <2>2. repo.ng = TRUE
    BY <1>5 DEF hasLocalAngularCli, RepoFiles
  <2>3. d = [source |-> "angular.json", script |-> Nothing, port |-> angular, fetch |-> FALSE]
    BY <2>1, <2>2
  <2>4. isValidPort(angular) /\ angular \in Nat
    BY <1>1, <1>2, <1>5
  <2>5. d \in Detected /\ d.fetch = FALSE /\ d.port = angular /\ d.script = Nothing
    <3> HIDE DEF angular, d
    <3> QED BY <2>3, <2>4 DEF Detected, Sources
  <2> QED BY <1>1, <2>4, <2>5 DEF Runnable
<1> QED BY <1>3, <1>4, <1>5, <1>h DEF detectDevScript

RunSpec(script, port, fetch, plain) ==
  [repo |-> tdRepo, script |-> script, port |-> port, fetch |-> fetch, plain |-> plain]

\* What was started may be started: the same of the repo as it was at that moment.
StartHonest(s) ==
  /\ s \in Started /\ ~s.fetch /\ isValidPort(s.port)
  /\ s.script # Nothing => s.script \in packageJsonScriptNames(s.repo)

DetectInv ==
  /\ DetectTypeOK
  /\ tdReport # Nothing => /\ isValidPort(tdReport.port)
  /\ tdSame => tdReport = detectDevScript(tdRepo)
  /\ tdStarted \notin Refusal \cup {Nothing} => StartHonest(tdStarted)

LEMMA RunOK ==
  ASSUME tdRepo \in RepoFiles, NEW script \in HintScripts \cup {Nothing},
         NEW port \in {Nothing, Infinite, AskedPort}
  PROVE  LET run == Run(script, port) IN
         \/ run \in Refusal
         \/ /\ StartHonest(run)
            /\ run.plain => /\ detectDevScript(tdRepo) # Nothing
                            /\ run.script = detectDevScript(tdRepo).script
                            /\ run.port = detectDevScript(tdRepo).port
<1> DEFINE d == detectDevScript(tdRepo)
           plain == (script = Nothing /\ port = Nothing)
           run == Run(script, port)
<1>1. d = Nothing \/ Runnable(tdRepo, d)
  BY DetectedRunnable
<1>2. isValidPort(DefaultGuess)
  BY NothingIsNone DEF isValidPort, DefaultGuess
<1>p. \A p : isValidPort(p) => p \in Nat
  BY DEF isValidPort
<1>3. \A p : isValidPort(p) /\ (port = Nothing \/ isValidPort(port)) => isValidPort(Or(port, p))
  BY DEF Or
<1>4. packageJsonScriptNames(tdRepo) \subseteq ScriptNames
  BY DEF packageJsonScriptNames, RepoFiles
<1>r. {[refused |-> "port"], [refused |-> "script"], [refused |-> "nothing-to-start"]} \subseteq Refusal
  BY DEF Refusal
<1>5. CASE port # Nothing /\ ~isValidPort(port)
  BY <1>5, <1>r DEF Run
<1>6. CASE ~(port # Nothing /\ ~isValidPort(port)) /\ script # Nothing
  <2>1. CASE script \notin packageJsonScriptNames(tdRepo)
    BY <1>6, <1>r, <2>1 DEF Run
  <2>2. CASE script \in packageJsonScriptNames(tdRepo)
    <3> DEFINE p == Or(port, IF d = Nothing THEN DefaultGuess ELSE d.port)
    <3>1. run = RunSpec(script, p, FALSE, plain)
      BY <1>6, <2>2 DEF Run, DetectedNow, RunSpec
    <3>2. isValidPort(p)
      BY <1>1, <1>2, <1>3, <1>6 DEF Runnable
    <3>3. plain = FALSE
      BY <1>6
    <3> HIDE DEF p, plain, run
    <3>4. run.fetch = FALSE /\ run.plain = FALSE /\ run.port = p /\ run.script = script /\ run.repo = tdRepo
      BY <3>1, <3>3 DEF RunSpec
    <3>5. run \in Started
      BY <1>p, <1>4, <2>2, <3>1, <3>2, <3>3 DEF RunSpec, Started
    <3>6. StartHonest(run)
      BY <2>2, <3>2, <3>4, <3>5 DEF StartHonest
    <3> QED BY <3>4, <3>6 DEF run
  <2> QED BY <2>1, <2>2
<1>7. CASE ~(port # Nothing /\ ~isValidPort(port)) /\ script = Nothing
  <2>1. CASE d = Nothing
    BY <1>7, <1>r, <2>1 DEF Run, DetectedNow
  <2>2. CASE d # Nothing
    <3> DEFINE p == Or(port, d.port)
    <3>1. run = RunSpec(d.script, p, d.fetch, plain)
      BY <1>7, <2>2 DEF Run, DetectedNow, RunSpec
    <3>2. isValidPort(p)
      BY <1>1, <1>3, <1>7, <2>2 DEF Runnable
    <3>3. plain \in BOOLEAN /\ (plain => p = d.port)
      BY DEF Or
    <3>4. Runnable(tdRepo, d) /\ d.script \in ScriptNames \cup {Nothing} /\ d.fetch = FALSE
      BY <1>1, <2>2 DEF Runnable, Detected
    <3> HIDE DEF p, plain
    <3> HIDE DEF run
    <3>5. run.fetch = FALSE /\ run.plain = plain /\ run.port = p /\ run.script = d.script /\ run.repo = tdRepo
      BY <3>1, <3>4 DEF RunSpec
    <3>6. run \in Started
      BY <1>p, <3>1, <3>2, <3>3, <3>4 DEF RunSpec, Started
    <3>7. StartHonest(run)
      BY <3>2, <3>4, <3>5, <3>6 DEF StartHonest, Runnable
    <3> QED BY <2>2, <3>3, <3>5, <3>7 DEF run
  <2> QED BY <2>1, <2>2
<1> QED BY <1>5, <1>6, <1>7

LEMMA DetectStart == DetectInit => DetectInv
BY DEF DetectInit, DetectInv, DetectTypeOK

LEMMA DetectStep == DetectInv /\ DetectNext => DetectInv' /\ StartsWhatItSaid
<1> SUFFICES ASSUME DetectInv, DetectNext PROVE DetectInv' /\ StartsWhatItSaid
  OBVIOUS
<1> USE DEF DetectInv, DetectTypeOK
<1>1. CASE Report
  <2>1. detectDevScript(tdRepo) = Nothing \/ Runnable(tdRepo, detectDevScript(tdRepo))
    BY DetectedRunnable
  <2>2. tdReport' \in Detected \cup {Nothing} /\ (tdReport' # Nothing => isValidPort(tdReport'.port))
    BY <1>1, <2>1 DEF Report, Runnable
  <2>3. tdStarted' = Nothing /\ tdStarted = Nothing /\ tdSame' = TRUE /\ tdRepo' = tdRepo
        /\ tdReport' = detectDevScript(tdRepo)
    BY <1>1 DEF Report
  <2> QED BY <2>2, <2>3 DEF StartsWhatItSaid, Ran
<1>2. CASE RepoChanges
  <2>1. tdRepo' \in RepoFiles
    BY <1>2 DEF RepoChanges, RepoFiles
  <2>2. tdStarted' = Nothing /\ tdStarted = Nothing /\ tdSame' = FALSE /\ tdReport' = tdReport
    BY <1>2 DEF RepoChanges
  <2> QED BY <2>1, <2>2 DEF StartsWhatItSaid, Ran
<1>3. ASSUME NEW script \in HintScripts \cup {Nothing}, NEW port \in {Nothing, Infinite, AskedPort},
             StartTarget(script, port)
      PROVE  DetectInv' /\ StartsWhatItSaid
  <2> DEFINE run == Run(script, port)
  <2>1. tdStarted' = run /\ UNCHANGED <<tdRepo, tdReport, tdSame>>
    BY <1>3 DEF StartTarget
  <2>2. run \in Refusal \/ StartHonest(run)
    BY RunOK
  <2>3. run \notin Refusal /\ run.plain /\ tdSame
          => tdReport # Nothing /\ run.script = tdReport.script /\ run.port = tdReport.port
    BY RunOK
  <2> HIDE DEF run
  <2>4. DetectInv'
    BY <2>1, <2>2 DEF StartHonest
  <2> QED BY <2>1, <2>3, <2>4 DEF StartsWhatItSaid, Ran
<1> QED BY <1>1, <1>2, <1>3 DEF DetectNext

LEMMA DetectStutter == DetectInv /\ UNCHANGED detectVars => DetectInv' /\ StartsWhatItSaid
BY DEF DetectInv, DetectTypeOK, detectVars, StartHonest, StartsWhatItSaid

LEMMA DetectShows == DetectInv => OnlyTheReposOwn /\ PortCanBeBound
<1> SUFFICES ASSUME DetectInv PROVE OnlyTheReposOwn /\ PortCanBeBound
  OBVIOUS
<1>1. Ran => StartHonest(tdStarted)
  BY DEF DetectInv, Ran
<1>2. OnlyTheReposOwn
  BY <1>1 DEF OnlyTheReposOwn, StartHonest, packageJsonScriptNames
<1>3. tdReport # Nothing /\ tdSame => Runnable(tdRepo, tdReport)
  BY DetectedRunnable DEF DetectInv, DetectTypeOK
<1> QED BY <1>1, <1>2, <1>3 DEF PortCanBeBound, DetectInv, StartHonest, Runnable

-----------------------------------------------------------------------------
(* Work orders that become prompts                                         *)

MgProcSet ==
  [at : {"down", "checked", "migrating", "loading", "up"}, todo : SUBSET MgOrders,
   listed : SUBSET MgOrders, entry : MgOrders \cup {NoFile},
   raw : LadderStates \cup {Unreadable, NoFile},
   skipped : SUBSET MgOrders, overlap : BOOLEAN, index : SUBSET MgOrders]

\* What a process has behind it: an order it listed is still to be read, in its hand, reported,
\* a prompt on disk, or gone.
Behind(here, prompts, orders) ==
  /\ here.at = "checked" => here.entry = NoFile
  /\ here.at = "migrating" =>
       /\ here.entry # NoFile => here.raw # NoFile /\ here.entry \notin here.todo
       /\ \A o \in here.listed : \/ o \in here.todo \/ o = here.entry \/ o \in here.skipped
                                 \/ prompts[o] # NoFile \/ orders[o] = NoFile
  /\ here.at = "loading" =>
       \A o \in here.listed : o \in here.skipped \/ prompts[o] # NoFile \/ orders[o] = NoFile
  /\ here.at = "up" =>
       \A o \in here.listed : o \in here.index \/ o \in here.skipped \/ orders[o] = NoFile

InHand(here) == here.at \in {"checked", "migrating"}

\* A process that migrates by itself has every order that is a prompt by now behind it.
Untouched(here, prompts) ==
  (InHand(here) /\ ~ here.overlap) =>
    \A o \in MgOrders : prompts[o] # NoFile => here.at = "migrating" /\ o \notin here.todo /\ o # here.entry

\* Two that migrate at the same time both overlap.
Apart == \A p, q \in MgProcs : p # q /\ InHand(mgProc[p]) /\ InHand(mgProc[q]) => mgProc[p].overlap

MigrationInv ==
  /\ MigrationTypeOK /\ Apart
  /\ \A p \in MgProcs : Behind(mgProc[p], mgPrompt, mgOrder) /\ Untouched(mgProc[p], mgPrompt)

LEMMA MigTyped ==
  MigrationTypeOK <=> /\ mgOrder \in [MgOrders -> LadderStates \cup {Unreadable, NoFile}]
                      /\ mgPrompt \in [MgOrders -> PromptOnDisk \cup {NoFile}]
                      /\ mgProc \in [MgProcs -> MgProcSet]
BY DEF MigrationTypeOK, MgProcSet

LEMMA DownOK ==
  /\ Down \in MgProcSet /\ Down.at = "down" /\ ~ InHand(Down)
  /\ \A prompts, orders : Behind(Down, prompts, orders) /\ Untouched(Down, prompts)
BY DEF Down, MgProcSet, Behind, Untouched, InHand

LEMMA MigrationStart == MigrationInit => MigrationInv
<1> SUFFICES ASSUME MigrationInit PROVE MigrationInv
  OBVIOUS
<1>1. mgOrder \in [MgOrders -> LadderStates \cup {Unreadable, NoFile}]
  BY DEF MigrationInit, StartRungs, LadderStates
<1> QED BY <1>1, MigTyped, DownOK DEF MigrationInit, MigrationInv, Apart

\* A prompt file never goes away, a work order that is gone stays gone.
LEMMA BehindKept ==
  ASSUME NEW here \in MgProcSet, NEW prompts, NEW orders, NEW prompts2, NEW orders2,
         \A o \in MgOrders : prompts[o] # NoFile => prompts2[o] # NoFile,
         \A o \in MgOrders : orders[o] = NoFile => orders2[o] = NoFile,
         Behind(here, prompts, orders)
  PROVE  Behind(here, prompts2, orders2)
BY DEF Behind, MgProcSet

\* A process goes on: what it has in hand it had in hand before, and a prompt appears only by
\* one that migrates.
LEMMA ProcMoves ==
  ASSUME MigrationInv, NEW p \in MgProcs, NEW here \in MgProcSet,
         mgProc' = [mgProc EXCEPT ![p] = here], mgOrder' = mgOrder,
         mgPrompt' \in [MgOrders -> PromptOnDisk \cup {NoFile}],
         \A o \in MgOrders : mgPrompt[o] # NoFile => mgPrompt'[o] # NoFile,
         InHand(here) => InHand(mgProc[p]) /\ here.overlap = mgProc[p].overlap,
         mgPrompt' = mgPrompt \/ InHand(mgProc[p]),
         Behind(here, mgPrompt', mgOrder'), Untouched(here, mgPrompt')
  PROVE  MigrationInv'
<1>1. /\ mgOrder \in [MgOrders -> LadderStates \cup {Unreadable, NoFile}]
      /\ mgProc \in [MgProcs -> MgProcSet] /\ Apart
      /\ \A q \in MgProcs : Behind(mgProc[q], mgPrompt, mgOrder) /\ Untouched(mgProc[q], mgPrompt)
  BY MigTyped DEF MigrationInv
<1>2. mgProc' \in [MgProcs -> MgProcSet] /\ \A q \in MgProcs : mgProc'[q] = IF q = p THEN here ELSE mgProc[q]
  BY <1>1
<1>3. \A q \in MgProcs : Behind(mgProc'[q], mgPrompt', mgOrder') /\ Untouched(mgProc'[q], mgPrompt')
  <2> TAKE q \in MgProcs
  <2>1. CASE q = p
    BY <1>2, <2>1
  <2>2. CASE q # p
    <3>1. mgProc[q] \in MgProcSet /\ Behind(mgProc[q], mgPrompt, mgOrder)
      BY <1>1
    <3>2. Behind(mgProc[q], mgPrompt', mgOrder')
      BY <3>1, BehindKept
    <3>3. Untouched(mgProc[q], mgPrompt')
      <4>1. CASE mgPrompt' = mgPrompt
        BY <1>1, <4>1
      <4>2. CASE InHand(mgProc[p])
        <5>1. InHand(mgProc[q]) => mgProc[q].overlap
          BY <1>1, <2>2, <4>2 DEF Apart
        <5> QED BY <5>1 DEF Untouched
      <4> QED BY <4>1, <4>2
    <3> QED BY <1>2, <2>2, <3>2, <3>3
  <2> QED BY <2>1, <2>2
<1>4. MigrationTypeOK'
  BY <1>1, <1>2 DEF MigrationTypeOK, MgProcSet
<1>5. Apart'
  <2> SUFFICES ASSUME NEW q \in MgProcs, NEW r \in MgProcs, q # r, InHand(mgProc'[q]), InHand(mgProc'[r])
               PROVE  mgProc'[q].overlap
    BY DEF Apart
  <2>1. mgProc'[q] = (IF q = p THEN here ELSE mgProc[q]) /\ mgProc'[r] = (IF r = p THEN here ELSE mgProc[r])
    BY <1>2
  <2>2. InHand(mgProc[q]) /\ InHand(mgProc[r]) /\ mgProc'[q].overlap = mgProc[q].overlap
    BY <2>1
  <2> QED BY <1>1, <2>2 DEF Apart
<1> QED BY <1>3, <1>4, <1>5 DEF MigrationInv

\* One that finds no prompt begins, and overlaps with every other that has begun.
LEMMA CheckOK == ASSUME MigrationInv, NEW p \in MgProcs, migrateIfNeeded(p) PROVE MigrationInv'
<1>1. /\ mgOrder \in [MgOrders -> LadderStates \cup {Unreadable, NoFile}]
      /\ mgPrompt \in [MgOrders -> PromptOnDisk \cup {NoFile}]
      /\ mgProc \in [MgProcs -> MgProcSet] /\ Apart
      /\ \A q \in MgProcs : Behind(mgProc[q], mgPrompt, mgOrder) /\ Untouched(mgProc[q], mgPrompt)
  BY MigTyped DEF MigrationInv
<1>2. mgProc[p].at = "down" /\ UNCHANGED <<mgOrder, mgPrompt>>
  BY DEF migrateIfNeeded
<1>3. CASE hasAnyPromptFile
  <2> DEFINE here == [Down EXCEPT !.at = "loading"]
  <2>1. mgProc' = [mgProc EXCEPT ![p] = here]
    BY <1>3 DEF migrateIfNeeded
  <2>2. here \in MgProcSet /\ ~ InHand(here) /\ Behind(here, mgPrompt, mgOrder) /\ Untouched(here, mgPrompt)
    BY DEF Down, MgProcSet, Behind, InHand, Untouched
  <2> HIDE DEF here
  <2> QED BY <1>1, <1>2, <2>1, <2>2, ProcMoves
<1>4. CASE ~ hasAnyPromptFile
  <2> DEFINE others == {q \in MgProcs : q # p /\ Migrating(q)}
             begun == [Down EXCEPT !.at = "checked", !.overlap = others # {}]
             Now(q) == IF q = p THEN begun
                       ELSE IF q \in others THEN [mgProc[q] EXCEPT !.overlap = TRUE] ELSE mgProc[q]
  <2>1. mgProc' = [q \in MgProcs |-> Now(q)]
    BY <1>4 DEF migrateIfNeeded
  <2>2. \A q \in MgProcs : q \in others <=> q # p /\ InHand(mgProc[q])
    BY DEF Migrating, InHand
  <2>3. /\ begun \in MgProcSet /\ begun.at = "checked" /\ (begun.overlap <=> others # {})
        /\ Behind(begun, mgPrompt, mgOrder)
    BY DEF Down, MgProcSet, Behind
  <2>4. \A o \in MgOrders : mgPrompt[o] = NoFile
    BY <1>4 DEF hasAnyPromptFile, PromptFiles
  <2> HIDE DEF others, begun
  <2>5. ASSUME NEW q \in MgProcs
        PROVE  /\ Now(q) \in MgProcSet /\ Behind(Now(q), mgPrompt, mgOrder) /\ Untouched(Now(q), mgPrompt)
               /\ InHand(Now(q)) <=> q = p \/ q \in others
               /\ q # p /\ q \in others => Now(q).overlap
    <3>1. CASE q = p
      <4>1. Now(q) = begun
        BY <3>1
      <4>2. Untouched(begun, mgPrompt) /\ InHand(begun)
        BY <2>3, <2>4 DEF Untouched, InHand
      <4> QED BY <2>3, <3>1, <4>1, <4>2
    <3>2. CASE q # p /\ q \in others
      <4> DEFINE old == mgProc[q]
      <4>1. old \in MgProcSet /\ Behind(old, mgPrompt, mgOrder) /\ InHand(old)
        BY <1>1, <2>2, <3>2
      <4>2. Now(q) = [old EXCEPT !.overlap = TRUE]
        BY <3>2
      <4> HIDE DEF old, Now
      <4>3. Now(q) \in MgProcSet /\ Now(q).overlap = TRUE /\ InHand(Now(q))
        BY <4>1, <4>2 DEF MgProcSet, InHand
      <4>4. Behind(Now(q), mgPrompt, mgOrder) /\ Untouched(Now(q), mgPrompt)
        BY <4>1, <4>2, <4>3 DEF MgProcSet, Behind, Untouched
      <4> QED BY <3>2, <4>3, <4>4
    <3>3. CASE q # p /\ q \notin others
      <4>1. Now(q) = mgProc[q] /\ ~ InHand(mgProc[q])
        BY <2>2, <3>3
      <4> QED BY <1>1, <3>3, <4>1
    <3> QED BY <3>1, <3>2, <3>3
  <2>6. mgProc' \in [MgProcs -> MgProcSet] /\ \A q \in MgProcs : mgProc'[q] = Now(q)
    BY <2>1, <2>5
  <2>7. MigrationTypeOK'
    BY <1>1, <1>2, <2>6 DEF MigrationTypeOK, MgProcSet
  <2>8. Apart'
    <3> SUFFICES ASSUME NEW q \in MgProcs, NEW r \in MgProcs, q # r, InHand(mgProc'[q]), InHand(mgProc'[r])
                 PROVE  mgProc'[q].overlap
      BY DEF Apart
    <3>1. (q = p \/ q \in others) /\ (r = p \/ r \in others)
      BY <2>5, <2>6
    <3>2. CASE q = p
      <4>1. others # {}
        BY <3>1, <3>2
      <4>2. Now(q) = begun
        BY <3>2
      <4> QED BY <2>3, <2>6, <4>1, <4>2
    <3>3. CASE q # p
      BY <2>5, <2>6, <3>1, <3>3
    <3> QED BY <3>2, <3>3
  <2>9. \A q \in MgProcs : Behind(mgProc'[q], mgPrompt', mgOrder') /\ Untouched(mgProc'[q], mgPrompt')
    <3> HIDE DEF Now
    <3> QED BY <1>2, <2>5, <2>6
  <2> QED BY <2>7, <2>8, <2>9 DEF MigrationInv
<1> QED BY <1>3, <1>4

LEMMA MigratedOK ==
  ASSUME NEW rung \in LadderStates
  PROVE  /\ migrateWorkOrder(rung) \in PromptOnDisk /\ migrateWorkOrder(rung) # NoFile
         /\ migrateWorkOrder(rung).edited = FALSE
<1>1. migrateWorkOrder(rung) \in PromptOnDisk /\ migrateWorkOrder(rung).edited = FALSE
  BY DEF migrateWorkOrder, PromptOnDisk, LadderStates
<1> QED BY <1>1, MgNoFile

LEMMA MigrationStep == MigrationInv /\ MigrationNext => MigrationInv' /\ EditsOutliveMigration
<1> SUFFICES ASSUME MigrationInv, MigrationNext PROVE MigrationInv' /\ EditsOutliveMigration
  OBVIOUS
<1>t. /\ mgOrder \in [MgOrders -> LadderStates \cup {Unreadable, NoFile}]
      /\ mgPrompt \in [MgOrders -> PromptOnDisk \cup {NoFile}]
      /\ mgProc \in [MgProcs -> MgProcSet]
      /\ \A q \in MgProcs : /\ mgProc[q] \in MgProcSet /\ Behind(mgProc[q], mgPrompt, mgOrder)
                            /\ Untouched(mgProc[q], mgPrompt)
      /\ Apart
  BY MigTyped DEF MigrationInv
<1>u. ASSUME mgPrompt' = mgPrompt PROVE EditsOutliveMigration
  BY <1>u DEF EditsOutliveMigration
<1>1. ASSUME NEW p \in MgProcs, migrateIfNeeded(p) PROVE MigrationInv' /\ EditsOutliveMigration
  BY <1>1, <1>u, CheckOK DEF migrateIfNeeded
<1>0. ASSUME NEW p \in MgProcs, ListOrders(p) PROVE MigrationInv' /\ EditsOutliveMigration
  <2> DEFINE old == mgProc[p]
             here == [old EXCEPT !.at = "migrating", !.todo = OrderFiles, !.listed = OrderFiles]
  <2>1. /\ old.at = "checked" /\ UNCHANGED <<mgOrder, mgPrompt>> /\ mgProc' = [mgProc EXCEPT ![p] = here]
        /\ old \in MgProcSet /\ Untouched(old, mgPrompt) /\ OrderFiles \subseteq MgOrders
    BY <1>0, <1>t DEF ListOrders, OrderFiles
  <2> HIDE DEF old
  <2>2. /\ here \in MgProcSet /\ here.at = "migrating" /\ here.overlap = old.overlap
        /\ here.todo = OrderFiles /\ here.listed = OrderFiles /\ here.entry = old.entry
    BY <2>1 DEF MgProcSet
  <2> HIDE DEF here
  <2>3. old.entry = NoFile
    BY <1>0, <1>t DEF ListOrders, Behind, old
  <2>4. Behind(here, mgPrompt, mgOrder)
    BY <2>2, <2>3 DEF Behind
  <2>5. Untouched(here, mgPrompt) /\ InHand(old)
    BY <2>1, <2>2 DEF Untouched, InHand
  <2> QED BY <1>t, <1>u, <2>1, <2>2, <2>4, <2>5, ProcMoves DEF old
<1>2. ASSUME NEW p \in MgProcs, NEW o \in MgOrders, ReadEntry(p, o)
      PROVE  MigrationInv' /\ EditsOutliveMigration
  <2>0. /\ mgProc[p].at = "migrating" /\ mgProc[p].entry = NoFile /\ o \in mgProc[p].todo
        /\ UNCHANGED <<mgOrder, mgPrompt>>
        /\ mgProc[p] \in MgProcSet /\ Behind(mgProc[p], mgPrompt, mgOrder) /\ Untouched(mgProc[p], mgPrompt)
        /\ mgOrder[o] \in LadderStates \cup {Unreadable, NoFile}
    BY <1>2, <1>t DEF ReadEntry
  <2> DEFINE old == mgProc[p]
  <2>1. PICK here : /\ mgProc' = [mgProc EXCEPT ![p] = here]
                    /\ \/ mgOrder[o] # NoFile /\ here = [old EXCEPT !.entry = o, !.raw = mgOrder[o], !.todo = @ \ {o}]
                       \/ mgOrder[o] = NoFile /\ here = [old EXCEPT !.todo = @ \ {o}]
                       \/ here = [old EXCEPT !.todo = @ \ {o}, !.skipped = @ \cup {o}]
    <3>1. CASE mgOrder[o] # NoFile /\ mgProc' = [mgProc EXCEPT ![p].entry = o, ![p].raw = mgOrder[o], ![p].todo = @ \ {o}]
      <4> WITNESS [old EXCEPT !.entry = o, !.raw = mgOrder[o], !.todo = @ \ {o}]
      <4> QED BY <1>t, <2>0, <3>1
    <3>2. CASE mgOrder[o] = NoFile /\ mgProc' = [mgProc EXCEPT ![p].todo = @ \ {o}]
      BY <3>2
    <3>3. CASE mgProc' = [mgProc EXCEPT ![p].todo = @ \ {o}, ![p].skipped = @ \cup {o}]
      <4> WITNESS [old EXCEPT !.todo = @ \ {o}, !.skipped = @ \cup {o}]
      <4> QED BY <1>t, <2>0, <3>3
    <3> QED BY <1>2, <3>1, <3>2, <3>3 DEF ReadEntry
  <2>2. /\ here \in MgProcSet /\ here.todo = old.todo \ {o}
        /\ here.at = old.at /\ here.overlap = old.overlap /\ here.listed = old.listed
        /\ \/ here.entry = o /\ here.raw = mgOrder[o] /\ mgOrder[o] # NoFile /\ here.skipped = old.skipped
           \/ here.entry = old.entry /\ here.skipped = old.skipped /\ mgOrder[o] = NoFile
           \/ here.entry = old.entry /\ here.skipped = old.skipped \cup {o}
    <3> DEFINE raw == mgOrder[o]
    <3>1. old \in MgProcSet /\ raw \in LadderStates \cup {Unreadable, NoFile}
      BY <2>0
    <3>2. \/ raw # NoFile /\ here = [old EXCEPT !.entry = o, !.raw = raw, !.todo = @ \ {o}]
          \/ raw = NoFile /\ here = [old EXCEPT !.todo = @ \ {o}]
          \/ here = [old EXCEPT !.todo = @ \ {o}, !.skipped = @ \cup {o}]
      BY <2>1
    <3> HIDE DEF old, raw
    <3>3. /\ here \in MgProcSet /\ here.todo = old.todo \ {o}
          /\ here.at = old.at /\ here.overlap = old.overlap /\ here.listed = old.listed
          /\ \/ here.entry = o /\ here.raw = raw /\ raw # NoFile /\ here.skipped = old.skipped
             \/ here.entry = old.entry /\ here.skipped = old.skipped /\ raw = NoFile
             \/ here.entry = old.entry /\ here.skipped = old.skipped \cup {o}
      <4>1. CASE raw # NoFile /\ here = [old EXCEPT !.entry = o, !.raw = raw, !.todo = @ \ {o}]
        BY <3>1, <4>1 DEF MgProcSet
      <4>2. CASE raw = NoFile /\ here = [old EXCEPT !.todo = @ \ {o}]
        BY <3>1, <4>2 DEF MgProcSet
      <4>3. CASE here = [old EXCEPT !.todo = @ \ {o}, !.skipped = @ \cup {o}]
        BY <3>1, <4>3 DEF MgProcSet
      <4> QED BY <3>2, <4>1, <4>2, <4>3
    <3> QED BY <3>3 DEF raw
  <2>3. Behind(here, mgPrompt, mgOrder)
    <3>1. here.at = "migrating" /\ here.listed = old.listed
      BY <2>0, <2>2
    <3>2. here.entry # NoFile => here.raw # NoFile /\ here.entry \notin here.todo
      BY <2>0, <2>2
    <3>3. \A q \in old.listed : \/ q \in here.todo \/ q = here.entry \/ q \in here.skipped
                                 \/ mgPrompt[q] # NoFile \/ mgOrder[q] = NoFile
      <4> TAKE q \in old.listed
      <4>1. q \in MgOrders /\ (q \in old.todo \/ q \in old.skipped \/ mgPrompt[q] # NoFile \/ mgOrder[q] = NoFile)
        BY <2>0, MgNoFile DEF Behind, MgProcSet
      <4> QED BY <2>2, <4>1
    <3> QED BY <3>1, <3>2, <3>3 DEF Behind
  <2>4. Untouched(here, mgPrompt) /\ InHand(old) /\ here.overlap = old.overlap
    BY <2>0, <2>2 DEF Untouched, InHand
  <2> QED BY <1>t, <1>u, <2>0, <2>1, <2>2, <2>3, <2>4, ProcMoves
<1>3. ASSUME NEW p \in MgProcs, WriteEntry(p) PROVE MigrationInv' /\ EditsOutliveMigration
  <2> DEFINE old == mgProc[p]
  <2>0. /\ old.at = "migrating" /\ old.entry # NoFile /\ mgOrder' = mgOrder
        /\ old \in MgProcSet /\ Behind(old, mgPrompt, mgOrder) /\ Untouched(old, mgPrompt)
    BY <1>3, <1>t DEF WriteEntry
  <2>a. /\ old.entry \in MgOrders /\ old.raw # NoFile /\ old.raw \in LadderStates \cup {Unreadable}
        /\ old.entry \notin old.todo
    BY <2>0 DEF Behind, MgProcSet
  <2>1. CASE /\ old.raw # Unreadable
             /\ mgPrompt' = [mgPrompt EXCEPT ![old.entry] = migrateWorkOrder(old.raw)]
             /\ mgProc' = [mgProc EXCEPT ![p].entry = NoFile, ![p].raw = NoFile]
    <3> DEFINE here == [old EXCEPT !.entry = NoFile, !.raw = NoFile]
               made == migrateWorkOrder(old.raw)
    <3>1. mgProc' = [mgProc EXCEPT ![p] = here] /\ here \in MgProcSet
      BY <1>t, <2>0, <2>1 DEF MgProcSet
    <3>2. made \in PromptOnDisk /\ made # NoFile
      BY <2>1, <2>a, MigratedOK
    <3> HIDE DEF made
    <3>3. /\ mgPrompt' \in [MgOrders -> PromptOnDisk \cup {NoFile}]
          /\ \A o \in MgOrders : mgPrompt'[o] = IF o = old.entry THEN made ELSE mgPrompt[o]
      BY <1>t, <2>1, <2>a, <3>2 DEF made
    <3>4. Behind(here, mgPrompt', mgOrder')
      BY <2>0, <2>a, <3>2, <3>3 DEF Behind, MgProcSet
    <3>5. EditsOutliveMigration
      <4> SUFFICES ASSUME NEW o \in MgOrders, mgPrompt[o] # NoFile, mgPrompt[o].edited, ~mgPrompt'[o].edited
                   PROVE  old.entry = o /\ old.overlap
        BY DEF EditsOutliveMigration
      <4>1. o = old.entry
        BY <3>3
      <4>2. InHand(old)
        BY <2>0 DEF InHand
      <4> QED BY <2>0, <4>1, <4>2 DEF Untouched
    <3>6. /\ here.at = "migrating" /\ here.overlap = old.overlap /\ here.todo = old.todo
          /\ here.entry = NoFile
      BY <2>0 DEF MgProcSet
    <3> HIDE DEF here
    <3>7. Untouched(here, mgPrompt') /\ InHand(old)
      BY <2>0, <2>a, <3>2, <3>3, <3>6, MgNoFile DEF Untouched, InHand
    <3> QED BY <2>0, <3>1, <3>2, <3>3, <3>4, <3>5, <3>6, <3>7, ProcMoves
  <2>2. CASE mgProc' = [mgProc EXCEPT ![p] = recordMigrationSkip(old)] /\ UNCHANGED mgPrompt
    <3> DEFINE here == recordMigrationSkip(old)
    <3>1. here \in MgProcSet
      BY <2>0, <2>a DEF MgProcSet, recordMigrationSkip
    <3>2. Behind(here, mgPrompt, mgOrder)
      BY <2>0, <2>a DEF Behind, MgProcSet, recordMigrationSkip
    <3>3. /\ here.at = "migrating" /\ here.overlap = old.overlap /\ here.todo = old.todo
          /\ here.entry = NoFile
      BY <2>0 DEF MgProcSet, recordMigrationSkip
    <3>4. mgProc' = [mgProc EXCEPT ![p] = here]
      BY <2>2
    <3> HIDE DEF here
    <3>5. Untouched(here, mgPrompt) /\ InHand(old)
      BY <2>0, <2>a, <3>3, MgNoFile DEF Untouched, InHand
    <3> QED BY <1>t, <1>u, <2>0, <2>2, <3>1, <3>2, <3>3, <3>4, <3>5, ProcMoves
  <2> QED BY <1>3, <2>1, <2>2 DEF WriteEntry
<1>4. ASSUME NEW p \in MgProcs, MigrationDone(p) PROVE MigrationInv' /\ EditsOutliveMigration
  <2> DEFINE old == mgProc[p]
             here == [old EXCEPT !.at = "loading"]
  <2>1. /\ old.at = "migrating" /\ old.entry = NoFile /\ old.todo = {} /\ UNCHANGED <<mgOrder, mgPrompt>>
        /\ old \in MgProcSet /\ Behind(old, mgPrompt, mgOrder) /\ mgProc' = [mgProc EXCEPT ![p] = here]
    BY <1>4, <1>t DEF MigrationDone
  <2>2. here \in MgProcSet
    BY <2>1 DEF MgProcSet
  <2>3. Behind(here, mgPrompt, mgOrder)
    BY <2>1, MgNoFile DEF Behind, MgProcSet
  <2>4. ~ InHand(here)
    BY <2>1 DEF MgProcSet, InHand
  <2> HIDE DEF here
  <2>5. Untouched(here, mgPrompt)
    BY <2>4 DEF Untouched
  <2> QED BY <1>t, <1>u, <2>1, <2>2, <2>3, <2>4, <2>5, ProcMoves
<1>5. ASSUME NEW p \in MgProcs, loadAll(p) PROVE MigrationInv' /\ EditsOutliveMigration
  <2> DEFINE old == mgProc[p]
             here == [old EXCEPT !.at = "up", !.index = PromptFiles]
  <2>1. /\ old.at = "loading" /\ UNCHANGED <<mgOrder, mgPrompt>>
        /\ old \in MgProcSet /\ Behind(old, mgPrompt, mgOrder) /\ mgProc' = [mgProc EXCEPT ![p] = here]
    BY <1>5, <1>t DEF loadAll
  <2>2. here \in MgProcSet
    BY <2>1 DEF MgProcSet, PromptFiles
  <2>3. Behind(here, mgPrompt, mgOrder)
    BY <2>1 DEF Behind, MgProcSet, PromptFiles
  <2>4. ~ InHand(here)
    BY <2>1 DEF MgProcSet, InHand
  <2> HIDE DEF here
  <2>5. Untouched(here, mgPrompt)
    BY <2>4 DEF Untouched
  <2> QED BY <1>t, <1>u, <2>1, <2>2, <2>3, <2>4, <2>5, ProcMoves
<1>6. ASSUME NEW p \in MgProcs, Stopped(p) PROVE MigrationInv' /\ EditsOutliveMigration
  BY <1>6, <1>t, <1>u, DownOK, ProcMoves DEF Stopped
<1>7. ASSUME NEW p \in MgProcs, NEW o \in MgOrders, EditPrompt(p, o)
      PROVE  MigrationInv' /\ EditsOutliveMigration
  <2> DEFINE made == [state |-> "draft", edited |-> TRUE]
  <2>1. made \in PromptOnDisk /\ made # NoFile /\ made.edited = TRUE
    <3>1. made \in PromptOnDisk /\ made.edited = TRUE
      BY DEF PromptOnDisk
    <3> QED BY <3>1, MgNoFile
  <2>2. mgPrompt' = [mgPrompt EXCEPT ![o] = made] /\ UNCHANGED <<mgOrder, mgProc>>
    BY <1>7 DEF EditPrompt
  <2> HIDE DEF made
  <2>3. /\ mgPrompt' \in [MgOrders -> PromptOnDisk \cup {NoFile}]
        /\ \A q \in MgOrders : mgPrompt'[q] = IF q = o THEN made ELSE mgPrompt[q]
    BY <1>t, <2>1, <2>2
  <2>4. \A q \in MgProcs : Behind(mgProc[q], mgPrompt', mgOrder')
    BY <1>t, <2>1, <2>2, <2>3, BehindKept
  <2>5. MigrationTypeOK'
    BY <1>t, <2>2, <2>3 DEF MigrationTypeOK, MgProcSet
  <2>6. EditsOutliveMigration
    BY <2>1, <2>3 DEF EditsOutliveMigration
  <2>7. \A q \in MgProcs : Untouched(mgProc[q], mgPrompt')
    <3>1. \A q \in MgOrders : mgPrompt'[q] # NoFile => mgPrompt[q] # NoFile
      BY <1>7, <2>3 DEF EditPrompt
    <3> QED BY <1>t, <3>1 DEF Untouched
  <2>8. Apart'
    BY <1>t, <2>2 DEF Apart
  <2> QED BY <2>2, <2>4, <2>5, <2>6, <2>7, <2>8 DEF MigrationInv
<1>8. ASSUME NEW o \in MgOrders, OrderGone(o) PROVE MigrationInv' /\ EditsOutliveMigration
  <2>1. mgOrder' = [mgOrder EXCEPT ![o] = NoFile] /\ UNCHANGED <<mgPrompt, mgProc>>
    BY <1>8 DEF OrderGone
  <2>2. /\ mgOrder' \in [MgOrders -> LadderStates \cup {Unreadable, NoFile}]
        /\ \A q \in MgOrders : mgOrder[q] = NoFile => mgOrder'[q] = NoFile
    BY <1>t, <2>1
  <2>3. \A q \in MgProcs : Behind(mgProc[q], mgPrompt', mgOrder')
    BY <1>t, <2>1, <2>2, BehindKept
  <2>4. MigrationTypeOK'
    BY <1>t, <2>1, <2>2 DEF MigrationTypeOK, MgProcSet
  <2>5. Apart' /\ \A q \in MgProcs : Untouched(mgProc'[q], mgPrompt')
    BY <1>t, <2>1 DEF Apart
  <2> QED BY <1>u, <2>1, <2>3, <2>4, <2>5 DEF MigrationInv
<1> QED BY <1>0, <1>1, <1>2, <1>3, <1>4, <1>5, <1>6, <1>7, <1>8 DEF MigrationNext

LEMMA MigrationStutter == MigrationInv /\ UNCHANGED migrationVars => MigrationInv' /\ EditsOutliveMigration
BY DEF MigrationInv, migrationVars, MigrationTypeOK, EditsOutliveMigration, Apart

LEMMA MigrationShows == MigrationInv => AccountedFor
BY DEF MigrationInv, AccountedFor, Behind, MigrationTypeOK

-----------------------------------------------------------------------------
(* Snapshots at a release                                                  *)

\* An order that is listened for, saved for or saved was asked for, once; its picture is still
\* to come, on its way, or saved.
PictureOnce ==
  \A o \in RsOrders :
    /\ rsAsks.left[o] = IF o \in rsCaptured THEN 1 ELSE 0
    /\ o \notin rsCaptured => rsEar # o
    /\ o \notin rsCaptured \/ rsEar = o => rsSaved[o] = NoHtml /\ \A h \in Html : <<o, h>> \notin rsSaving
    /\ \A h, k \in Html : <<o, h>> \in rsSaving /\ <<o, k>> \in rsSaving => h = k
    /\ \A h \in Html : <<o, h>> \in rsSaving => rsSaved[o] = NoHtml

\* What the loupe copied holds nothing that acts; what does came from the app's own page.
LoupeIsClean ==
  /\ \A h \in rsReplies : h.holds # {} => h.to = NoOrder
  /\ \A o \in RsOrders, h \in Html : <<o, h>> \in rsSaving /\ h.holds # {} => h.to = NoOrder

SnapshotInv == SnapshotTypeOK /\ PictureOnce /\ LoupeIsClean /\ SnapshotCleaned

LEMMA SnapshotStart == SnapshotInit => SnapshotInv
<1> SUFFICES ASSUME SnapshotInit PROVE SnapshotInv
  OBVIOUS
<1>1. SnapshotTypeOK
  BY DEF SnapshotInit, SnapshotTypeOK, Rungs0
<1>2. PictureOnce /\ LoupeIsClean /\ SnapshotCleaned
  BY NobodyListens DEF SnapshotInit, PictureOnce, LoupeIsClean, SnapshotCleaned, NoHtml
<1> QED BY <1>1, <1>2 DEF SnapshotInv

\* What a render does to the ear and the asks.
LEMMA EffectOK ==
  ASSUME SnapshotInv, NEW rung, NEW plate, Effect(rung, plate), UNCHANGED <<rsReplies, rsSaving, rsSaved>>
  PROVE  /\ rsCaptured' \subseteq RsOrders /\ rsEar' \in RsOrders \cup {NoOrder}
         /\ rsAsks' \in [open : SUBSET RsOrders, left : [RsOrders -> Nat]]
         /\ PictureOnce' /\ LoupeIsClean' /\ SnapshotCleaned'
<1> DEFINE due == {o \in RsOrders : rung[o] \in SNAPSHOTTABLE_STATES} \ rsCaptured
<1>t. /\ rsCaptured \subseteq RsOrders /\ rsAsks \in [open : SUBSET RsOrders, left : [RsOrders -> Nat]]
      /\ PictureOnce
  BY DEF SnapshotInv, SnapshotTypeOK
<1>i. LoupeIsClean' /\ SnapshotCleaned'
  BY DEF SnapshotInv, LoupeIsClean, SnapshotCleaned
<1>1. CASE rsEar' = NoOrder /\ UNCHANGED <<rsCaptured, rsAsks>>
  BY <1>1, <1>t, <1>i, NobodyListens DEF PictureOnce
<1>2. ASSUME NEW o \in due, rsEar' = o, rsCaptured' = Claimed(o),
             rsAsks' = [rsAsks EXCEPT !.open = @ \cup {o}, !.left[o] = @ + 1]
      PROVE  /\ rsCaptured' \subseteq RsOrders /\ rsEar' \in RsOrders \cup {NoOrder}
             /\ rsAsks' \in [open : SUBSET RsOrders, left : [RsOrders -> Nat]]
             /\ PictureOnce' /\ LoupeIsClean' /\ SnapshotCleaned'
  <2>1. o \in RsOrders /\ o \notin rsCaptured
    OBVIOUS
  <2> HIDE DEF due
  <2>2. rsCaptured' = rsCaptured \cup {o}
    BY <1>2 DEF Claimed
  <2>3. /\ rsAsks'.left = [rsAsks.left EXCEPT ![o] = @ + 1]
        /\ rsAsks' \in [open : SUBSET RsOrders, left : [RsOrders -> Nat]]
    <3>1. rsAsks.open \subseteq RsOrders /\ rsAsks.left \in [RsOrders -> Nat]
      BY <1>t
    <3>2. rsAsks' = [open |-> rsAsks.open \cup {o}, left |-> [rsAsks.left EXCEPT ![o] = @ + 1]]
      BY <1>2, <1>t, <2>1
    <3>3. [rsAsks.left EXCEPT ![o] = @ + 1] \in [RsOrders -> Nat]
      BY <2>1, <3>1
    <3> QED BY <2>1, <3>1, <3>2, <3>3
  <2>4. PictureOnce'
    <3> SUFFICES ASSUME NEW q \in RsOrders
                 PROVE  /\ rsAsks'.left[q] = IF q \in rsCaptured' THEN 1 ELSE 0
                        /\ q \notin rsCaptured' => rsEar' # q
                        /\ q \notin rsCaptured' \/ rsEar' = q
                             => rsSaved[q] = NoHtml /\ \A h \in Html : <<q, h>> \notin rsSaving
                        /\ \A h, k \in Html : <<q, h>> \in rsSaving /\ <<q, k>> \in rsSaving => h = k
                        /\ \A h \in Html : <<q, h>> \in rsSaving => rsSaved[q] = NoHtml
      BY DEF PictureOnce
    <3>1. rsAsks'.left[q] = IF q = o THEN rsAsks.left[q] + 1 ELSE rsAsks.left[q]
      BY <1>t, <2>1, <2>3
    <3> QED BY <1>t, <1>2, <2>1, <2>2, <3>1 DEF PictureOnce
  <2> QED BY <1>i, <1>t, <1>2, <2>1, <2>2, <2>3, <2>4
<1> QED BY <1>1, <1>2 DEF Effect

LEMMA SnapshotStep == SnapshotInv /\ SnapshotNext => SnapshotInv'
<1> SUFFICES ASSUME SnapshotInv, SnapshotNext PROVE SnapshotInv'
  OBVIOUS
<1>t. SnapshotTypeOK /\ PictureOnce /\ LoupeIsClean /\ SnapshotCleaned
  BY DEF SnapshotInv
<1>1. ASSUME NEW o \in RsOrders, OrderMoves(o) PROVE SnapshotInv'
  <2>1. PICK n \in 1 .. 3 :
          /\ rsRung' = [rsRung EXCEPT ![o] = Rungs0[n + 1]]
          /\ Effect(rsRung', rsPlate)
          /\ UNCHANGED <<rsApp, rsPlate, rsReplies, rsSaving, rsSaved>>
    BY <1>1 DEF OrderMoves
  <2>2. rsRung' \in [RsOrders -> {Rungs0[k] : k \in 1 .. 4}]
    BY <1>t, <2>1 DEF SnapshotTypeOK
  <2> QED BY <1>t, <2>1, <2>2, EffectOK DEF SnapshotInv, SnapshotTypeOK
<1>2. CASE Rerendered
  BY <1>2, <1>t, EffectOK DEF Rerendered, SnapshotInv, SnapshotTypeOK
<1>3. CASE PlateThere
  BY <1>3, <1>t, EffectOK DEF PlateThere, SnapshotInv, SnapshotTypeOK
<1>4. ASSUME NEW o \in RsOrders, captureSnapshot(o) \/ AskLost(o) PROVE SnapshotInv'
  <2>1. /\ rsAsks' = [rsAsks EXCEPT !.open = @ \ {o}]
        /\ UNCHANGED <<rsRung, rsApp, rsPlate, rsCaptured, rsEar, rsSaving, rsSaved>>
    BY <1>4 DEF captureSnapshot, AskLost
  <2>2. rsAsks' \in [open : SUBSET RsOrders, left : [RsOrders -> Nat]] /\ rsAsks'.left = rsAsks.left
    <3>1. rsAsks' = [open |-> rsAsks.open \ {o}, left |-> rsAsks.left]
      BY <1>t, <2>1 DEF SnapshotTypeOK
    <3> QED BY <1>t, <3>1 DEF SnapshotTypeOK
  <2>3. rsReplies' \subseteq Html /\ \A h \in rsReplies' : h.holds # {} => h.to = NoOrder
    <3>1. CASE AskLost(o)
      BY <1>t, <3>1 DEF AskLost, SnapshotTypeOK, LoupeIsClean
    <3>2. CASE captureSnapshot(o)
      <4>1. PICK holds \in SUBSET Active :
              rsReplies' = rsReplies \cup {sanitizeSnapshotClone([to |-> o, of |-> rsApp, holds |-> holds])}
        BY <3>2 DEF captureSnapshot
      <4>2. sanitizeSnapshotClone([to |-> o, of |-> rsApp, holds |-> holds]) = [to |-> o, of |-> rsApp, holds |-> {}]
        BY DEF sanitizeSnapshotClone
      <4>3. [to |-> o, of |-> rsApp, holds |-> {}] \in Html
        BY <1>t DEF SnapshotTypeOK, Html
      <4> QED BY <1>t, <4>1, <4>2, <4>3 DEF SnapshotTypeOK, LoupeIsClean
    <3> QED BY <1>4, <3>1, <3>2
  <2> QED BY <1>t, <2>1, <2>2, <2>3 DEF SnapshotInv, SnapshotTypeOK, PictureOnce, LoupeIsClean, SnapshotCleaned
<1>5. CASE AppReplies
  <2>1. rsReplies' \subseteq Html /\ \A h \in rsReplies' : h.holds # {} => h.to = NoOrder
    <3>1. PICK holds \in SUBSET Active :
            rsReplies' = rsReplies \cup {[to |-> NoOrder, of |-> rsApp, holds |-> holds]}
      BY <1>5 DEF AppReplies
    <3>2. [to |-> NoOrder, of |-> rsApp, holds |-> holds] \in Html
      BY <1>t DEF SnapshotTypeOK, Html
    <3> QED BY <1>t, <3>1, <3>2 DEF SnapshotTypeOK, LoupeIsClean
  <2> QED BY <1>5, <1>t, <2>1 DEF AppReplies, SnapshotInv, SnapshotTypeOK, PictureOnce, LoupeIsClean, SnapshotCleaned
<1>6. ASSUME NEW html \in rsReplies, OnSnapshotted(html) PROVE SnapshotInv'
  <2>1. html \in Html /\ (html.holds # {} => html.to = NoOrder)
        /\ rsReplies' \subseteq Html /\ \A h \in rsReplies' : h.holds # {} => h.to = NoOrder
    BY <1>6, <1>t DEF OnSnapshotted, SnapshotTypeOK, LoupeIsClean
  <2>2. rsEar' = NoOrder /\ UNCHANGED <<rsRung, rsApp, rsPlate, rsCaptured, rsAsks, rsSaved>>
    BY <1>6 DEF OnSnapshotted
  <2>3. CASE rsEar = NoOrder
    <3>1. rsSaving' = rsSaving
      BY <1>6, <2>3 DEF OnSnapshotted
    <3> QED BY <1>t, <2>1, <2>2, <3>1, NobodyListens
            DEF SnapshotInv, SnapshotTypeOK, PictureOnce, LoupeIsClean, SnapshotCleaned
  <2>4. CASE rsEar # NoOrder
    <3>1. rsSaving' = rsSaving \cup {<<rsEar, html>>} /\ rsEar \in RsOrders /\ rsEar \in rsCaptured
      BY <1>6, <1>t, <2>4 DEF OnSnapshotted, SnapshotTypeOK, PictureOnce
    <3>2. SnapshotTypeOK'
      BY <1>t, <2>1, <2>2, <3>1 DEF SnapshotTypeOK
    <3>3. \A o \in RsOrders, h \in Html :
            <<o, h>> \in rsSaving' <=> <<o, h>> \in rsSaving \/ (o = rsEar /\ h = html)
      BY <3>1
    <3>4. PictureOnce'
      BY <1>t, <2>2, <3>1, <3>3, NobodyListens DEF PictureOnce
    <3>5. LoupeIsClean' /\ SnapshotCleaned'
      BY <1>t, <2>1, <2>2, <3>3 DEF LoupeIsClean, SnapshotCleaned
    <3> QED BY <3>2, <3>4, <3>5 DEF SnapshotInv
  <2> QED BY <2>3, <2>4
<1>7. ASSUME NEW asked \in rsSaving, SaveSnapshot(asked[1], asked[2]) PROVE SnapshotInv'
  <2>1. PICK o \in RsOrders, html \in Html : asked = <<o, html>>
    BY <1>t DEF SnapshotTypeOK
  <2> DEFINE kept == sanitizeSnapshotHtml(html)
  <2>2. kept \in Html /\ kept.holds = html.holds \ {"plain"} /\ kept.to = html.to /\ kept # NoHtml
    <3>1. html.of \in {"before", "after"}
          /\ kept = [to |-> html.to, of |-> html.of, holds |-> html.holds \ {"plain"}]
      BY DEF sanitizeSnapshotHtml, Html
    <3>2. kept.of # NoHtml.of
      BY <3>1 DEF NoHtml
    <3> QED BY <3>1, <3>2 DEF Html
  <2>3. /\ <<o, html>> \in rsSaving /\ rsSaving' = rsSaving \ {<<o, html>>}
        /\ rsSaved' = [rsSaved EXCEPT ![o] = kept]
        /\ UNCHANGED <<rsRung, rsApp, rsPlate, rsCaptured, rsEar, rsAsks, rsReplies>>
    BY <1>7, <2>1 DEF SaveSnapshot, Saved
  <2> HIDE DEF kept
  <2>4. SnapshotTypeOK'
    BY <1>t, <2>2, <2>3 DEF SnapshotTypeOK
  <2>5. \A q \in RsOrders : rsSaved'[q] = IF q = o THEN kept ELSE rsSaved[q]
    BY <1>t, <2>3 DEF SnapshotTypeOK
  <2>6. \A q \in RsOrders, h \in Html :
          <<q, h>> \in rsSaving' <=> <<q, h>> \in rsSaving /\ ~(q = o /\ h = html)
    BY <2>3
  <2>7. o \in rsCaptured /\ rsEar # o /\ \A h \in Html : <<o, h>> \in rsSaving => h = html
    BY <1>t, <2>3 DEF PictureOnce
  <2>8. PictureOnce'
    BY <1>t, <2>3, <2>5, <2>6, <2>7 DEF PictureOnce
  <2>9. html.holds # {} => html.to = NoOrder
    BY <1>t, <2>3 DEF LoupeIsClean
  <2>10. SnapshotCleaned'
    BY <1>t, <2>2, <2>5, <2>9 DEF SnapshotCleaned
  <2>11. LoupeIsClean'
    BY <1>t, <2>3, <2>6 DEF LoupeIsClean
  <2> QED BY <2>4, <2>8, <2>10, <2>11 DEF SnapshotInv
<1>8. CASE ShopWorks
  BY <1>8, <1>t DEF ShopWorks, SnapshotInv, SnapshotTypeOK, PictureOnce, LoupeIsClean, SnapshotCleaned
<1> QED BY <1>1, <1>2, <1>3, <1>4, <1>5, <1>6, <1>7, <1>8 DEF SnapshotNext

LEMMA SnapshotStutter == SnapshotInv /\ UNCHANGED snapshotVars => SnapshotInv'
BY DEF SnapshotInv, snapshotVars, SnapshotTypeOK, PictureOnce, LoupeIsClean, SnapshotCleaned

LEMMA SnapshotShows == SnapshotInv => AskedOnce
<1> SUFFICES ASSUME SnapshotInv, NEW o \in RsOrders
             PROVE  /\ rsAsks.left[o] <= 1
                    /\ Cardinality({html \in Html : <<o, html>> \in rsSaving})
                         + (IF rsSaved[o] = NoHtml THEN 0 ELSE 1) <= 1
  BY DEF AskedOnce
<1> DEFINE hs == {html \in Html : <<o, html>> \in rsSaving}
<1>1. rsAsks.left[o] <= 1
  BY DEF SnapshotInv, PictureOnce
<1>2. CASE hs = {}
  <2>1. Cardinality(hs) = 0
    BY <1>2, FS_EmptySet
  <2>2. (IF rsSaved[o] = NoHtml THEN 0 ELSE 1) \in {0, 1}
    OBVIOUS
  <2> QED BY <1>1, <2>1, <2>2
<1>3. CASE hs # {}
  <2>1. PICK h \in hs : TRUE
    BY <1>3
  <2>2. hs = {h} /\ rsSaved[o] = NoHtml
    BY <2>1 DEF SnapshotInv, PictureOnce
  <2>3. Cardinality(hs) = 1
    <3> HIDE DEF hs
    <3> QED BY <2>2, FS_Singleton
  <2> QED BY <1>1, <2>2, <2>3
<1> QED BY <1>2, <1>3

-----------------------------------------------------------------------------
(* Filling a form                                                          *)

LEMMA AppendKeeps ==
  ASSUME NEW S, NEW s \in Seq(S), NEW x \in S
  PROVE  /\ Append(s, x) \in Seq(S) /\ Len(Append(s, x)) = Len(s) + 1 /\ Append(s, x)[Len(s) + 1] = x
         /\ \A i \in 1 .. Len(s) : Append(s, x)[i] = s[i]
OBVIOUS

-----------------------------------------------------------------------------
(* Filling a form                                                          *)

ChainStep(g, up, e) == IF e = 1 THEN <<1>> ELSE Append(g[up[e]], e)
UpTree(up) == up \in [Elements -> Nat] /\ \A e \in Elements \ {1} : up[e] \in 1 .. e - 1

LEMMA ElementsAre == Elements \subseteq Nat /\ 1 \in Elements /\ \A e \in Elements : 1 .. e \subseteq Elements /\ e >= 1
BY FfPage DEF Elements

\* Chains can be built from the body down, as an element comes after the one it is in.
LEMMA ChainsExist ==
  ASSUME NEW up, UpTree(up)
  PROVE  \E g \in [Elements -> Seq(Elements)] : \A e \in Elements : g[e] = ChainStep(g, up, e)
<1> DEFINE P(n) == \E g \in [1 .. n -> Seq(Elements)] : \A e \in 1 .. n : g[e] = ChainStep(g, up, e)
           bad == {n \in 0 .. FfElements : ~ P(n)}
<1>1. ASSUME bad # {} PROVE FALSE
  <2>1. bad \subseteq Nat
    BY FfPage
  <2>2. PICK n \in bad : \A k \in bad : n <= k
    BY <1>1, <2>1, LeastOf
  <2>3. n # 0
    <3>1. P(0)
      <4> DEFINE g == [x \in 1 .. 0 |-> <<>>]
      <4>1. 1 .. 0 = {}
        OBVIOUS
      <4>2. g \in [1 .. 0 -> Seq(Elements)] /\ \A e \in 1 .. 0 : g[e] = ChainStep(g, up, e)
        BY <4>1
      <4> QED BY <4>2
    <3> QED BY <3>1
  <2>4. n \in 1 .. FfElements /\ n - 1 \in 0 .. FfElements /\ P(n - 1)
    <3> HIDE DEF P
    <3>1. n \in 1 .. FfElements /\ n - 1 \in 0 .. FfElements /\ n - 1 < n
      BY <2>2, <2>3, FfPage
    <3>2. n - 1 \notin bad
      <4> HIDE DEF bad
      <4>1. n - 1 \in bad => n <= n - 1
        BY <2>2
      <4>2. n \in Nat
        BY <3>1, FfPage
      <4> QED BY <4>1, <4>2
    <3> QED BY <3>1, <3>2
  <2>5. PICK g \in [1 .. n - 1 -> Seq(Elements)] : \A e \in 1 .. n - 1 : g[e] = ChainStep(g, up, e)
    BY <2>4
  <2> DEFINE h == [i \in 1 .. n |-> IF i = n THEN ChainStep(g, up, n) ELSE g[i]]
  <2>6. ChainStep(g, up, n) \in Seq(Elements)
    <3>1. CASE n = 1
      BY <3>1, ElementsAre DEF ChainStep
    <3>2. CASE n # 1
      <4>1. n \in Elements /\ up[n] \in 1 .. n - 1
        BY <2>4, <3>2 DEF UpTree, Elements
      <4>2. g[up[n]] \in Seq(Elements)
        BY <4>1
      <4> QED BY <3>2, <4>1, <4>2, AppendKeeps DEF ChainStep
    <3> QED BY <3>1, <3>2
  <2>7. \A i \in 1 .. n : i = n \/ i \in 1 .. n - 1
    BY <2>4
  <2>8. h \in [1 .. n -> Seq(Elements)]
    BY <2>6, <2>7
  <2>9. \A e \in 1 .. n : h[e] = ChainStep(h, up, e)
    <3> TAKE e \in 1 .. n
    <3>1. h[e] = ChainStep(g, up, e)
      BY <2>5, <2>7
    <3>2. CASE e = 1
      BY <3>1, <3>2 DEF ChainStep
    <3>3. CASE e # 1
      <4>1. e \in Elements /\ e \in Nat /\ e <= n
        BY <2>4, FfPage DEF Elements
      <4>4. up[e] \in 1 .. e - 1
        BY <4>1, <3>3 DEF UpTree
      <4>2. up[e] \in 1 .. n /\ up[e] # n
        BY <2>4, <4>1, <4>4, FfPage
      <4>3. h[up[e]] = g[up[e]]
        BY <4>2
      <4> HIDE DEF h
      <4> QED BY <3>1, <3>3, <4>3 DEF ChainStep
    <3> QED BY <3>2, <3>3
  <2>10. P(n)
    BY <2>8, <2>9
  <2> QED BY <2>2, <2>10
<1>2. P(FfElements)
  <2> HIDE DEF P
  <2>1. FfElements \in 0 .. FfElements
    BY FfPage
  <2> QED BY <1>1, <2>1
<1> QED BY <1>2 DEF Elements

LEMMA DownIs ==
  ASSUME UpTree(ffUp)
  PROVE  /\ DownTo(1) = <<1>>
         /\ \A e \in Elements : DownTo(e) \in Seq(Elements)
         /\ \A e \in Elements \ {1} : DownTo(e) = Append(DownTo(ffUp[e]), e)
<1>1. PICK g \in [Elements -> Seq(Elements)] : \A e \in Elements : g[e] = ChainStep(g, ffUp, e)
  BY ChainsExist
<1> DEFINE Rec(f) == f = [e \in Elements |-> IF e = 1 THEN <<1>> ELSE Append(f[ffUp[e]], e)]
<1>2. Rec(g)
  BY <1>1 DEF ChainStep
<1>3. downTo = CHOOSE f : Rec(f)
  BY DEF downTo
<1>4. Rec(downTo)
  BY <1>2, <1>3
<1>5. \A e \in Elements : downTo[e] = IF e = 1 THEN <<1>> ELSE Append(downTo[ffUp[e]], e)
  BY <1>4
<1> HIDE DEF Rec
<1>6. DownTo(1) = <<1>> /\ \A e \in Elements \ {1} : DownTo(e) = Append(DownTo(ffUp[e]), e)
  BY <1>5, ElementsAre DEF DownTo
<1> DEFINE bad == {e \in Elements : DownTo(e) \notin Seq(Elements)}
<1>7. ASSUME bad # {} PROVE FALSE
  <2>1. bad \subseteq Nat
    BY ElementsAre
  <2>2. PICK e \in bad : \A k \in bad : e <= k
    BY <1>7, <2>1, LeastOf
  <2>8. <<1>> \in Seq(Elements)
    BY ElementsAre
  <2>3. e # 1
    BY <1>6, <2>2, <2>8
  <2>4. e \in Elements /\ ffUp[e] \in 1 .. e - 1 /\ ffUp[e] \in Elements
    BY <2>2, <2>3, ElementsAre DEF UpTree
  <2>5. ffUp[e] \notin bad
    BY <2>1, <2>2, <2>4, ElementsAre
  <2>6. DownTo(ffUp[e]) \in Seq(Elements)
    BY <2>4, <2>5
  <2>7. DownTo(e) \in Seq(Elements)
    <3> DEFINE s == DownTo(ffUp[e])
    <3>1. s \in Seq(Elements)
      BY <2>6
    <3>2. DownTo(e) = Append(s, e)
      BY <1>6, <2>3, <2>4
    <3> HIDE DEF s
    <3> QED BY <2>4, <3>1, <3>2, AppendKeeps
  <2> QED BY <2>2, <2>7
<1> QED BY <1>6, <1>7

\* From the body down to the element, each the one that the next is in.
Descends(e) ==
  LET d == DownTo(e) m == Len(d) IN
  /\ d \in Seq(Elements) /\ m \in Nat /\ m >= 1 /\ d[1] = 1 /\ d[m] = e
  /\ \A n \in 2 .. m : d[n] # 1 /\ d[n - 1] = ffUp[d[n]]

LEMMA ChainsDescend == ASSUME UpTree(ffUp) PROVE \A e \in Elements : Descends(e)
<1> DEFINE bad == {e \in Elements : ~ Descends(e)}
<1> SUFFICES ASSUME bad # {} PROVE FALSE
  OBVIOUS
<1>1. bad \subseteq Nat
  BY ElementsAre
<1>2. PICK e \in bad : \A k \in bad : e <= k
  BY <1>1, LeastOf
<1>3. Descends(1)
  <2> DEFINE d == DownTo(1)
  <2>1. d = <<1>> /\ <<1>> \in Seq(Elements) /\ Len(<<1>>) = 1 /\ <<1>>[1] = 1
    BY DownIs, ElementsAre
  <2>2. d \in Seq(Elements) /\ Len(d) = 1 /\ d[1] = 1
    BY <2>1
  <2> HIDE DEF d
  <2>3. \A n \in 2 .. 1 : d[n] # 1 /\ d[n - 1] = ffUp[d[n]]
    OBVIOUS
  <2> QED BY <2>2, <2>3 DEF Descends, d
<1>4. e # 1
  BY <1>2, <1>3
<1> DEFINE u == ffUp[e]
           du == DownTo(u)
           mu == Len(du)
           d == DownTo(e)
<1>5. e \in Elements /\ u \in 1 .. e - 1 /\ u \in Elements
  BY <1>2, <1>4, ElementsAre DEF UpTree
<1>6. Descends(u)
  BY <1>1, <1>2, <1>5, ElementsAre
<1>7. /\ du \in Seq(Elements) /\ mu \in Nat /\ mu >= 1 /\ du[1] = 1 /\ du[mu] = u
      /\ \A n \in 2 .. mu : du[n] # 1 /\ du[n - 1] = ffUp[du[n]]
  BY <1>6 DEF Descends
<1>8. d = Append(du, e)
  BY <1>4, <1>5, DownIs
<1> HIDE DEF du, d
<1>9. /\ d \in Seq(Elements) /\ Len(d) = mu + 1 /\ d[mu + 1] = e
      /\ \A i \in 1 .. mu : d[i] = du[i]
  BY <1>5, <1>7, <1>8, AppendKeeps
<1> HIDE DEF mu
<1>10. \A n \in 2 .. mu + 1 : d[n] # 1 /\ d[n - 1] = ffUp[d[n]]
  <2> TAKE n \in 2 .. mu + 1
  <2>1. CASE n = mu + 1
    <3>1. n - 1 = mu /\ mu \in 1 .. mu
      BY <1>7, <2>1
    <3>2. d[n] = e /\ d[n - 1] = u
      BY <1>7, <1>9, <2>1, <3>1
    <3> QED BY <1>4, <3>2
  <2>2. CASE n # mu + 1
    <3>1. n \in 2 .. mu /\ n \in 1 .. mu /\ n - 1 \in 1 .. mu
      BY <1>7, <2>2
    <3> QED BY <1>7, <1>9, <3>1
  <2> QED BY <2>1, <2>2
<1>11. d[1] = 1
  BY <1>7, <1>9
<1>12. Descends(e)
  BY <1>7, <1>9, <1>10, <1>11 DEF Descends, d
<1> QED BY <1>2, <1>12

LEMMA ChainIs ==
  ASSUME UpTree(ffUp), NEW e \in Elements
  PROVE  /\ e \in Chain(e) /\ 1 \in Chain(e) /\ Chain(e) \subseteq Elements
         /\ e = 1 => Chain(e) = {1}
         /\ e # 1 => ffUp[e] \in Elements /\ ffUp[e] < e /\ Chain(e) = Chain(ffUp[e]) \cup {e}
<1> DEFINE d == DownTo(e)
<1>1. d \in Seq(Elements) /\ Len(d) \in Nat /\ Len(d) >= 1 /\ d[1] = 1 /\ d[Len(d)] = e
  BY ChainsDescend DEF Descends
<1>2. Chain(e) = {d[i] : i \in 1 .. Len(d)}
  BY <1>1 DEF Chain, ToSet
<1> HIDE DEF d
<1>3. e \in Chain(e) /\ 1 \in Chain(e) /\ Chain(e) \subseteq Elements
  BY <1>1, <1>2
<1>4. ASSUME e = 1 PROVE Chain(e) = {1}
  <2>1. d = <<1>>
    BY <1>4, DownIs DEF d
  <2> QED BY <1>2, <2>1
<1>5. ASSUME e # 1 PROVE ffUp[e] \in Elements /\ ffUp[e] < e /\ Chain(e) = Chain(ffUp[e]) \cup {e}
  <2> DEFINE u == ffUp[e]
             du == DownTo(u)
  <2>1. u \in 1 .. e - 1 /\ u \in Elements
    BY <1>5, ElementsAre DEF UpTree
  <2>2. du \in Seq(Elements) /\ Len(du) \in Nat
    BY <2>1, DownIs
  <2>3. Chain(u) = {du[i] : i \in 1 .. Len(du)}
    BY <2>2 DEF Chain, ToSet
  <2>4. d = Append(du, e)
    BY <1>5, DownIs DEF d
  <2> HIDE DEF du
  <2>5. /\ Len(d) = Len(du) + 1 /\ d[Len(du) + 1] = e
        /\ \A i \in 1 .. Len(du) : d[i] = du[i]
    BY <2>2, <2>4, AppendKeeps
  <2>6. \A i \in 1 .. Len(du) + 1 : i = Len(du) + 1 \/ i \in 1 .. Len(du)
    BY <2>2
  <2>7. Chain(e) \subseteq Chain(u) \cup {e}
    BY <1>2, <2>3, <2>5, <2>6
  <2>8. Chain(u) \subseteq Chain(e)
    BY <1>2, <2>2, <2>3, <2>5
  <2> QED BY <1>3, <2>1, <2>7, <2>8, ElementsAre
<1> QED BY <1>3, <1>4, <1>5

LEMMA ChainsNest ==
  ASSUME UpTree(ffUp)
  PROVE  \A e \in Elements : \A a \in Chain(e) : Chain(a) \subseteq Chain(e)
<1> DEFINE Nests(e) == \A a \in Chain(e) : Chain(a) \subseteq Chain(e)
           bad == {e \in Elements : ~ Nests(e)}
<1> SUFFICES ASSUME bad # {} PROVE FALSE
  OBVIOUS
<1>1. bad \subseteq Nat
  BY ElementsAre
<1>2. PICK e \in bad : \A k \in bad : e <= k
  BY <1>1, LeastOf
<1>3. e \in Elements /\ e # 1
  BY <1>2, ChainIs
<1>4. ffUp[e] \in Elements /\ ffUp[e] < e /\ Chain(e) = Chain(ffUp[e]) \cup {e}
  BY <1>3, ChainIs
<1>5. ffUp[e] \notin bad
  BY <1>1, <1>2, <1>4, ElementsAre
<1>6. Nests(ffUp[e])
  BY <1>4, <1>5
<1>7. Nests(e)
  BY <1>4, <1>6
<1> QED BY <1>2, <1>7

\* The page in hand: what each element is, with one body at the top, and whole branches taken away.
PageHolds ==
  /\ ffKind \in [Elements -> ElementKinds \cup {"body"}]
  /\ \A e \in Elements : ffKind[e] = "body" <=> e = 1
  /\ UpTree(ffUp) /\ ffHere \subseteq Elements
  /\ \A e \in ffHere : Chain(e) \subseteq ffHere

SameTag(x, y) == TagOf(ffKind[x]) = TagOf(ffKind[y])

LEMMA SiblingsApart ==
  ASSUME PageHolds, NEW x \in ffHere, NEW y \in ffHere,
         ffUp[x] = ffUp[y], SameTag(x, y), nthOfType(x) = nthOfType(y)
  PROVE  x = y
<1>1. \A a, b \in ffHere : a < b /\ ffUp[a] = ffUp[b] /\ SameTag(a, b) => nthOfType(a) # nthOfType(b)
  <2> SUFFICES ASSUME NEW a \in ffHere, NEW b \in ffHere, a < b, ffUp[a] = ffUp[b], SameTag(a, b)
               PROVE  nthOfType(a) # nthOfType(b)
    OBVIOUS
  <2> DEFINE A == {s \in ffHere : s <= a /\ ffUp[s] = ffUp[a] /\ TagOf(ffKind[s]) = TagOf(ffKind[a])}
             B == {s \in ffHere : s <= b /\ ffUp[s] = ffUp[b] /\ TagOf(ffKind[s]) = TagOf(ffKind[b])}
  <2>1. a \in Nat /\ b \in Nat /\ ffHere \subseteq Nat /\ ffHere \subseteq Elements
    BY ElementsAre DEF PageHolds
  <2>2. A \subseteq B
    <3> SUFFICES ASSUME NEW s \in A PROVE s \in B
      OBVIOUS
    <3>1. s \in ffHere /\ s <= a /\ ffUp[s] = ffUp[a] /\ TagOf(ffKind[s]) = TagOf(ffKind[a])
      OBVIOUS
    <3>2. s <= b
      BY <2>1, <3>1
    <3>3. ffUp[s] = ffUp[b] /\ TagOf(ffKind[s]) = TagOf(ffKind[b])
      BY <3>1 DEF SameTag
    <3> QED BY <3>1, <3>2, <3>3
  <2>3. b \in B /\ b \notin A
    BY <2>1
  <2>4. B \subseteq Elements
    BY <2>1
  <2> HIDE DEF A, B
  <2>5. IsFiniteSet(Elements)
    BY FfPage, FS_Interval DEF Elements
  <2>6. IsFiniteSet(B)
    BY <2>4, <2>5, FS_Subset
  <2>7. Cardinality(A) # Cardinality(B)
    BY <2>2, <2>3, <2>6, FS_Subset
  <2> QED BY <2>7 DEF nthOfType, A, B
<1>2. x \in Nat /\ y \in Nat
  BY ElementsAre DEF PageHolds
<1>3. SameTag(y, x)
  BY DEF SameTag
<1>4. ~ (x < y) /\ ~ (y < x)
  BY <1>1, <1>3
<1> QED BY <1>2, <1>4

LEMMA OnlyTheBody ==
  ASSUME PageHolds, NEW e \in Elements, TagOf(ffKind[e]) = "body"
  PROVE  e = 1
<1>1. ffKind[e] \in ElementKinds \cup {"body"}
  BY DEF PageHolds
<1>2. ffKind[e] = "body"
  BY <1>1 DEF TagOf, ElementKinds, Fields
<1> QED BY <1>2 DEF PageHolds

\* An element is found by its path and by no other.
LEMMA PathLeadsBack ==
  ASSUME PageHolds, NEW e \in ffHere
  PROVE  resolveDomPath(buildDomPath(e)) = e
<1> DEFINE d == DownTo(e)
           m == Len(d)
           At(y) == <<TagOf(ffKind[y]), nthOfType(y)>>
           p == buildDomPath(e)
<1>1. ffHere \subseteq Elements /\ e \in Elements /\ UpTree(ffUp)
  BY DEF PageHolds
<1>2. /\ d \in Seq(Elements) /\ m \in Nat /\ m >= 1 /\ d[1] = 1 /\ d[m] = e
      /\ \A n \in 2 .. m : d[n] # 1 /\ d[n - 1] = ffUp[d[n]]
  BY <1>1, ChainsDescend DEF Descends
<1>3. DOMAIN d = 1 .. m
  BY <1>2
<1>4. p = [n \in 1 .. m |-> At(d[n])]
  BY <1>3 DEF buildDomPath, IndexOf, nthOfType
<1>5. DOMAIN p = 1 .. m /\ \A n \in 1 .. m : p[n] = At(d[n])
  BY <1>4
<1>6. Len(p) = m /\ p # <<>>
  BY <1>2, <1>4
<1>7. \A n \in 1 .. m : d[n] \in ffHere
  <2>1. Chain(e) = {d[i] : i \in 1 .. m}
    BY <1>3 DEF Chain, ToSet
  <2> QED BY <2>1 DEF PageHolds
<1> DEFINE fits(x) == LET down == DownTo(x)
                      IN /\ Len(down) >= Len(p)
                         /\ \A n \in DOMAIN p :
                              LET y == down[Len(down) - Len(p) + n]
                              IN p[n] = <<TagOf(ffKind[y]), nthOfType(y)>>
<1>8. fits(e)
  <2>1. \A n \in 1 .. m : m - m + n = n
    BY <1>2
  <2> HIDE DEF p, d
  <2> QED BY <1>2, <1>5, <1>6, <2>1 DEF d
<1>9. ASSUME NEW x \in ffHere, fits(x) PROVE x = e
  <2> DEFINE dx == DownTo(x)
             mx == Len(dx)
             k == mx - m
  <2>1. x \in Elements
    BY <1>1
  <2>2. /\ dx \in Seq(Elements) /\ mx \in Nat /\ mx >= 1 /\ dx[1] = 1 /\ dx[mx] = x
        /\ \A n \in 2 .. mx : dx[n] # 1 /\ dx[n - 1] = ffUp[dx[n]]
    BY <1>1, <2>1, ChainsDescend DEF Descends
  <2>3. mx >= m /\ \A n \in 1 .. m : At(d[n]) = At(dx[k + n])
    <3> HIDE DEF p, d
    <3> QED BY <1>5, <1>6, <1>9
  <2>4. \A n \in 1 .. mx : dx[n] \in ffHere
    <3>1. Chain(x) = {dx[i] : i \in 1 .. mx}
      BY <2>2 DEF Chain, ToSet
    <3> QED BY <3>1 DEF PageHolds
  <2>9. \A n \in 1 .. m : TagOf(ffKind[d[n]]) = TagOf(ffKind[dx[k + n]]) /\ nthOfType(d[n]) = nthOfType(dx[k + n])
    BY <2>3
  <2> HIDE DEF d, m, dx, mx
  <2>5. k = 0
    <3>1. 1 \in 1 .. m /\ k + 1 \in 1 .. mx /\ k \in Nat
      BY <1>2, <2>2, <2>3
    <3>2. ffKind[1] = "body" /\ 1 \in Elements
      BY ElementsAre DEF PageHolds
    <3>3. TagOf(ffKind[dx[k + 1]]) = "body" /\ dx[k + 1] \in Elements
      <4>1. TagOf("body") = "body"
        BY DEF TagOf, Fields
      <4>2. dx[k + 1] \in Elements
        BY <1>1, <2>4, <3>1
      <4> QED BY <1>2, <2>9, <3>1, <3>2, <4>1, <4>2
    <3>4. dx[k + 1] = 1
      BY <3>3, OnlyTheBody
    <3>5. k + 1 \notin 2 .. mx
      BY <2>2, <3>4
    <3> QED BY <2>2, <3>1, <3>5
  <2>6. mx = m /\ \A n \in 1 .. m : k + n = n
    BY <1>2, <2>2, <2>5
  <2> DEFINE bad == {n \in 1 .. m : d[n] # dx[n]}
  <2>7. ASSUME bad # {} PROVE FALSE
    <3>1. bad \subseteq Nat
      BY <1>2
    <3>2. PICK n \in bad : \A i \in bad : n <= i
      BY <2>7, <3>1, LeastOf
    <3>3. n \in 1 .. m /\ d[n] # dx[n] /\ n # 1
      BY <1>2, <2>2, <3>2
    <3>4. n \in 2 .. m /\ n - 1 \in 1 .. m /\ n - 1 < n /\ n \in Nat
      BY <1>2, <3>3
    <3>5. d[n - 1] = dx[n - 1]
      <4>1. n - 1 \in bad => n <= n - 1
        BY <3>2
      <4>2. n - 1 \notin bad
        BY <3>4, <4>1
      <4> QED BY <3>4, <4>2
    <3>6. ffUp[d[n]] = ffUp[dx[n]]
      BY <1>2, <2>2, <2>6, <3>4, <3>5
    <3>7. SameTag(d[n], dx[n]) /\ nthOfType(d[n]) = nthOfType(dx[n])
      BY <2>6, <2>9, <3>3 DEF SameTag
    <3>8. d[n] \in ffHere /\ dx[n] \in ffHere
      BY <1>7, <2>4, <2>6, <3>3
    <3> QED BY <3>3, <3>6, <3>7, <3>8, SiblingsApart
  <2>8. m \in 1 .. m
    BY <1>2
  <2> QED BY <1>2, <2>2, <2>6, <2>7, <2>8
<1>10. {x \in ffHere : fits(x)} = {e}
  BY <1>8, <1>9
<1>11. Min({e}) = e
  <2>1. e \in Nat
    BY <1>1, ElementsAre
  <2>2. \A y \in {e} : e <= y
    BY <2>1
  <2> QED BY <2>2 DEF Min
<1>12. resolveDomPath(p) = IF p = <<>> \/ {x \in ffHere : fits(x)} = {} THEN Unknown ELSE Min({x \in ffHere : fits(x)})
  BY DEF resolveDomPath
<1> HIDE DEF p, fits
<1> QED BY <1>6, <1>10, <1>11, <1>12 DEF p

LEMMA LastOf == ASSUME NEW n \in Nat, NEW S \in SUBSET (1 .. n), S # {} PROVE Max(S) \in S /\ \A y \in S : Max(S) >= y
<1> DEFINE below == {d \in Nat : \E x \in S : d = n - x}
<1>1. \A x \in S : x \in Int /\ n - x \in below
  OBVIOUS
<1>2. below \subseteq Nat /\ below # {}
  BY <1>1
<1>3. PICK d \in below : \A e \in below : d <= e
  BY <1>2, LeastOf
<1>4. PICK x \in S : d = n - x
  OBVIOUS
<1> HIDE DEF below
<1>5. \A y \in S : x >= y
  BY <1>1, <1>2, <1>3, <1>4
<1> QED BY <1>5 DEF Max

LEMMA FirstOf == ASSUME NEW S, S \subseteq Elements, S # {} PROVE Min(S) \in S
<1>1. S \subseteq Nat
  BY ElementsAre
<1>2. PICK x \in S : \A y \in S : x <= y
  BY <1>1, LeastOf
<1> QED BY <1>2 DEF Min

\* What the form is answered with, and where a field is looked for, is on the page.
LEMMA AnElement ==
  ASSUME ffHere \subseteq Elements, NEW path
  PROVE  resolveDomPath(path) \in ffHere \cup {Unknown}
<1> DEFINE found == {e \in ffHere : LET down == DownTo(e)
                                    IN /\ Len(down) >= Len(path)
                                       /\ \A n \in DOMAIN path :
                                            LET x == down[Len(down) - Len(path) + n]
                                            IN path[n] = <<TagOf(ffKind[x]), nthOfType(x)>>}
<1>1. resolveDomPath(path) = IF path = <<>> \/ found = {} THEN Unknown ELSE Min(found)
  BY DEF resolveDomPath
<1>2. found \subseteq ffHere
  OBVIOUS
<1> HIDE DEF found
<1>3. found # {} => Min(found) \in ffHere
  BY <1>2, FirstOf
<1> QED BY <1>1, <1>3

LEMMA AForm == ASSUME PageHolds, NEW path PROVE nearestForm(path) \in ffHere \cup {Unknown}
<1> DEFINE el == resolveDomPath(path)
           around == IF el = Unknown THEN {} ELSE {c \in Chain(el) : ffKind[c] = "form"}
           forms == {e \in ffHere : ffKind[e] = "form"}
<1>1. nearestForm(path) = IF around # {} THEN Max(around) ELSE IF forms # {} THEN Min(forms) ELSE Unknown
  BY DEF nearestForm
<1>2. ffHere \subseteq Elements
  BY DEF PageHolds
<1>3. el \in ffHere \cup {Unknown}
  BY <1>2, AnElement
<1>4. around \subseteq ffHere
  BY <1>3 DEF PageHolds
<1>5. forms \subseteq ffHere
  OBVIOUS
<1> HIDE DEF around, forms
<1>6. around # {} => Max(around) \in ffHere
  BY <1>2, <1>4, LastOf, FfPage DEF Elements
<1>7. forms # {} => Min(forms) \in ffHere
  BY <1>2, <1>5, FirstOf
<1> QED BY <1>1, <1>6, <1>7

LEMMA AField ==
  ASSUME ffHere \subseteq Elements, NEW root, NEW n, findFieldElement(root, n) # Unknown
  PROVE  findFieldElement(root, n) \in In(root) /\ NameOf(ffKind[findFieldElement(root, n)]) = n
<1> DEFINE named == {e \in In(root) : NameOf(ffKind[e]) = n}
           byName == {e \in named : ffKind[e] # "control-a"}
<1>1. findFieldElement(root, n) = IF byName # {} THEN Min(byName) ELSE IF named # {} THEN Min(named) ELSE Unknown
  BY DEF findFieldElement
<1>2. byName \subseteq named /\ named \subseteq Elements
  BY DEF In
<1>3. \A e \in named : e \in In(root) /\ NameOf(ffKind[e]) = n
  OBVIOUS
<1> HIDE DEF byName, named
<1>4. (byName # {} => Min(byName) \in named) /\ (named # {} => Min(named) \in named)
  BY <1>2, FirstOf
<1> QED BY <1>1, <1>3, <1>4

\* An element that holds something holds it under its own name, and is nothing but a field.
PromiseKept == (ffAt \in {"answered", "sent"} /\ ffSame) =>
                 ffProbe.form \in ffHere /\ ffProbe.path = buildDomPath(ffProbe.form)

FillInv == FillTypeOK /\ PageHolds /\ PromiseKept /\ FillStaysInForm /\ FilledIsStored

LEMMA FillStart == ASSUME FillInit PROVE FillInv
<1>1. UpTree(ffUp)
  <2>1. \A e \in Elements \ {1} : ffUp[e] \in 1 .. e - 1
    BY DEF FillInit
  <2>2. ffUp \in [Elements -> 0 .. FfElements - 1]
    BY DEF FillInit
  <2> QED BY <2>1, <2>2, FfPage DEF UpTree
<1>2. PageHolds
  <2>1. \A e \in ffHere : Chain(e) \subseteq ffHere
    BY <1>1, ChainIs DEF FillInit
  <2>2. \A e \in Elements : ffKind[e] = "body" <=> e = 1
    BY ElementsAre DEF FillInit
  <2> QED BY <1>1, <2>1, <2>2 DEF PageHolds, FillInit
<1>3. FillTypeOK
  <2>1. 0 .. FfElements - 1 \subseteq Elements \cup {0}
    BY FfPage DEF Elements
  <2>2. ffUp \in [Elements -> Elements \cup {0}]
    BY <2>1 DEF FillInit
  <2> QED BY <2>2 DEF FillInit, FillTypeOK, NoReply
<1> QED BY <1>2, <1>3 DEF FillInv, FillInit, PromiseKept, FillStaysInForm, FilledIsStored

LEMMA FillStutter == ASSUME FillInv, UNCHANGED fillVars PROVE FillInv'
<1>1. ffKind' = ffKind /\ ffUp' = ffUp /\ ffHere' = ffHere /\ ffValue' = ffValue /\ ffAt' = ffAt
      /\ ffPick' = ffPick /\ ffProbe' = ffProbe /\ ffReply' = ffReply /\ ffSame' = ffSame
  BY DEF fillVars
<1>2. downTo' = downTo
  BY <1>1 DEF downTo
<1>3. FillTypeOK'
  BY <1>1 DEF FillInv, FillTypeOK
<1>4. PageHolds'
  BY <1>1, <1>2 DEF FillInv, PageHolds, UpTree, Chain, DownTo
<1>5. PromiseKept'
  <2>1. buildDomPath(ffProbe.form)' = buildDomPath(ffProbe.form)
    BY <1>1, <1>2 DEF buildDomPath, DownTo, IndexOf
  <2> QED BY <1>1, <2>1 DEF FillInv, PromiseKept
<1>6. FillStaysInForm'
  <2>1. In(ffProbe.form)' = In(ffProbe.form)
    BY <1>1, <1>2 DEF In, Chain, DownTo
  <2> QED BY <1>1, <2>1 DEF FillInv, FillStaysInForm
<1>7. FilledIsStored'
  BY <1>1 DEF FillInv, FilledIsStored
<1> QED BY <1>3, <1>4, <1>5, <1>6, <1>7 DEF FillInv

\* A page whose elements stay as they are keeps its chains.
LEMMA SameChains ==
  ASSUME ffUp' = ffUp
  PROVE  downTo' = downTo /\ \A e : Chain(e)' = Chain(e)
<1>1. downTo' = downTo
  BY DEF downTo
<1> QED BY <1>1 DEF Chain, DownTo

LEMMA ShownStays ==
  ASSUME FillInv, UNCHANGED <<ffKind, ffUp, ffHere>>
  PROVE  /\ PageHolds'
         /\ \A e : buildDomPath(e)' = buildDomPath(e)
         /\ \A r : In(r)' = In(r)
<1>1. downTo' = downTo /\ \A e : Chain(e)' = Chain(e)
  BY SameChains
<1>2. PageHolds'
  BY <1>1 DEF FillInv, PageHolds, UpTree
<1>3. \A e : buildDomPath(e)' = buildDomPath(e)
  BY <1>1 DEF buildDomPath, DownTo, IndexOf
<1>4. \A r : In(r)' = In(r)
  BY <1>1 DEF In
<1> QED BY <1>2, <1>3, <1>4

LEMMA FillUntouched ==
  ASSUME FillInv, UNCHANGED <<ffKind, ffUp, ffHere, ffProbe>>
  PROVE  PageHolds' /\ buildDomPath(ffProbe.form)' = buildDomPath(ffProbe.form)
<1>1. downTo' = downTo
  BY SameChains
<1> QED BY <1>1, ShownStays DEF buildDomPath, DownTo, IndexOf

\* An element stands behind those it is in.
LEMMA ChainsAbove ==
  ASSUME UpTree(ffUp)
  PROVE  \A e \in Elements : \A a \in Chain(e) : a \in Elements /\ a <= e
<1> DEFINE Above(e) == \A a \in Chain(e) : a \in Elements /\ a <= e
           bad == {e \in Elements : ~ Above(e)}
<1> SUFFICES ASSUME bad # {} PROVE FALSE
  OBVIOUS
<1>1. bad \subseteq Nat
  BY ElementsAre
<1>2. PICK e \in bad : \A k \in bad : e <= k
  BY <1>1, LeastOf
<1>3. e \in Elements /\ e # 1 /\ e \in Nat
  BY <1>2, ChainIs, ElementsAre
<1>4. ffUp[e] \in Elements /\ ffUp[e] < e /\ Chain(e) = Chain(ffUp[e]) \cup {e} /\ ffUp[e] \in Nat
  BY <1>3, ChainIs, ElementsAre
<1>5. ffUp[e] \notin bad
  BY <1>1, <1>2, <1>3, <1>4
<1>6. Above(ffUp[e])
  BY <1>4, <1>5
<1>7. \A a \in Chain(e) : a \in Elements /\ a <= e
  <2> TAKE a \in Chain(e)
  <2>1. CASE a = e
    BY <1>3, <2>1
  <2>2. CASE a # e
    <3>1. a \in Elements /\ a <= ffUp[e]
      BY <1>4, <1>6, <2>2
    <3>2. a \in Nat
      BY <3>1, ElementsAre
    <3> HIDE DEF bad, Above
    <3> QED BY <1>3, <1>4, <3>1, <3>2
  <2> QED BY <2>1, <2>2
<1> QED BY <1>2, <1>7

\* Where the page changes only behind a form, the path of the form stays.
LEMMA FormPathStays ==
  ASSUME PageHolds, NEW form \in Elements, UNCHANGED <<ffKind, ffUp>>,
         \A x \in Elements : x <= form => (x \in ffHere' <=> x \in ffHere), ffHere' \subseteq Elements
  PROVE  buildDomPath(form)' = buildDomPath(form)
<1>1. downTo' = downTo
  BY SameChains
<1>d. PICK d : d = DownTo(form)
  OBVIOUS
<1>2. \A n \in DOMAIN d : d[n] \in Elements /\ d[n] <= form
  <2>1. \A n \in DOMAIN d : d[n] \in Chain(form)
    BY <1>d DEF Chain, ToSet
  <2> QED BY <2>1, ChainsAbove DEF PageHolds
<1>3. \A e \in Elements : e <= form => IndexOf(e)' = IndexOf(e)
  <2> SUFFICES ASSUME NEW e \in Elements, e <= form PROVE IndexOf(e)' = IndexOf(e)
    OBVIOUS
  <2> DEFINE Was == {s \in ffHere : s <= e /\ ffUp[s] = ffUp[e] /\ TagOf(ffKind[s]) = TagOf(ffKind[e])}
             Is == {s \in ffHere' : s <= e /\ ffUp[s] = ffUp[e] /\ TagOf(ffKind[s]) = TagOf(ffKind[e])}
  <2>1. \A s \in Elements : s <= e => (s \in ffHere' <=> s \in ffHere)
    <3>1. \A s \in Elements : s <= e => s <= form
      BY ElementsAre
    <3> QED BY <3>1
  <2>2. ffHere \subseteq Elements /\ ffHere' \subseteq Elements
    BY DEF PageHolds
  <2>3. Is = Was
    BY <2>1, <2>2
  <2>4. IndexOf(e) = Cardinality(Was)
    BY DEF IndexOf
  <2>5. IndexOf(e)' = Cardinality(Is)
    BY DEF IndexOf
  <2> QED BY <2>3, <2>4, <2>5
<1>4. DownTo(form)' = d
  BY <1>1, <1>d DEF DownTo
<1>5. buildDomPath(form) = [n \in DOMAIN d |-> <<TagOf(ffKind[d[n]]), IndexOf(d[n])>>]
  BY <1>d DEF buildDomPath
<1>6. buildDomPath(form)' = [n \in DOMAIN d |-> <<TagOf(ffKind[d[n]]), IndexOf(d[n])'>>]
  BY <1>4 DEF buildDomPath
<1>7. \A n \in DOMAIN d : IndexOf(d[n])' = IndexOf(d[n])
  BY <1>2, <1>3
<1> QED BY <1>5, <1>6, <1>7

\* What the panel was told of a form still holds after such a change.
LEMMA StillPromised ==
  ASSUME FillInv, NEW changed, UNCHANGED <<ffKind, ffUp, ffAt, ffProbe>>, ffHere' \subseteq Elements,
         \A x \in Elements \ changed : x \in ffHere' <=> x \in ffHere,
         ffSame' = (ffSame /\ BehindTheForm(changed))
  PROVE  PromiseKept'
<1> SUFFICES ASSUME ffAt' \in {"answered", "sent"}, ffSame'
             PROVE  ffProbe'.form \in ffHere' /\ ffProbe'.path = buildDomPath(ffProbe.form)'
  BY DEF PromiseKept
<1>1. ffProbe.form \in ffHere /\ ffProbe.path = buildDomPath(ffProbe.form) /\ PageHolds
  BY DEF FillInv, PromiseKept
<1>2. PICK form \in Elements : form = ffProbe.form
  BY <1>1 DEF PageHolds
<1>3. \A x \in changed : x > form
  BY <1>2 DEF BehindTheForm
<1>4. \A x \in Elements : x <= form => x \notin changed
  <2> SUFFICES ASSUME NEW x \in Elements, x <= form, x \in changed PROVE FALSE
    OBVIOUS
  <2>1. x \in Nat /\ form \in Nat /\ x > form
    BY <1>2, <1>3, ElementsAre
  <2> QED BY <2>1
<1>5. form <= form
  BY <1>2, ElementsAre
<1>6. form \in ffHere'
  BY <1>1, <1>2, <1>4, <1>5
<1>7. \A x \in Elements : x <= form => (x \in ffHere' <=> x \in ffHere)
  BY <1>4
<1>8. buildDomPath(form)' = buildDomPath(form)
  BY <1>1, <1>2, <1>7, FormPathStays
<1>9. form = ffProbe'.form /\ buildDomPath(ffProbe.form)' = buildDomPath(form)'
  BY <1>2
<1> QED BY <1>1, <1>2, <1>6, <1>8, <1>9

LEMMA FillAnswered ==
  ASSUME FillInv, NEW offered \in BOOLEAN, NEW undone \in SUBSET FieldNames, AnswerFill(offered, undone)
  PROVE  FillInv'
<1> DEFINE root == RootOf(ffProbe.path)
           el(n) == findFieldElement(root, n)
           found == {n \in FieldNames : el(n) # Unknown}
           set == {el(n) : n \in found}
           Now(e) == Holds(ffKind[e], offered, NameOf(ffKind[e]) \in undone)
           value == [e \in Elements |-> IF e \in set THEN Now(e) ELSE ffValue[e]]
           done == {n \in found : setFieldValue(ffKind[el(n)], offered, value[el(n)])}
<1>1. /\ ffAt = "sent" /\ ffAt' = "filled"
      /\ ffReply' = [filled |-> done, missing |-> FieldNames \ done, set |-> set]
      /\ ffValue' = value
      /\ UNCHANGED <<ffKind, ffUp, ffHere, ffPick, ffProbe, ffSame>>
  BY DEF AnswerFill
<1>2. ffHere \subseteq Elements /\ FillTypeOK /\ PageHolds
  BY DEF FillInv, PageHolds
<1>3. \A n \in found : el(n) \in In(root) /\ NameOf(ffKind[el(n)]) = n /\ el(n) \in Elements
  <2> TAKE n \in found
  <2>1. el(n) \in In(root) /\ NameOf(ffKind[el(n)]) = n
    BY <1>2, AField
  <2> QED BY <1>2, <2>1 DEF In
<1>4. found \subseteq FieldNames /\ done \subseteq found
  OBVIOUS
<1>5. set \subseteq In(root) /\ set \subseteq Elements
  BY <1>3
<1>6. PageHolds' /\ In(ffProbe.form)' = In(ffProbe.form)
  BY <1>1, ShownStays
<1>7. \A e : Now(e) \in {"", "fixture", "chosen"} /\ (ffKind[e] \notin {"check-b", "select-b"} => Now(e) \in {"", "fixture"})
  BY DEF Holds
<1> HIDE DEF Now
<1>8. \A n \in done : /\ el(n) \in set /\ NameOf(ffKind[el(n)]) = n
                      /\ ffKind[el(n)] \notin {"check-b", "select-b"} => value[el(n)] = "fixture"
  <2> TAKE n \in done
  <2>1. n \in found /\ setFieldValue(ffKind[el(n)], offered, value[el(n)])
    OBVIOUS
  <2>2. el(n) \in set /\ el(n) \in Elements
    BY <1>3, <2>1
  <2>3. value[el(n)] = Now(el(n))
    BY <2>2
  <2> HIDE DEF value
  <2>4. ffKind[el(n)] \notin {"check-b", "select-b"} => value[el(n)] # ""
    BY <2>1 DEF setFieldValue
  <2>5. ffKind[el(n)] \notin {"check-b", "select-b"} => Now(el(n)) \in {"", "fixture"}
    BY <1>7
  <2> QED BY <1>3, <2>1, <2>2, <2>3, <2>4, <2>5
<1>v. ffValue' \in [Elements -> {"", "fixture", "chosen"}]
  <2> HIDE DEF set
  <2> QED BY <1>1, <1>2, <1>7 DEF FillTypeOK
<1> HIDE DEF found, done, set, value, el, root
<1>9. FillTypeOK'
  <2>2. ffReply' \in [filled : SUBSET FieldNames, missing : SUBSET FieldNames, set : SUBSET Elements]
    BY <1>1, <1>4, <1>5
  <2> QED BY <1>1, <1>2, <1>v, <2>2 DEF FillTypeOK
<1>10. FillStaysInForm'
  <2> SUFFICES ASSUME ffSame' PROVE ffReply'.set \subseteq In(ffProbe.form)
    BY <1>1, <1>6 DEF FillStaysInForm
  <2>1. ffSame
    BY <1>1
  <2>2. ffProbe.form \in ffHere /\ ffProbe.path = buildDomPath(ffProbe.form)
    BY <1>1, <2>1 DEF FillInv, PromiseKept
  <2>3. root = ffProbe.form
    BY <1>2, <2>2, PathLeadsBack DEF root, RootOf
  <2> QED BY <1>1, <1>5, <2>3
<1>11. FilledIsStored'
  <2>1. ffReply'.filled = done /\ ffReply'.missing = FieldNames \ done /\ ffReply'.set = set
    BY <1>1
  <2>2. \A n \in done : /\ el(n) \in set /\ NameOf(ffKind'[el(n)]) = n
                        /\ ffKind'[el(n)] \notin {"check-b", "select-b"} => ffValue'[el(n)] = "fixture"
    BY <1>1, <1>8
  <2>3. done \cup (FieldNames \ done) = FieldNames /\ done \cap (FieldNames \ done) = {}
    BY <1>4
  <2> QED BY <2>1, <2>2, <2>3 DEF FilledIsStored
<1>12. PromiseKept'
  BY <1>1 DEF PromiseKept
<1> QED BY <1>6, <1>9, <1>10, <1>11, <1>12 DEF FillInv

LEMMA FillStep == ASSUME FillInv, FillNext PROVE FillInv'
<1>1. CASE PressFill
  <2>1. PageHolds'
    BY <1>1, ShownStays DEF PressFill
  <2> QED BY <1>1, <2>1 DEF FillInv, FillTypeOK, PromiseKept, FillStaysInForm, FilledIsStored, PressFill
<1>2. CASE AnswerProbe
  <2> DEFINE form == nearestForm(ffPick.path)
  <2>1. PageHolds'
    BY <1>2, ShownStays DEF AnswerProbe
  <2>2. form \in ffHere \cup {Unknown} /\ ffHere \subseteq Elements
    BY AForm DEF FillInv, PageHolds
  <2>3. fieldNamesOf(form) \subseteq FieldNames
    BY DEF fieldNamesOf, NameOf, FieldNames, Fields
  <2>4. /\ ffProbe' = IF form = Unknown THEN [form |-> Unknown, path |-> <<>>, names |-> {}]
                      ELSE [form |-> form, path |-> buildDomPath(form), names |-> fieldNamesOf(form)]
        /\ ffAt' = IF ffProbe'.names = {} THEN "no-form" ELSE "answered"
        /\ UNCHANGED <<ffKind, ffUp, ffHere, ffValue, ffPick, ffReply>>
        /\ ffSame' = TRUE
    BY <1>2 DEF AnswerProbe
  <2> HIDE DEF form
  <2>5. ffProbe'.form \in Elements \cup {Unknown} /\ ffProbe'.names \subseteq FieldNames
    BY <2>2, <2>3, <2>4
  <2>6. PromiseKept'
    <3> SUFFICES ASSUME ffAt' \in {"answered", "sent"}
                 PROVE  ffProbe'.form \in ffHere' /\ ffProbe'.path = buildDomPath(ffProbe.form)'
      BY DEF PromiseKept
    <3>1. form # Unknown
      BY <2>4
    <3>2. ffProbe'.form = form /\ ffProbe'.path = buildDomPath(form)
      BY <2>4, <3>1
    <3>3. form \in ffHere'
      BY <2>2, <2>4, <3>1
    <3>4. buildDomPath(ffProbe.form)' = buildDomPath(form)
      <4>1. downTo' = downTo
        BY <2>4, SameChains
      <4> QED BY <2>4, <3>2, <4>1 DEF buildDomPath, DownTo, IndexOf
    <3> QED BY <3>2, <3>3, <3>4
  <2> QED BY <2>1, <2>4, <2>5, <2>6 DEF FillInv, FillTypeOK, FillStaysInForm, FilledIsStored
<1>3. CASE SendFill
  <2>1. PageHolds' /\ buildDomPath(ffProbe.form)' = buildDomPath(ffProbe.form)
    BY <1>3, FillUntouched DEF SendFill
  <2> QED BY <1>3, <2>1 DEF FillInv, FillTypeOK, PromiseKept, FillStaysInForm, FilledIsStored, SendFill
<1>4. CASE GiveUp
  <2>1. PageHolds'
    BY <1>4, ShownStays DEF GiveUp
  <2> QED BY <1>4, <2>1 DEF FillInv, FillTypeOK, PromiseKept, FillStaysInForm, FilledIsStored, GiveUp
<1>5. ASSUME NEW offered \in BOOLEAN, NEW undone \in SUBSET FieldNames, AnswerFill(offered, undone) PROVE FillInv'
  BY <1>5, FillAnswered
<1>6. ASSUME NEW e \in Elements, PickElement(e) PROVE FillInv'
  <2>1. PageHolds' /\ buildDomPath(ffProbe.form)' = buildDomPath(ffProbe.form)
    BY <1>6, FillUntouched DEF PickElement
  <2>2. ffPick'.el = e
    BY <1>6 DEF PickElement
  <2> QED BY <1>6, <2>1, <2>2 DEF FillInv, FillTypeOK, PromiseKept, FillStaysInForm, FilledIsStored, PickElement
<1>7. ASSUME NEW e \in Elements, AppRemoves(e) PROVE FillInv'
  <2> DEFINE gone == {x \in Elements : e \in Chain(x)}
  <2>1. /\ ffHere' = ffHere \ gone /\ ffSame' = (ffSame /\ BehindTheForm(gone))
        /\ ffAt \in {"idle", "probing", "answered", "sent"}
        /\ UNCHANGED <<ffKind, ffUp, ffValue, ffAt, ffPick, ffProbe, ffReply>>
    BY <1>7 DEF AppRemoves
  <2>2. \A x : Chain(x)' = Chain(x)
    BY <2>1, SameChains
  <2>3. PageHolds
    BY DEF FillInv
  <2>4. ffHere' \subseteq Elements
    BY <2>1, <2>3 DEF PageHolds
  <2>5. \A x \in ffHere' : Chain(x) \subseteq ffHere'
    <3> SUFFICES ASSUME NEW x \in ffHere', NEW a \in Chain(x) PROVE a \in ffHere'
      OBVIOUS
    <3>1. x \in ffHere /\ x \in Elements /\ e \notin Chain(x)
      BY <2>1, <2>3 DEF PageHolds
    <3>2. a \in ffHere
      BY <2>3, <3>1 DEF PageHolds
    <3>3. Chain(a) \subseteq Chain(x)
      BY <2>3, <3>1, ChainsNest DEF PageHolds
    <3> QED BY <2>1, <3>1, <3>2, <3>3
  <2>6. PageHolds'
    BY <2>1, <2>2, <2>3, <2>4, <2>5 DEF PageHolds, UpTree
  <2>7. ffSame' \in BOOLEAN
    BY <2>1
  <2>8. \A x \in Elements \ gone : x \in ffHere' <=> x \in ffHere
    BY <2>1
  <2> HIDE DEF gone
  <2>9. PromiseKept'
    BY <2>1, <2>4, <2>8, StillPromised
  <2> QED BY <2>1, <2>4, <2>6, <2>7, <2>9 DEF FillInv, FillTypeOK, FillStaysInForm, FilledIsStored
<1>8. CASE AppPutsBack
  <2> DEFINE back == Elements \ ffHere
  <2>1. /\ ffHere' = Elements /\ ffSame' = (ffSame /\ BehindTheForm(back))
        /\ ffAt \in {"idle", "probing", "answered", "sent"}
        /\ UNCHANGED <<ffKind, ffUp, ffValue, ffAt, ffPick, ffProbe, ffReply>>
    BY <1>8 DEF AppPutsBack
  <2>2. \A x : Chain(x)' = Chain(x)
    BY <2>1, SameChains
  <2>3. PageHolds
    BY DEF FillInv
  <2>4. \A x \in Elements : Chain(x) \subseteq Elements
    BY <2>3, ChainIs DEF PageHolds
  <2>5. PageHolds'
    BY <2>1, <2>2, <2>3, <2>4 DEF PageHolds, UpTree
  <2>6. ffSame' \in BOOLEAN /\ ffHere' \subseteq Elements
    BY <2>1
  <2>7. \A x \in Elements \ back : x \in ffHere' <=> x \in ffHere
    BY <2>1
  <2> HIDE DEF back
  <2>8. PromiseKept'
    BY <2>1, <2>6, <2>7, StillPromised
  <2> QED BY <2>1, <2>5, <2>6, <2>8 DEF FillInv, FillTypeOK, FillStaysInForm, FilledIsStored
<1> QED BY <1>1, <1>2, <1>3, <1>4, <1>5, <1>6, <1>7, <1>8 DEF FillNext

LEMMA FillShows == ASSUME FillInv PROVE FillTypeOK /\ PickComesBack /\ FillStaysInForm /\ FilledIsStored
BY PathLeadsBack DEF FillInv, PickComesBack

-----------------------------------------------------------------------------
(* Sketches                                                                *)

\* A sketch with its own elements only, and with links that start at one of them.
Whole(s) ==
  /\ s \in Sketch /\ \A e \in s.elements : e.on = s.id
  /\ s.links \subseteq {e.id : e \in s.elements}

\* ... that is one of the first n the server numbered.
Numbered(s, n) == Whole(s) /\ s.id <= n

\* What the page has of a sketch: the sheet and what it goes back to are of one sketch, and so
\* is all that is in the bin.
SheetWhole(active, saved, bin, n) ==
  /\ bin \subseteq Element
  /\ \/ active = NoSketch /\ saved = NoSketch
     \/ /\ Numbered(active, n) /\ Numbered(saved, n) /\ saved.id = active.id
        /\ \A e \in bin : e.on = active.id

SketchFileSet == [sketch : Sketch, scrapped : BOOLEAN]
FilesWhole ==
  /\ sketchFiles \in Seq(SketchFileSet) /\ Len(sketchFiles) <= MaxSketches
  /\ \A i \in DOMAIN sketchFiles : Whole(sketchFiles[i].sketch) /\ sketchFiles[i].sketch.id = i

\* A request has a sketch the server has made, but for the one that asks for a new one.
SketchCallSet == [kind : CallKinds, body : Sketch \cup {NoSketch}, served : BOOLEAN, n : Nat]
CallWhole(c, n) == c \in SketchCallSet /\ (c.kind # "new" \/ c.served => Numbered(c.body, n))

SketchCounters ==
  /\ selectedElement \in 0..MaxElements
  /\ elementSeq \in 0..MaxElements /\ drawn \in 0..MaxElements /\ sketchAsked \in 0..MaxSketchCalls

SketchInv ==
  /\ FilesWhole /\ SketchCounters
  /\ SheetWhole(activeSketch, savedSketch, scrapBin, Len(sketchFiles))
  /\ \A c \in sketchCalls : CallWhole(c, Len(sketchFiles))

LEMMA SketchStart == SketchInit => SketchInv
<1> SUFFICES ASSUME SketchInit PROVE SketchInv
  OBVIOUS
<1>1. FilesWhole
  BY SketchAssumption DEF SketchInit, FilesWhole
<1>2. SketchCounters
  BY SketchAssumption DEF SketchInit, SketchCounters
<1> QED BY <1>1, <1>2 DEF SketchInit, SketchInv, SheetWhole

\* A change on the sheet that leaves it whole.
LEMMA SheetMoves ==
  ASSUME SketchInv, SketchCounters', UNCHANGED <<sketchFiles, sketchCalls>>,
         SheetWhole(activeSketch', savedSketch', scrapBin', Len(sketchFiles))
  PROVE  SketchInv'
BY DEF SketchInv, FilesWhole

LEMMA SheetOpened ==
  ASSUME SketchInv, Opened
  PROVE  /\ Numbered(activeSketch, Len(sketchFiles)) /\ Numbered(savedSketch, Len(sketchFiles))
         /\ savedSketch.id = activeSketch.id /\ scrapBin \subseteq Element
         /\ \A e \in scrapBin : e.on = activeSketch.id
BY DEF SketchInv, SheetWhole, Opened

\* The sheet with other elements and links of its own.
LEMMA SheetRedrawn ==
  ASSUME SketchInv, Opened, NEW es \in SUBSET Element, NEW ls, NEW bin \in SUBSET Element,
         \A e \in es \cup bin : e.on = activeSketch.id, ls \subseteq {e.id : e \in es}
  PROVE  SheetWhole([activeSketch EXCEPT !.elements = es, !.links = ls], savedSketch, bin, Len(sketchFiles))
<1> DEFINE s == [activeSketch EXCEPT !.elements = es, !.links = ls]
<1>1. activeSketch \in Sketch /\ activeSketch.id <= Len(sketchFiles) /\ activeSketch.id \in 1..MaxSketches
  BY SheetOpened DEF Numbered, Whole, Sketch
<1>2. \A e \in Element : e.id \in 1..MaxElements
  BY DEF Element
<1>3. ls \in SUBSET (1..MaxElements)
  BY <1>2
<1>4. s \in Sketch /\ s.id = activeSketch.id /\ s.elements = es /\ s.links = ls
  BY <1>1, <1>3 DEF Sketch
<1>5. Numbered(s, Len(sketchFiles))
  <2> HIDE DEF s
  <2> QED BY <1>1, <1>4 DEF Numbered, Whole
<1> HIDE DEF s
<1>6. SheetWhole(s, savedSketch, bin, Len(sketchFiles))
  BY <1>4, <1>5, SheetOpened DEF SheetWhole
<1> QED BY <1>6 DEF s

LEMMA ActiveIs ==
  ASSUME SketchInv, Opened
  PROVE  /\ activeSketch \in Sketch
         /\ activeSketch.elements \in SUBSET Element /\ activeSketch.links \in SUBSET (1..MaxElements)
         /\ activeSketch.id \in 1..MaxSketches
         /\ \A e \in activeSketch.elements : e.on = activeSketch.id
         /\ activeSketch.links \subseteq {e.id : e \in activeSketch.elements}
         /\ activeSketch = [activeSketch EXCEPT !.elements = activeSketch.elements, !.links = activeSketch.links]
BY SheetOpened DEF Numbered, Whole, Sketch

LEMMA ChangedOK == ASSUME SketchInv, NEW id, Opened, Changed(id) PROVE SketchInv'
<1> DEFINE Moved(e) == IF e.id = id THEN [e EXCEPT !.at = 1] ELSE e
           es == {Moved(e) : e \in activeSketch.elements}
<1>1. \A e \in Element : Moved(e) \in Element /\ Moved(e).id = e.id /\ Moved(e).on = e.on
  BY DEF Element
<1>2. activeSketch' = [activeSketch EXCEPT !.elements = es, !.links = activeSketch.links]
  BY ActiveIs DEF Changed, Sketch
<1> HIDE DEF Moved
<1>3. es \in SUBSET Element /\ \A e \in es : e.on = activeSketch.id
  BY <1>1, ActiveIs
<1>4. activeSketch.links \subseteq {e.id : e \in es}
  <2> SUFFICES ASSUME NEW l \in activeSketch.links PROVE \E e \in es : e.id = l
    OBVIOUS
  <2>1. PICK e \in activeSketch.elements : e.id = l
    BY ActiveIs
  <2>2. Moved(e) \in es /\ Moved(e).id = l
    BY <1>1, <2>1, ActiveIs
  <2> QED BY <2>2
<1> HIDE DEF es
<1>5. SheetWhole(activeSketch', savedSketch, scrapBin, Len(sketchFiles))
  BY <1>2, <1>3, <1>4, SheetRedrawn, SheetOpened
<1>6. SketchCounters' /\ UNCHANGED <<sketchFiles, savedSketch, scrapBin, sketchCalls>>
  BY DEF Changed, SketchInv, SketchCounters
<1> QED BY <1>5, <1>6, SheetMoves

LEMMA AddOK == SketchInv /\ addElement => SketchInv'
<1> SUFFICES ASSUME SketchInv, addElement PROVE SketchInv'
  OBVIOUS
<1> DEFINE new == [id |-> elementSeq + 1, at |-> 0, born |-> drawn + 1, on |-> activeSketch.id]
           es == activeSketch.elements \cup {new}
<1>1. /\ Opened /\ elementSeq \in 0..MaxElements /\ drawn \in 0..MaxElements
      /\ elementSeq < MaxElements /\ drawn < MaxElements /\ MaxElements \in Nat
  BY SketchAssumption DEF addElement, SketchInv, SketchCounters
<1>2. new \in Element /\ new.on = activeSketch.id
  BY <1>1, ActiveIs DEF Element
<1>3. activeSketch' = [activeSketch EXCEPT !.elements = es, !.links = activeSketch.links]
  BY <1>1, ActiveIs DEF addElement, Sketch
<1> HIDE DEF new
<1>4. SheetWhole(activeSketch', savedSketch, scrapBin, Len(sketchFiles))
  <2>1. es \in SUBSET Element /\ \A e \in es : e.on = activeSketch.id
    BY <1>1, <1>2, ActiveIs
  <2>2. activeSketch.links \subseteq {e.id : e \in es}
    BY <1>1, ActiveIs
  <2> HIDE DEF es
  <2> QED BY <1>1, <1>3, <2>1, <2>2, SheetRedrawn, SheetOpened
<1>5. SketchCounters' /\ UNCHANGED <<sketchFiles, savedSketch, scrapBin, sketchCalls>>
  BY <1>1, SketchAssumption DEF addElement, SketchInv, SketchCounters
<1> QED BY <1>4, <1>5, SheetMoves

LEMMA ScrapOK == SketchInv /\ scrapSelected => SketchInv'
<1> SUFFICES ASSUME SketchInv, scrapSelected PROVE SketchInv'
  OBVIOUS
<1> DEFINE es == {e \in activeSketch.elements : e.id # selectedElement}
           ls == activeSketch.links \ {selectedElement}
<1>1. Opened
  BY DEF scrapSelected, ElementSelected
<1>2. activeSketch' = [activeSketch EXCEPT !.elements = es, !.links = ls]
  BY DEF scrapSelected, LinksWithout
<1>3. PICK e \in activeSketch.elements : scrapBin' = scrapBin \cup {e}
  BY DEF scrapSelected
<1>4. es \in SUBSET Element /\ ls \subseteq {x.id : x \in es}
  BY <1>1, ActiveIs
<1>5. scrapBin' \in SUBSET Element /\ \A x \in es \cup scrapBin' : x.on = activeSketch.id
  BY <1>1, <1>3, ActiveIs, SheetOpened
<1> HIDE DEF es, ls
<1>6. SheetWhole(activeSketch', savedSketch, scrapBin', Len(sketchFiles))
  BY <1>1, <1>2, <1>4, <1>5, SheetRedrawn
<1>7. SketchCounters' /\ UNCHANGED <<sketchFiles, savedSketch, sketchCalls>>
  BY SketchAssumption DEF scrapSelected, SketchInv, SketchCounters
<1> QED BY <1>6, <1>7, SheetMoves

LEMMA RestoreOK == ASSUME SketchInv, NEW x \in scrapBin, restoreScrapped(x) PROVE SketchInv'
<1> DEFINE es == activeSketch.elements \cup {x}
<1>1. Opened
  BY DEF restoreScrapped
<1>2. activeSketch' = [activeSketch EXCEPT !.elements = es, !.links = activeSketch.links]
  BY <1>1, ActiveIs DEF restoreScrapped, Sketch
<1>3. es \in SUBSET Element /\ activeSketch.links \subseteq {e.id : e \in es}
  BY <1>1, ActiveIs, SheetOpened
<1>4. scrapBin' \in SUBSET Element /\ \A e \in es \cup scrapBin' : e.on = activeSketch.id
  BY <1>1, ActiveIs, SheetOpened DEF restoreScrapped
<1> HIDE DEF es
<1>5. SheetWhole(activeSketch', savedSketch, scrapBin', Len(sketchFiles))
  BY <1>1, <1>2, <1>3, <1>4, SheetRedrawn
<1>6. SketchCounters' /\ UNCHANGED <<sketchFiles, savedSketch, sketchCalls>>
  BY DEF restoreScrapped, SketchInv, SketchCounters
<1> QED BY <1>5, <1>6, SheetMoves

LEMMA LinksOK == SketchInv /\ (setElementLink \/ clearElementLink) => SketchInv'
<1> SUFFICES ASSUME SketchInv, setElementLink \/ clearElementLink PROVE SketchInv'
  OBVIOUS
<1>1. Opened /\ selectedElement \in {e.id : e \in activeSketch.elements}
  BY DEF setElementLink, clearElementLink, ElementSelected, Ids
<1>2. PICK ls : /\ activeSketch' = [activeSketch EXCEPT !.links = ls]
                /\ ls \subseteq activeSketch.links \cup {selectedElement}
  <2>1. CASE setElementLink
    BY <2>1 DEF setElementLink
  <2>2. CASE clearElementLink
    BY <2>2 DEF clearElementLink
  <2> QED BY <2>1, <2>2
<1>3. activeSketch' = [activeSketch EXCEPT !.elements = activeSketch.elements, !.links = ls]
  BY <1>1, <1>2, ActiveIs DEF Sketch
<1>4. ls \subseteq {e.id : e \in activeSketch.elements}
  BY <1>1, <1>2, ActiveIs
<1>5. SheetWhole(activeSketch', savedSketch, scrapBin, Len(sketchFiles))
  BY <1>1, <1>3, <1>4, ActiveIs, SheetRedrawn, SheetOpened
<1>6. SketchCounters' /\ UNCHANGED <<sketchFiles, savedSketch, scrapBin, sketchCalls>>
  BY DEF setElementLink, clearElementLink, SketchInv, SketchCounters
<1> QED BY <1>5, <1>6, SheetMoves

\* More files keep what the page has.
LEMMA NumbersGrow ==
  ASSUME NEW n \in Nat, NEW m \in Nat, n <= m
  PROVE  /\ \A s : Numbered(s, n) => Numbered(s, m)
         /\ \A a, s, b : SheetWhole(a, s, b, n) => SheetWhole(a, s, b, m)
         /\ \A c : CallWhole(c, n) => CallWhole(c, m)
<1>1. \A s : Numbered(s, n) => Numbered(s, m)
  BY SketchAssumption DEF Numbered, Whole, Sketch
<1> QED BY <1>1 DEF SheetWhole, CallWhole

LEMMA AskSketchOK ==
  ASSUME SketchInv, NEW kind \in CallKinds, NEW body \in Sketch \cup {NoSketch},
         kind # "new" => Numbered(body, Len(sketchFiles)), AskSketch(kind, body)
  PROVE  SketchInv'
<1> DEFINE c == [kind |-> kind, body |-> body, served |-> FALSE, n |-> sketchAsked]
<1>1. /\ sketchAsked \in 0..MaxSketchCalls /\ sketchAsked < MaxSketchCalls /\ MaxSketchCalls \in Nat
      /\ sketchAsked' = sketchAsked + 1 /\ sketchCalls' = sketchCalls \cup {c}
      /\ UNCHANGED <<sketchFiles, sheetCopy, elementSeq, drawn>>
  BY SketchAssumption DEF AskSketch, SketchInv, SketchCounters
<1>2. CallWhole(c, Len(sketchFiles))
  BY <1>1 DEF CallWhole, SketchCallSet
<1> HIDE DEF c
<1>3. SketchCounters'
  BY <1>1 DEF SketchInv, SketchCounters, sheetCopy
<1> QED BY <1>1, <1>2, <1>3 DEF SketchInv, FilesWhole, sheetCopy

LEMMA FileNumbered ==
  ASSUME SketchInv, NEW i \in DOMAIN sketchFiles
  PROVE  /\ Numbered(sketchFiles[i].sketch, Len(sketchFiles)) /\ sketchFiles[i].sketch \in Sketch
         /\ sketchFiles[i].sketch.id = i /\ sketchFiles[i] \in SketchFileSet
<1>1. sketchFiles \in Seq(SketchFileSet) /\ Whole(sketchFiles[i].sketch) /\ sketchFiles[i].sketch.id = i
  BY DEF SketchInv, FilesWhole
<1>2. i \in Nat /\ i <= Len(sketchFiles) /\ sketchFiles[i] \in SketchFileSet
  BY <1>1
<1> QED BY <1>1, <1>2 DEF Numbered, Whole

LEMMA SketchAsksOK ==
  ASSUME SketchInv,
         newSketch \/ save \/ \E i \in DOMAIN sketchFiles : openSketch(i) \/ scrapSketch(i) \/ restoreSketch(i)
  PROVE  SketchInv'
<1>1. CASE newSketch
  BY <1>1, AskSketchOK DEF newSketch, CallKinds
<1>2. CASE save
  BY <1>2, AskSketchOK, SheetOpened, ActiveIs DEF save, CallKinds
<1>3. ASSUME NEW i \in DOMAIN sketchFiles, openSketch(i) \/ scrapSketch(i) \/ restoreSketch(i)
      PROVE  SketchInv'
  <2>1. PICK kind \in CallKinds : AskSketch(kind, sketchFiles[i].sketch)
    BY <1>3 DEF openSketch, scrapSketch, restoreSketch, CallKinds
  <2> QED BY <2>1, AskSketchOK, FileNumbered
<1> QED BY <1>1, <1>2, <1>3

LEMMA ServedOK == ASSUME SketchInv, NEW c \in sketchCalls, SketchServed(c) PROVE SketchInv'
<1> DEFINE n == Len(sketchFiles)
           fresh == [id |-> n + 1, elements |-> {}, links |-> {}]
           i == IF c.kind = "new" THEN n + 1 ELSE c.body.id
           d == [c EXCEPT !.body = sketchFiles'[i].sketch, !.served = TRUE]
<1>1. /\ c \in SketchCallSet /\ c.served = FALSE /\ CallWhole(c, n)
      /\ sketchFiles \in Seq(SketchFileSet) /\ n \in Nat /\ n <= MaxSketches /\ MaxSketches \in Nat
      /\ \A k \in DOMAIN sketchFiles : Whole(sketchFiles[k].sketch) /\ sketchFiles[k].sketch.id = k
      /\ c.kind = "new" => n < MaxSketches
      /\ sketchCalls' = (sketchCalls \ {c}) \cup {d}
      /\ UNCHANGED <<sheetCopy, elementSeq, drawn, sketchAsked>>
  <2>1. c \in SketchCallSet /\ CallWhole(c, n)
    BY DEF SketchInv, CallWhole
  <2>2. c.served = FALSE
    BY <2>1 DEF SketchServed, SketchCallSet
  <2> QED BY <2>1, <2>2, SketchAssumption DEF SketchInv, FilesWhole, SketchServed
<1>2. c.kind # "new" => Numbered(c.body, n) /\ i \in DOMAIN sketchFiles
  BY <1>1 DEF CallWhole, Numbered, Whole, Sketch
<1>3. /\ sketchFiles' \in Seq(SketchFileSet) /\ Len(sketchFiles') \in {n, n + 1} /\ Len(sketchFiles') <= MaxSketches
      /\ i \in DOMAIN sketchFiles'
      /\ \A k \in DOMAIN sketchFiles' : Whole(sketchFiles'[k].sketch) /\ sketchFiles'[k].sketch.id = k
  <2>1. CASE c.kind = "new"
    <3> DEFINE file == [sketch |-> fresh, scrapped |-> FALSE]
    <3>1. sketchFiles' = Append(sketchFiles, file) /\ i = n + 1
      BY <2>1 DEF SketchServed
    <3>2. file \in SketchFileSet /\ Whole(fresh) /\ fresh.id = n + 1 /\ file.sketch = fresh
      BY <1>1, <2>1 DEF SketchFileSet, Whole, Sketch
    <3> HIDE DEF file, fresh, i
    <3>3. /\ sketchFiles' \in Seq(SketchFileSet) /\ Len(sketchFiles') = n + 1 /\ sketchFiles'[n + 1] = file
          /\ \A k \in DOMAIN sketchFiles : sketchFiles'[k] = sketchFiles[k]
          /\ \A k \in DOMAIN sketchFiles' : k \in DOMAIN sketchFiles \/ k = n + 1
          /\ n + 1 \in DOMAIN sketchFiles'
      BY <1>1, <3>1, <3>2, AppendIs
    <3> QED BY <1>1, <2>1, <3>1, <3>2, <3>3
  <2>2. CASE c.kind = "open"
    BY <1>1, <1>2, <2>2 DEF SketchServed
  <2>3. ASSUME NEW f \in SketchFileSet, Whole(f.sketch), f.sketch.id = i, i \in DOMAIN sketchFiles,
               sketchFiles' = [sketchFiles EXCEPT ![i] = f]
        PROVE  <1>3!1 /\ <1>3!2 /\ <1>3!3
    <3> HIDE DEF i
    <3>1. \A k \in DOMAIN sketchFiles : sketchFiles'[k] = IF k = i THEN f ELSE sketchFiles[k]
      BY <1>1, <2>3
    <3>2. sketchFiles' \in Seq(SketchFileSet) /\ Len(sketchFiles') = n /\ DOMAIN sketchFiles' = DOMAIN sketchFiles
      BY <1>1, <2>3
    <3> QED BY <1>1, <2>3, <3>1, <3>2
  <2>4. CASE c.kind = "save"
    <3> DEFINE f == [sketchFiles[i] EXCEPT !.sketch = c.body]
    <3>1. i \in DOMAIN sketchFiles /\ Whole(c.body) /\ c.body.id = i /\ c.body \in Sketch
      BY <1>2, <2>4 DEF Numbered, Whole
    <3>2. f \in SketchFileSet /\ f.sketch = c.body
      BY <3>1, FileNumbered DEF SketchFileSet
    <3>3. sketchFiles' = [sketchFiles EXCEPT ![i] = f]
      BY <2>4, <3>1 DEF SketchServed
    <3> HIDE DEF f, i
    <3> QED BY <2>3, <3>1, <3>2, <3>3
  <2>5. CASE c.kind \in {"scrap", "restore"}
    <3> DEFINE f == [sketchFiles[i] EXCEPT !.scrapped = (c.kind = "scrap")]
    <3>1. i \in DOMAIN sketchFiles
      BY <1>2, <2>5
    <3>2. f \in SketchFileSet /\ f.sketch = sketchFiles[i].sketch
      BY <3>1, FileNumbered DEF SketchFileSet
    <3>3. sketchFiles' = [sketchFiles EXCEPT ![i] = f]
      BY <2>5, <3>1 DEF SketchServed
    <3> HIDE DEF f, i
    <3> QED BY <1>1, <2>3, <3>1, <3>2, <3>3
  <2> QED BY <1>1, <2>1, <2>2, <2>4, <2>5 DEF SketchCallSet, CallKinds
<1>4. FilesWhole'
  BY <1>3 DEF FilesWhole
<1>5. Len(sketchFiles') \in Nat /\ n <= Len(sketchFiles')
  BY <1>1, <1>3
<1>6. CallWhole(d, Len(sketchFiles'))
  <2> DEFINE body == sketchFiles'[i].sketch
  <2>1. Numbered(body, Len(sketchFiles'))
    BY <1>3 DEF Numbered
  <2>2. d = [c EXCEPT !.body = body, !.served = TRUE] /\ body \in Sketch
    BY <2>1 DEF Numbered, Whole
  <2> HIDE DEF body, d
  <2>3. d \in SketchCallSet /\ d.body = body
    BY <1>1, <2>2 DEF SketchCallSet
  <2> QED BY <2>1, <2>3 DEF CallWhole
<1> HIDE DEF d
<1>7. \A b \in sketchCalls' : CallWhole(b, Len(sketchFiles'))
  BY <1>1, <1>5, <1>6, NumbersGrow DEF SketchInv
<1>8. SheetWhole(activeSketch', savedSketch', scrapBin', Len(sketchFiles'))
  BY <1>1, <1>5, NumbersGrow DEF SketchInv, sheetCopy
<1> QED BY <1>1, <1>4, <1>7, <1>8 DEF SketchInv, SketchCounters, sheetCopy

\* An answer lands or does not: the sheet is as it was, closed, or the answer's.
LEMMA SheetAnswered ==
  ASSUME SketchInv, NEW c \in sketchCalls, sketchCalls' = sketchCalls \ {c},
         UNCHANGED <<sketchFiles, elementSeq, drawn, sketchAsked>>,
         SheetClosed(c) \/ UNCHANGED sheetCopy \/ (c.served /\ SheetReplaced(c))
  PROVE  SketchInv'
<1> DEFINE n == Len(sketchFiles)
<1>0. /\ CallWhole(c, n) /\ SheetWhole(activeSketch, savedSketch, scrapBin, n)
      /\ selectedElement \in 0..MaxElements /\ 0 \in 0..MaxElements
  BY SketchAssumption DEF SketchInv, SketchCounters
<1>1. SheetWhole(activeSketch', savedSketch', scrapBin', n) /\ selectedElement' \in 0..MaxElements
  <2>1. CASE UNCHANGED sheetCopy
    BY <1>0, <2>1 DEF sheetCopy
  <2>2. CASE SheetClosed(c)
    BY <1>0, <2>2 DEF SheetClosed, sheetCopy, SheetWhole
  <2>3. CASE c.served /\ SheetReplaced(c)
    <3>1. Numbered(c.body, n)
      BY <1>0, <2>3 DEF CallWhole
    <3> QED BY <1>0, <2>3, <3>1 DEF SheetReplaced, SavedAfter, BinAfter, SheetWhole
  <2> QED BY <2>1, <2>2, <2>3
<1> QED BY <1>1 DEF SketchInv, SketchCounters, FilesWhole

LEMMA SketchStep == SketchInv /\ SketchNext => SketchInv'
<1> SUFFICES ASSUME SketchInv, SketchNext PROVE SketchInv'
  OBVIOUS
<1>1. CASE addElement
  BY <1>1, AddOK
<1>2. ASSUME Opened, NEW id \in Ids, selectElement(id) \/ DragElement(id) PROVE SketchInv'
  <2>1. CASE selectElement(id)
    <3>1. id \in 0..MaxElements
      BY <1>2, ActiveIs DEF Ids, Element
    <3> QED BY <2>1, <3>1, SheetMoves DEF selectElement, SketchInv, SketchCounters
  <2>2. CASE DragElement(id)
    BY <1>2, <2>2, ChangedOK DEF DragElement
  <2> QED BY <1>2, <2>1, <2>2
<1>3. CASE EditSelected
  BY <1>3, ChangedOK DEF EditSelected, ElementSelected
<1>4. CASE setElementLink \/ clearElementLink
  BY <1>4, LinksOK
<1>5. CASE PressDelete
  BY <1>5, ScrapOK DEF PressDelete
<1>6. ASSUME NEW e \in scrapBin, restoreScrapped(e) PROVE SketchInv'
  BY <1>6, RestoreOK
<1>7. CASE printed
  <2>1. /\ Opened /\ activeSketch' = savedSketch /\ scrapBin' = {} /\ selectedElement' = 0
        /\ UNCHANGED <<sketchFiles, savedSketch, elementSeq, drawn, sketchAsked, sketchCalls>>
    BY <1>7 DEF printed
  <2>2. SheetWhole(activeSketch', savedSketch', scrapBin', Len(sketchFiles))
    BY <2>1, SheetOpened DEF SheetWhole
  <2>3. SketchCounters'
    BY <2>1, SketchAssumption DEF SketchInv, SketchCounters
  <2> QED BY <2>1, <2>2, <2>3, SheetMoves
<1>8. CASE newSketch \/ save \/ \E i \in DOMAIN sketchFiles : openSketch(i) \/ scrapSketch(i) \/ restoreSketch(i)
  BY <1>8, SketchAsksOK
<1>9. ASSUME NEW c \in sketchCalls, SketchServed(c) PROVE SketchInv'
  BY <1>9, ServedOK
<1>10. ASSUME NEW c \in sketchCalls, SketchLands(c) PROVE SketchInv'
  <2>1. SheetClosed(c) \/ UNCHANGED sheetCopy \/ (c.served /\ SheetReplaced(c))
    BY <1>10 DEF SketchLands
  <2> QED BY <1>10, <2>1, SheetAnswered DEF SketchLands
<1>11. ASSUME NEW c \in sketchCalls, SketchRefused(c) PROVE SketchInv'
  BY <1>11, SheetAnswered DEF SketchRefused
<1>12. CASE SketchReload
  BY <1>12, SketchAssumption DEF SketchReload, SketchInv, SketchCounters, SheetWhole, FilesWhole
<1> QED BY <1>1, <1>2, <1>3, <1>4, <1>5, <1>6, <1>7, <1>8, <1>9, <1>10, <1>11, <1>12 DEF SketchNext

LEMMA SketchStutter == SketchInv /\ UNCHANGED sketchVars => SketchInv'
BY DEF SketchInv, sketchVars, sheetCopy, SketchCounters, FilesWhole

LEMMA SketchShows ==
  SketchInv => SketchTypeOK /\ PrintedIsThisSheet /\ DrawnWhereItStands /\ HotspotsHaveElements
<1> SUFFICES ASSUME SketchInv
             PROVE  SketchTypeOK /\ PrintedIsThisSheet /\ DrawnWhereItStands /\ HotspotsHaveElements
  OBVIOUS
<1>1. {activeSketch, savedSketch} \subseteq Sketch \cup {NoSketch} /\ scrapBin \subseteq Element
  BY DEF SketchInv, SheetWhole, Numbered, Whole
<1>2. \A i \in DOMAIN sketchFiles : sketchFiles[i].sketch \in Sketch /\ sketchFiles[i].scrapped \in BOOLEAN
  BY FileNumbered DEF SketchFileSet
<1>3. \A c \in sketchCalls : c.kind \in CallKinds /\ c.body \in Sketch \cup {NoSketch} /\ c.served \in BOOLEAN
  BY DEF SketchInv, CallWhole, SketchCallSet
<1>4. SketchTypeOK
  BY <1>1, <1>2, <1>3 DEF SketchTypeOK, SketchInv, SketchCounters
<1>5. PrintedIsThisSheet
  BY NoSketchIsNone DEF PrintedIsThisSheet, SketchInv, SheetWhole, Opened, Numbered, Whole
<1>6. DrawnWhereItStands
  BY SheetOpened, ActiveIs DEF DrawnWhereItStands, SketchInv, FilesWhole, Whole
<1>7. HotspotsHaveElements
  BY ActiveIs DEF HotspotsHaveElements, SketchInv, FilesWhole, Whole
<1> QED BY <1>4, <1>5, <1>6, <1>7

-----------------------------------------------------------------------------
(* A prompt in its file                                                    *)

LEMMA LowestOf == ASSUME NEW S, S \subseteq Nat, S # {} PROVE Min(S) \in S /\ \A y \in S : Min(S) <= y
<1>1. PICK x \in S : \A y \in S : x <= y
  BY LeastOf
<1> QED BY <1>1 DEF Min

LEMMA LowestIs == ASSUME NEW S, S \subseteq Nat, NEW x \in S, \A y \in S : x <= y PROVE Min(S) = x
<1>1. Min(S) \in S /\ \A y \in S : Min(S) <= y
  BY LowestOf
<1>2. x \in Nat /\ Min(S) \in Nat /\ Min(S) <= x /\ x <= Min(S)
  BY <1>1
<1> QED BY <1>2

LEMMA HighestIs == ASSUME NEW S, S \subseteq Nat, NEW x \in S, \A y \in S : y <= x PROVE Max(S) = x
<1>1. Max(S) \in S /\ \A y \in S : Max(S) >= y
  BY DEF Max
<1>2. x \in Nat /\ Max(S) \in Nat /\ Max(S) <= x /\ x <= Max(S)
  BY <1>1
<1> QED BY <1>2

LEMMA SameSeq ==
  ASSUME NEW S, NEW s \in Seq(S), NEW t \in Seq(S), Len(s) = Len(t), \A i \in 1 .. Len(s) : s[i] = t[i]
  PROVE  s = t
OBVIOUS

LEMMA Joins ==
  ASSUME NEW S, NEW s \in Seq(S), NEW t \in Seq(S), NEW m, NEW n, m = Len(s), n = Len(t)
  PROVE  /\ s \o t \in Seq(S) /\ Len(s \o t) = m + n /\ m \in Nat /\ n \in Nat
         /\ \A i \in 1 .. m : (s \o t)[i] = s[i]
         /\ \A i \in 1 .. n : (s \o t)[m + i] = t[i]
OBVIOUS

LEMMA JoinsOf ==
  ASSUME NEW S, NEW s \in Seq(S), NEW t \in Seq(S)
  PROVE  /\ s \o t \in Seq(S) /\ Len(s \o t) = Len(s) + Len(t)
         /\ \A i \in 1 .. Len(s) : (s \o t)[i] = s[i]
         /\ \A i \in 1 .. Len(t) : (s \o t)[Len(s) + i] = t[i]
OBVIOUS

LEMMA Stretch ==
  ASSUME NEW S, NEW s \in Seq(S), NEW a \in Nat, NEW b \in Nat, 1 <= a, a <= b + 1, b <= Len(s)
  PROVE  /\ SubSeq(s, a, b) \in Seq(S) /\ Len(SubSeq(s, a, b)) = b - a + 1
         /\ \A i \in 1 .. b - a + 1 : SubSeq(s, a, b)[i] = s[a + i - 1]
<1>1. SubSeq(s, a, b) = [i \in 1 .. b - a + 1 |-> s[a + i - 1]]
  OBVIOUS
<1>2. b - a + 1 \in Nat /\ \A i \in 1 .. b - a + 1 : a + i - 1 \in 1 .. Len(s)
  OBVIOUS
<1>3. \A i \in 1 .. b - a + 1 : s[a + i - 1] \in S
  BY <1>2
<1> QED BY <1>1, <1>2, <1>3

\* Every place of a set has its turn.
LEMMA TurnOf ==
  ASSUME NEW m \in Nat, NEW P \in SUBSET (1 .. m)
  PROVE  /\ IsFiniteSet(P) /\ Cardinality(P) \in Nat
         /\ \A n \in 1 .. Cardinality(P) : \E i \in P : Cardinality({j \in P : j <= i}) = n
<1>1. IsFiniteSet(1 .. m)
  BY FS_Interval
<1>2. IsFiniteSet(P) /\ Cardinality(P) \in Nat
  BY <1>1, FS_Subset, FS_CardinalityType
<1> SUFFICES ASSUME NEW n \in 1 .. Cardinality(P) PROVE \E i \in P : Cardinality({j \in P : j <= i}) = n
  BY <1>2
<1> DEFINE Up(i) == {j \in P : j <= i}
           S == {i \in P : Cardinality(Up(i)) >= n}
<1>3. \A i \in P : IsFiniteSet(Up(i)) /\ Cardinality(Up(i)) \in Nat
  BY <1>2, FS_Subset, FS_CardinalityType
<1>4. S # {}
  <2>1. P # {}
    BY <1>2, FS_EmptySet
  <2>2. Max(P) \in P /\ \A y \in P : Max(P) >= y
    BY <2>1, LastOf
  <2>3. Up(Max(P)) = P
    BY <2>2
  <2> QED BY <1>2, <2>2, <2>3
<1>5. S \subseteq Nat
  <2> SUFFICES ASSUME NEW i \in S PROVE i \in Nat
    OBVIOUS
  <2>1. i \in P
    OBVIOUS
  <2> HIDE DEF S
  <2> QED BY <2>1
<1>6. PICK i \in S : \A y \in S : i <= y
  BY <1>4, <1>5, LeastOf
<1>7. i \in P /\ Cardinality(Up(i)) >= n /\ Cardinality(Up(i)) \in Nat
  BY <1>3, <1>6
<1>8. ASSUME Cardinality(Up(i)) # n PROVE FALSE
  <2> DEFINE U == Up(i) \ {i}
  <2>1. Cardinality(U) = Cardinality(Up(i)) - 1 /\ IsFiniteSet(U)
    BY <1>3, <1>7, FS_RemoveElement
  <2>2. Cardinality(U) >= n /\ Cardinality(U) # 0
    BY <1>2, <1>7, <1>8, <2>1
  <2>3. U # {}
    BY <2>2, FS_EmptySet
  <2>4. U \in SUBSET (1 .. m)
    OBVIOUS
  <2> DEFINE k == Max(U)
  <2>5. k \in U /\ \A y \in U : k >= y
    BY <2>3, <2>4, LastOf
  <2>11. k \in P /\ k <= i /\ k # i
    BY <2>5
  <2> HIDE DEF k, U, Up
  <2>6. k \in P /\ k < i /\ k \in Nat /\ i \in Nat
    BY <1>7, <2>11
  <2> USE DEF U, Up
  <2>7. Up(k) = U
    <3>1. ASSUME NEW j \in U PROVE j \in Up(k)
      <4>1. k >= j /\ j \in P /\ j \in Nat
        BY <2>5, <3>1
      <4> QED BY <2>6, <4>1
    <3>2. ASSUME NEW j \in Up(k) PROVE j \in U
      BY <2>6, <3>2
    <3> QED BY <3>1, <3>2
  <2>8. k \in S
    BY <2>2, <2>6, <2>7
  <2>9. i <= k
    BY <1>6, <2>8
  <2> HIDE DEF k
  <2> QED BY <2>6, <2>9
<1> QED BY <1>7, <1>8

LEMMA OrderedPlaces ==
  ASSUME NEW m \in Nat, NEW P \in SUBSET (1 .. m), NEW c, c = Cardinality(P)
  PROVE  /\ c \in Nat /\ DOMAIN PlacesInOrder(P) = 1 .. c
         /\ \A n \in 1 .. c : PlacesInOrder(P)[n] \in P /\ Cardinality({j \in P : j <= PlacesInOrder(P)[n]}) = n
<1>1. c \in Nat /\ \A n \in 1 .. c : \E i \in P : Cardinality({j \in P : j <= i}) = n
  BY TurnOf
<1>2. PlacesInOrder(P) = [n \in 1 .. c |-> CHOOSE i \in P : Cardinality({j \in P : j <= i}) = n]
  BY DEF PlacesInOrder
<1> QED BY <1>1, <1>2

LEMMA PickedLines ==
  ASSUME NEW S, NEW s \in Seq(S), NEW P \in SUBSET (DOMAIN s)
  PROVE  LinesAt(s, P) \in Seq(S)
<1> DEFINE c == Cardinality(P)
           q == PlacesInOrder(P)
<1>1. Len(s) \in Nat /\ P \in SUBSET (1 .. Len(s))
  OBVIOUS
<1>2. c \in Nat /\ \A n \in 1 .. c : q[n] \in P
  BY <1>1, OrderedPlaces
<1>3. \A n \in 1 .. c : s[q[n]] \in S
  BY <1>2
<1>4. LinesAt(s, P) = [n \in 1 .. c |-> s[q[n]]]
  BY DEF LinesAt
<1> HIDE DEF c, q
<1> QED BY <1>2, <1>3, <1>4

LEMMA FlatOf == ASSUME NEW S, NEW b \in Seq(Seq(S)) PROVE FlattenSeq(b) \in Seq(S)
<1> DEFINE N == Len(b)
           Rec(f) == f = [i \in 1 .. N |-> IF i = 1 THEN b[i] ELSE f[i - 1] \o b[i]]
           Flat == CHOOSE f : Rec(f)
           P(n) == \E g \in [1 .. n -> Seq(S)] : \A i \in 1 .. n : g[i] = IF i = 1 THEN b[i] ELSE g[i - 1] \o b[i]
           bad == {n \in 0 .. N : ~ P(n)}
<1>0. N \in Nat /\ \A i \in 1 .. N : b[i] \in Seq(S)
  OBVIOUS
<1>1. ASSUME bad # {} PROVE FALSE
  <2>1. bad \subseteq Nat
    BY <1>0
  <2>2. PICK n \in bad : \A k \in bad : n <= k
    BY <1>1, <2>1, LeastOf
  <2>3. n # 0
    <3>1. P(0)
      <4> DEFINE g == [x \in 1 .. 0 |-> <<>>]
      <4>1. 1 .. 0 = {}
        OBVIOUS
      <4>2. g \in [1 .. 0 -> Seq(S)] /\ \A e \in 1 .. 0 : g[e] = IF e = 1 THEN b[e] ELSE g[e - 1] \o b[e]
        BY <4>1
      <4> QED BY <4>2
    <3> QED BY <3>1
  <2>4. n \in 1 .. N /\ n - 1 \in 0 .. N /\ P(n - 1)
    <3> HIDE DEF P
    <3>1. n \in 1 .. N /\ n - 1 \in 0 .. N /\ n - 1 < n
      BY <1>0, <2>2, <2>3
    <3>2. n - 1 \notin bad
      <4> HIDE DEF bad
      <4>1. n - 1 \in bad => n <= n - 1
        BY <2>2
      <4>2. n \in Nat
        BY <1>0, <3>1
      <4> QED BY <4>1, <4>2
    <3> QED BY <3>1, <3>2
  <2>5. PICK g \in [1 .. n - 1 -> Seq(S)] : \A i \in 1 .. n - 1 : g[i] = IF i = 1 THEN b[i] ELSE g[i - 1] \o b[i]
    BY <2>4
  <2> DEFINE last == IF n = 1 THEN b[n] ELSE g[n - 1] \o b[n]
             h == [i \in 1 .. n |-> IF i = n THEN last ELSE g[i]]
  <2>6. last \in Seq(S)
    <3>1. CASE n = 1
      BY <1>0, <2>4, <3>1
    <3>2. CASE n # 1
      <4>1. g[n - 1] \in Seq(S) /\ b[n] \in Seq(S)
        BY <1>0, <2>4, <3>2
      <4> QED BY <3>2, <4>1
    <3> QED BY <3>1, <3>2
  <2> HIDE DEF last
  <2>7. \A i \in 1 .. n : i = n \/ i \in 1 .. n - 1
    BY <1>0, <2>4
  <2>8. h \in [1 .. n -> Seq(S)]
    BY <2>6, <2>7
  <2>9. \A i \in 1 .. n : h[i] = IF i = 1 THEN b[i] ELSE h[i - 1] \o b[i]
    <3> SUFFICES ASSUME NEW i \in 1 .. n PROVE h[i] = IF i = 1 THEN b[i] ELSE h[i - 1] \o b[i]
      OBVIOUS
    <3>1. h[i] = IF i = 1 THEN b[i] ELSE g[i - 1] \o b[i]
      <4>1. CASE i = n
        BY <4>1 DEF last
      <4>2. CASE i # n
        <5>1. i \in 1 .. n - 1
          BY <2>7, <4>2
        <5>2. h[i] = g[i]
          BY <4>2
        <5> HIDE DEF h
        <5> QED BY <2>5, <5>1, <5>2
      <4> QED BY <4>1, <4>2
    <3>2. CASE i = 1
      BY <3>1, <3>2
    <3>3. CASE i # 1
      <4>1. i - 1 \in 1 .. n /\ i - 1 # n
        BY <1>0, <2>4, <3>3
      <4>2. h[i - 1] = g[i - 1]
        BY <4>1
      <4> HIDE DEF h
      <4> QED BY <3>1, <3>3, <4>2
    <3> QED BY <3>2, <3>3
  <2>10. P(n)
    BY <2>8, <2>9
  <2> QED BY <2>2, <2>10
<1>2. P(N)
  <2> HIDE DEF P
  <2>1. N \in 0 .. N
    BY <1>0
  <2> QED BY <1>1, <2>1
<1>3. PICK g \in [1 .. N -> Seq(S)] : \A i \in 1 .. N : g[i] = IF i = 1 THEN b[i] ELSE g[i - 1] \o b[i]
  BY <1>2
<1>4. Rec(g)
  BY <1>3
<1>5. Rec(Flat)
  BY <1>4
<1>6. FlattenSeq(b) = IF N = 0 THEN b ELSE Flat[N]
  BY DEF FlattenSeq
<1> DEFINE odd == {i \in 1 .. N : Flat[i] \notin Seq(S)}
<1> HIDE DEF Flat
<1>7. \A i \in 1 .. N : Flat[i] = IF i = 1 THEN b[i] ELSE Flat[i - 1] \o b[i]
  BY <1>5
<1> HIDE DEF Rec
<1>8. ASSUME odd # {} PROVE FALSE
  <2>1. odd \subseteq Nat
    BY <1>0
  <2>2. PICK i \in odd : \A k \in odd : i <= k
    BY <1>8, <2>1, LeastOf
  <2>3. i \in 1 .. N /\ i \in Nat /\ Flat[i] \notin Seq(S)
    BY <1>0, <2>2
  <2>4. i # 1
    BY <1>0, <1>7, <2>3
  <2>5. i - 1 \in 1 .. N /\ i - 1 < i
    BY <1>0, <2>3, <2>4
  <2>6. Flat[i - 1] \in Seq(S)
    <3>1. i - 1 \in odd => i <= i - 1
      BY <2>2
    <3>2. i - 1 \notin odd
      BY <2>5, <3>1
    <3> QED BY <2>5, <3>2
  <2>7. Flat[i - 1] \o b[i] \in Seq(S)
    BY <1>0, <2>3, <2>6
  <2> QED BY <1>7, <2>3, <2>4, <2>7
<1>9. N # 0 => Flat[N] \in Seq(S)
  BY <1>0, <1>8
<1> QED BY <1>0, <1>6, <1>9

\* A line of a prompt's file, whoever wrote it, and one that a person may have written.
LineKinds == {"blank", "rule", "key", "h1", "h2", "h3", "item", "prose", "doc", "field"}
LineNames == {"", "state", "scrappedFrom", "Requirement", "no requirement written yet", "Acceptance", "none given",
              "Context", "nothing surveyed yet", "Docs", "Rules", "work in this repo only", "Builds", "Notes",
              "Build b1", "Build b2", "Build b9", "started", "files touched", "word", "a1", "a2", "d1", "d9"}
LineValues == PromptStates \cup {"", "then", "never", "none"}
FileLine == [is : LineKinds, of : LineNames, val : LineValues]
Spoken == FileLine \ {NoRequirement}

BuildIds == {"b1", "b2", "b9"}
DocTexts == [of : LineNames, text : Seq(FileLine)]
BuildTexts == [id : BuildIds, started : LineValues, summary : Seq(FileLine)]
PromptTexts ==
  [state : PromptStates, scrappedFrom : PromptStates \cup {NotScrapped}, requirement : Seq(Spoken),
   acceptance : Seq(LineNames), docs : Seq(DocTexts), builds : Seq(BuildTexts)]

LEMMA LineIs ==
  ASSUME NEW is \in LineKinds, NEW of \in LineNames, NEW val \in LineValues
  PROVE  Line(is, of, val) \in FileLine
BY DEF Line, FileLine

LEMMA MarkedIs ==
  /\ \A of \in LineNames : H(1, of) = Line("h1", of, "") /\ H(2, of) = Line("h2", of, "") /\ H(3, of) = Line("h3", of, "")
  /\ \A of \in LineNames : H(1, of) \in FileLine /\ H(2, of) \in FileLine /\ H(3, of) \in FileLine
<1>1. \A of : H(1, of) = Line("h1", of, "") /\ H(2, of) = Line("h2", of, "") /\ H(3, of) = Line("h3", of, "")
  BY DEF H
<1>2. {"h1", "h2", "h3"} \subseteq LineKinds /\ "" \in LineValues
  BY DEF LineKinds, LineValues
<1> QED BY <1>1, <1>2, LineIs

LEMMA WrittenLines ==
  /\ Blank \in FileLine /\ Rule \in FileLine /\ NoRequirement \in FileLine /\ NoneGiven \in FileLine
  /\ \A of \in LineNames : Item(of) \in FileLine /\ Prose(of) \in FileLine /\ Line("doc", of, "") \in FileLine
  /\ \A val \in LineValues : /\ Line("field", "started", val) \in FileLine
                             /\ Line("key", "state", val) \in FileLine /\ Line("key", "scrappedFrom", val) \in FileLine
  /\ Line("field", "files touched", "none") \in FileLine
<1>1. /\ {"", "no requirement written yet", "none given", "started", "state", "scrappedFrom", "files touched"} \subseteq LineNames
      /\ {"", "none"} \subseteq LineValues
      /\ {"blank", "rule", "key", "item", "prose", "doc", "field"} \subseteq LineKinds
  BY DEF LineNames, LineValues, LineKinds
<1> QED BY <1>1, LineIs DEF Blank, Rule, NoRequirement, NoneGiven, Item, Prose

LEMMA BlankIs == /\ Blank # Rule /\ Blank # NoRequirement /\ Blank \in Spoken /\ Rule # NoRequirement
                 /\ \A of : H(1, of).is = "h1" /\ H(2, of).is = "h2" /\ H(3, of).is = "h3"
                 /\ Blank.is = "blank" /\ Rule.is = "rule" /\ NoRequirement.is = "prose"
                 /\ \A val : Line("key", "state", val).is = "key" /\ Line("key", "scrappedFrom", val).is = "key"
<1>1. \A is, of, val : Line(is, of, val).is = is
  BY DEF Line
<1>2. Blank.is = "blank" /\ Rule.is = "rule"
  BY <1>1 DEF Blank, Rule
<1>3. NoRequirement.is = "prose"
  BY <1>1 DEF NoRequirement, Prose
<1>4. \A of : H(1, of) = Line("h1", of, "") /\ H(2, of) = Line("h2", of, "") /\ H(3, of) = Line("h3", of, "")
  BY DEF H
<1>5. Blank # Rule /\ Blank # NoRequirement /\ Rule # NoRequirement
  BY <1>2, <1>3
<1>6. Blank \in FileLine
  BY WrittenLines
<1>7. \A of : H(1, of).is = "h1" /\ H(2, of).is = "h2" /\ H(3, of).is = "h3"
  <2> SUFFICES ASSUME NEW of PROVE H(1, of).is = "h1" /\ H(2, of).is = "h2" /\ H(3, of).is = "h3"
    OBVIOUS
  <2>1. Line("h1", of, "").is = "h1" /\ Line("h2", of, "").is = "h2" /\ Line("h3", of, "").is = "h3"
    BY <1>1
  <2> QED BY <1>4, <2>1
<1> QED BY <1>1, <1>2, <1>3, <1>5, <1>6, <1>7 DEF Spoken

LEMMA FewLines ==
  ASSUME NEW S
  PROVE  /\ <<>> \in Seq(S) /\ Len(<<>>) = 0
         /\ \A a \in S : <<a>> \in Seq(S) /\ Len(<<a>>) = 1 /\ <<a>>[1] = a
         /\ \A a, b \in S : <<a, b>> \in Seq(S) /\ Len(<<a, b>>) = 2 /\ <<a, b>>[1] = a /\ <<a, b>>[2] = b
         /\ \A a, b, c \in S : <<a, b, c>> \in Seq(S) /\ Len(<<a, b, c>>) = 3
OBVIOUS

LEMMA FourLines == ASSUME NEW S, NEW a \in S, NEW b \in S, NEW c \in S, NEW d \in S PROVE <<a, b, c, d>> \in Seq(S)
OBVIOUS

LEMMA FrontOf == ASSUME NEW lines \in Seq(FileLine) PROVE NoTrailingBlank(lines) \in Seq(FileLine)
<1>1. lines # <<>> => Front(lines) = SubSeq(lines, 1, Len(lines) - 1)
  BY DEF Front
<1>2. lines # <<>> => Len(lines) - 1 \in Nat
  OBVIOUS
<1>3. lines # <<>> => SubSeq(lines, 1, Len(lines) - 1) \in Seq(FileLine)
  BY <1>2, Stretch
<1> QED BY <1>1, <1>3 DEF NoTrailingBlank

LEMMA ContextTyped == ASSUME NEW docs \in Seq(DocTexts) PROVE contextLines(docs) \in Seq(FileLine)
<1> DEFINE blocks == [n \in DOMAIN docs |-> <<Line("doc", docs[n].of, "")>> \o docs[n].text \o <<Blank>>]
<1>1. blocks \in Seq(Seq(FileLine))
  <2>1. \A n \in DOMAIN docs : docs[n] \in DocTexts /\ DOMAIN docs = 1 .. Len(docs) /\ Len(docs) \in Nat
    OBVIOUS
  <2>2. ASSUME NEW n \in DOMAIN docs PROVE <<Line("doc", docs[n].of, "")>> \o docs[n].text \o <<Blank>> \in Seq(FileLine)
    <3>1. docs[n].of \in LineNames /\ docs[n].text \in Seq(FileLine)
      BY <2>1 DEF DocTexts
    <3>3. Line("doc", docs[n].of, "") \in FileLine /\ Blank \in FileLine
      BY <3>1, WrittenLines
    <3>2. <<Line("doc", docs[n].of, "")>> \in Seq(FileLine) /\ <<Blank>> \in Seq(FileLine)
      BY <3>3, FewLines
    <3> QED BY <3>1, <3>2, Joins
  <2>3. \A n \in DOMAIN docs : blocks[n] \in Seq(FileLine)
    BY <2>2
  <2>4. Len(docs) \in Nat /\ DOMAIN docs = 1 .. Len(docs)
    OBVIOUS
  <2>5. blocks = [n \in 1 .. Len(docs) |-> blocks[n]]
    BY <2>4
  <2> HIDE DEF blocks
  <2> QED BY <2>3, <2>4, <2>5
<1>2. FlattenSeq(blocks) \in Seq(FileLine)
  BY <1>1, FlatOf
<1>3. NoTrailingBlank(FlattenSeq(blocks)) \in Seq(FileLine)
  BY <1>2, FrontOf
<1>4. <<H(3, "Docs"), Blank>> \in Seq(FileLine) /\ <<Prose("nothing surveyed yet")>> \in Seq(FileLine)
  <2>1. "Docs" \in LineNames /\ "nothing surveyed yet" \in LineNames
    BY DEF LineNames
  <2>2. H(3, "Docs") \in FileLine /\ Blank \in FileLine /\ Prose("nothing surveyed yet") \in FileLine
    BY <2>1, MarkedIs, WrittenLines
  <2> QED BY <2>2, FewLines
<1>5. contextLines(docs) = IF docs = <<>> THEN <<Prose("nothing surveyed yet")>>
                           ELSE <<H(3, "Docs"), Blank>> \o NoTrailingBlank(FlattenSeq(blocks))
  BY DEF contextLines
<1> HIDE DEF blocks
<1> QED BY <1>3, <1>4, <1>5, Joins

LEMMA BuildsTyped == ASSUME NEW builds \in Seq(BuildTexts) PROVE buildLogLines(builds) \in Seq(FileLine)
<1> DEFINE block(b) == <<BuildHeading(b.id), Blank, Line("field", "started", b.started), Line("field", "files touched", "none")>>
                       \o (IF b.summary = <<>> THEN <<>> ELSE <<Blank>> \o b.summary) \o <<Blank>>
           blocks == [n \in DOMAIN builds |-> block(builds[n])]
<1>1. ASSUME NEW b \in BuildTexts PROVE block(b) \in Seq(FileLine)
  <2>1. b.started \in LineValues /\ b.summary \in Seq(FileLine)
    BY DEF BuildTexts
  <2>2. BuildHeading(b.id) \in FileLine
    <3>1. {"Build b1", "Build b2", "Build b9"} \subseteq LineNames
      BY DEF LineNames
    <3>2. H(3, "Build b1") \in FileLine /\ H(3, "Build b2") \in FileLine /\ H(3, "Build b9") \in FileLine
      BY <3>1, MarkedIs
    <3> QED BY <3>2 DEF BuildHeading
  <2>3. <<BuildHeading(b.id), Blank, Line("field", "started", b.started), Line("field", "files touched", "none")>> \in Seq(FileLine)
    <3>1. Blank \in FileLine /\ Line("field", "started", b.started) \in FileLine /\ Line("field", "files touched", "none") \in FileLine
      BY <2>1, WrittenLines
    <3> QED BY <2>2, <3>1, FourLines
  <2>4. <<Blank>> \in Seq(FileLine)
    BY WrittenLines, FewLines
  <2>5. <<Blank>> \o b.summary \in Seq(FileLine) /\ <<>> \in Seq(FileLine)
    BY <2>1, <2>4, Joins, FewLines
  <2>6. (IF b.summary = <<>> THEN <<>> ELSE <<Blank>> \o b.summary) \in Seq(FileLine)
    BY <2>5
  <2> QED BY <2>3, <2>4, <2>6, Joins
<1>2. blocks \in Seq(Seq(FileLine))
  <2>1. \A n \in DOMAIN builds : builds[n] \in BuildTexts /\ DOMAIN builds = 1 .. Len(builds) /\ Len(builds) \in Nat
    OBVIOUS
  <2> HIDE DEF block
  <2>2. \A n \in DOMAIN builds : blocks[n] \in Seq(FileLine)
    BY <1>1, <2>1
  <2>3. blocks = [n \in 1 .. Len(builds) |-> blocks[n]] /\ Len(builds) \in Nat /\ DOMAIN builds = 1 .. Len(builds)
    OBVIOUS
  <2> HIDE DEF blocks
  <2> QED BY <2>2, <2>3
<1>3. NoTrailingBlank(FlattenSeq(blocks)) \in Seq(FileLine)
  BY <1>2, FlatOf, FrontOf
<1>4. buildLogLines(builds) = NoTrailingBlank(FlattenSeq(blocks))
  BY DEF buildLogLines
<1> QED BY <1>3, <1>4

LEMMA Regroup ==
  ASSUME NEW S, NEW a \in Seq(S), NEW b \in Seq(S), NEW c \in Seq(S)
  PROVE  (a \o b) \o c = a \o (b \o c)
OBVIOUS

Then(a, b) == a \o b

LEMMA ThenTyped == \A a, b \in Seq(FileLine) : Then(a, b) \in Seq(FileLine)
BY DEF Then

LEMMA ThenRegroups == \A a, b, c \in Seq(FileLine) : Then(Then(a, b), c) = Then(a, Then(b, c))
<1> SUFFICES ASSUME NEW a \in Seq(FileLine), NEW b \in Seq(FileLine), NEW c \in Seq(FileLine)
             PROVE  Then(Then(a, b), c) = Then(a, Then(b, c))
  OBVIOUS
<1>1. (a \o b) \o c = a \o (b \o c)
  BY Regroup
<1> QED BY <1>1 DEF Then

\* The parts of a file, one after the other.
InARow(A, B, C, W, N, a, X, R, G, T) ==
  ((((A \o B) \o ((((C \o W) \o (N \o a)) \o X) \o R)) \o G) \o B) = (A \o ((B \o C) \o (W \o (N \o T))))

LEMMA PartsInARow ==
  ASSUME NEW A \in Seq(FileLine), NEW B \in Seq(FileLine), NEW C \in Seq(FileLine), NEW W \in Seq(FileLine),
         NEW N \in Seq(FileLine), NEW a \in Seq(FileLine), NEW X \in Seq(FileLine), NEW R \in Seq(FileLine),
         NEW G \in Seq(FileLine)
  PROVE  \E T \in Seq(FileLine) : InARow(A, B, C, W, N, a, X, R, G, T)
<1> DEFINE T == Then(a, Then(X, Then(R, Then(G, B))))
<1>1. T \in Seq(FileLine)
  BY ThenTyped
<1> DEFINE body == Then(Then(Then(Then(C, W), Then(N, a)), X), R)
           inner == Then(C, Then(W, Then(N, Then(a, Then(X, R)))))
<1>2. body = inner
  <2>1. /\ Then(C, W) \in Seq(FileLine) /\ Then(N, a) \in Seq(FileLine) /\ Then(Then(C, W), Then(N, a)) \in Seq(FileLine)
        /\ Then(X, R) \in Seq(FileLine) /\ Then(a, Then(X, R)) \in Seq(FileLine)
        /\ Then(N, Then(a, Then(X, R))) \in Seq(FileLine)
    BY ThenTyped
  <2>2. body = Then(Then(Then(C, W), Then(N, a)), Then(X, R))
    BY <2>1, ThenRegroups
  <2>3. body = Then(Then(C, W), Then(Then(N, a), Then(X, R)))
    BY <2>1, <2>2, ThenRegroups
  <2>4. body = Then(Then(C, W), Then(N, Then(a, Then(X, R))))
    BY <2>1, <2>3, ThenRegroups
  <2> QED BY <2>1, <2>4, ThenRegroups
<1>3. Then(Then(Then(Then(A, B), inner), G), B) = Then(A, Then(Then(B, C), Then(W, Then(N, T))))
  <2> DEFINE xr == Then(X, R)
             axr == Then(a, xr)
             nx == Then(N, axr)
             wn == Then(W, nx)
             cw == Then(C, wn)
             gb == Then(G, B)
             ab == Then(A, B)
  <2>1. /\ xr \in Seq(FileLine) /\ axr \in Seq(FileLine) /\ nx \in Seq(FileLine) /\ wn \in Seq(FileLine)
        /\ cw \in Seq(FileLine) /\ gb \in Seq(FileLine) /\ ab \in Seq(FileLine)
    BY ThenTyped
  <2>2. Then(ab, cw) \in Seq(FileLine) /\ Then(cw, gb) \in Seq(FileLine) /\ Then(wn, gb) \in Seq(FileLine)
    BY <2>1, ThenTyped
  <2>3. Then(xr, gb) = Then(X, Then(R, gb))
    BY <2>1, ThenRegroups
  <2> HIDE DEF gb
  <2>4. Then(axr, gb) = Then(a, Then(xr, gb))
    BY <2>1, ThenRegroups
  <2>5. Then(axr, gb) = T
    BY <2>3, <2>4 DEF gb
  <2> HIDE DEF axr
  <2>6. Then(nx, gb) = Then(N, T)
    BY <2>1, <2>5, ThenRegroups
  <2> HIDE DEF nx
  <2>7. Then(wn, gb) = Then(W, Then(N, T))
    BY <2>1, <2>6, ThenRegroups
  <2> HIDE DEF wn
  <2>8. Then(B, Then(cw, gb)) = Then(Then(B, C), Then(wn, gb))
    <3>1. Then(cw, gb) = Then(C, Then(wn, gb))
      BY <2>1, ThenRegroups
    <3> QED BY <2>2, <3>1, ThenRegroups
  <2> HIDE DEF cw
  <2>9. Then(Then(ab, cw), gb) = Then(A, Then(B, Then(cw, gb)))
    <3>1. Then(Then(ab, cw), gb) = Then(ab, Then(cw, gb))
      BY <2>1, ThenRegroups
    <3> QED BY <2>2, <3>1, ThenRegroups
  <2> HIDE DEF ab
  <2>10. Then(Then(Then(ab, cw), G), B) = Then(Then(ab, cw), gb)
    BY <2>2, ThenRegroups DEF gb
  <2> QED BY <2>7, <2>8, <2>9, <2>10 DEF ab, cw, wn, nx, axr, xr
<1>4. Then(Then(Then(Then(A, B), body), G), B) = Then(A, Then(Then(B, C), Then(W, Then(N, T))))
  BY <1>2, <1>3
<1>5. ((((A \o B) \o ((((C \o W) \o (N \o a)) \o X) \o R)) \o G) \o B) = (A \o ((B \o C) \o (W \o (N \o T))))
  <2> HIDE DEF T
  <2> QED BY <1>4 DEF Then
<1> HIDE DEF T
<1>6. InARow(A, B, C, W, N, a, X, R, G, T)
  BY <1>5 DEF InARow
<1> QED BY <1>1, <1>6

LEMMA ShortJoins ==
  ASSUME NEW S, NEW a \in S, NEW b \in S, NEW c \in S
  PROVE  /\ <<a, b>> \o <<>> = <<a, b>> /\ <<a>> \o <<b, c>> = <<a, b, c>> /\ <<a, b>> \o <<c>> = <<a, b, c>>
<1>1. /\ <<a>> \in Seq(S) /\ Len(<<a>>) = 1 /\ <<a>>[1] = a /\ <<c>> \in Seq(S) /\ Len(<<c>>) = 1 /\ <<c>>[1] = c
      /\ <<a, b>> \in Seq(S) /\ Len(<<a, b>>) = 2 /\ <<a, b>>[1] = a /\ <<a, b>>[2] = b
      /\ <<b, c>> \in Seq(S) /\ Len(<<b, c>>) = 2 /\ <<b, c>>[1] = b /\ <<b, c>>[2] = c
      /\ <<a, b, c>> \in Seq(S) /\ Len(<<a, b, c>>) = 3 /\ <<a, b, c>>[1] = a /\ <<a, b, c>>[2] = b /\ <<a, b, c>>[3] = c
  OBVIOUS
<1>2. <<a, b>> \o <<>> = <<a, b>>
  OBVIOUS
<1>3. <<a>> \o <<b, c>> = <<a, b, c>>
  <2> DEFINE x == <<a>>
             y == <<b, c>>
             z == <<a, b, c>>
  <2>0. /\ x \in Seq(S) /\ Len(x) = 1 /\ x[1] = a /\ y \in Seq(S) /\ Len(y) = 2 /\ y[1] = b /\ y[2] = c
        /\ z \in Seq(S) /\ Len(z) = 3 /\ z[1] = a /\ z[2] = b /\ z[3] = c
    BY <1>1
  <2> HIDE DEF x, y, z
  <2> DEFINE w == x \o y
  <2>9. x \in Seq(S) /\ y \in Seq(S)
    BY <2>0
  <2>8. w \in Seq(S) /\ Len(w) = Len(x) + Len(y) /\ (\A i \in 1 .. Len(x) : w[i] = x[i])
        /\ \A i \in 1 .. Len(y) : w[Len(x) + i] = y[i]
    BY <2>9
  <2>5. w \in Seq(S) /\ Len(w) = 1 + 2 /\ (\A i \in 1 .. 1 : w[i] = x[i]) /\ \A i \in 1 .. 2 : w[1 + i] = y[i]
    BY <2>0, <2>8
  <2> HIDE DEF w
  <2>6. 1 \in 1 .. 1 /\ 1 \in 1 .. 2 /\ 2 \in 1 .. 2 /\ 1 + 1 = 2 /\ 1 + 2 = 3 /\ 1 + 2 = 3
    OBVIOUS
  <2>7. w[1] = x[1] /\ w[2] = y[1] /\ w[3] = y[2] /\ Len(w) = 3
    BY <2>5, <2>6
  <2>1. x \o y \in Seq(S) /\ Len(x \o y) = 3 /\ (x \o y)[1] = a /\ (x \o y)[2] = b /\ (x \o y)[3] = c
    BY <2>0, <2>5, <2>7 DEF w
  <2>2. \A i \in 1 .. 3 : i = 1 \/ i = 2 \/ i = 3
    OBVIOUS
  <2>3. \A i \in 1 .. Len(x \o y) : (x \o y)[i] = z[i]
    BY <2>0, <2>1, <2>2
  <2>4. x \o y = z
    BY <2>0, <2>1, <2>3, SameSeq
  <2> QED BY <2>4 DEF x, y, z
<1>4. <<a, b>> \o <<c>> = <<a, b, c>>
  <2> DEFINE x == <<a, b>>
             y == <<c>>
             z == <<a, b, c>>
  <2>0. /\ x \in Seq(S) /\ Len(x) = 2 /\ x[1] = a /\ x[2] = b /\ y \in Seq(S) /\ Len(y) = 1 /\ y[1] = c
        /\ z \in Seq(S) /\ Len(z) = 3 /\ z[1] = a /\ z[2] = b /\ z[3] = c
    BY <1>1
  <2> HIDE DEF x, y, z
  <2> DEFINE w == x \o y
  <2>9. x \in Seq(S) /\ y \in Seq(S)
    BY <2>0
  <2>8. w \in Seq(S) /\ Len(w) = Len(x) + Len(y) /\ (\A i \in 1 .. Len(x) : w[i] = x[i])
        /\ \A i \in 1 .. Len(y) : w[Len(x) + i] = y[i]
    BY <2>9
  <2>5. w \in Seq(S) /\ Len(w) = 2 + 1 /\ (\A i \in 1 .. 2 : w[i] = x[i]) /\ \A i \in 1 .. 1 : w[2 + i] = y[i]
    BY <2>0, <2>8
  <2> HIDE DEF w
  <2>6. 1 \in 1 .. 2 /\ 2 \in 1 .. 2 /\ 1 \in 1 .. 1 /\ 2 + 1 = 3 /\ 2 + 1 = 3
    OBVIOUS
  <2>7. w[1] = x[1] /\ w[2] = x[2] /\ w[3] = y[1] /\ Len(w) = 3
    BY <2>5, <2>6
  <2>1. x \o y \in Seq(S) /\ Len(x \o y) = 3 /\ (x \o y)[1] = a /\ (x \o y)[2] = b /\ (x \o y)[3] = c
    BY <2>0, <2>5, <2>7 DEF w
  <2>2. \A i \in 1 .. 3 : i = 1 \/ i = 2 \/ i = 3
    OBVIOUS
  <2>3. \A i \in 1 .. Len(x \o y) : (x \o y)[i] = z[i]
    BY <2>0, <2>1, <2>2
  <2>4. x \o y = z
    BY <2>0, <2>1, <2>3, SameSeq
  <2> QED BY <2>4 DEF x, y, z
<1> QED BY <1>2, <1>3, <1>4

LEMMA TheRest ==
  ASSUME NEW S, NEW a \in Seq(S), NEW b \in Seq(S), NEW k, k = Len(a)
  PROVE  SubSeq(a \o b, k + 1, Len(a \o b)) = b
<1>1. a \o b \in Seq(S) /\ Len(a \o b) = k + Len(b) /\ k \in Nat /\ Len(b) \in Nat
  BY Joins
<1> DEFINE n == Len(b)
           s == a \o b
<1>2. \A i \in 1 .. n : s[k + i] = b[i]
  BY Joins
<1>3. 1 <= k + 1 /\ k + 1 <= (k + n) + 1 /\ k + n <= Len(s) /\ k + 1 \in Nat /\ k + n \in Nat /\ (k + n) - (k + 1) + 1 = n
  BY <1>1
<1>4. /\ SubSeq(s, k + 1, k + n) \in Seq(S) /\ Len(SubSeq(s, k + 1, k + n)) = n
      /\ \A i \in 1 .. n : SubSeq(s, k + 1, k + n)[i] = s[(k + 1) + i - 1]
  <2>1. s \in Seq(S)
    BY <1>1
  <2> HIDE DEF s, n
  <2> QED BY <2>1, <1>3, Stretch
<1>5. \A i \in 1 .. n : (k + 1) + i - 1 = k + i
  BY <1>1
<1>6. \A i \in 1 .. n : SubSeq(s, k + 1, k + n)[i] = b[i]
  BY <1>2, <1>4, <1>5
<1>7. SubSeq(s, k + 1, k + n) = b
  <2> HIDE DEF s
  <2> QED BY <1>4, <1>6, SameSeq
<1> QED BY <1>1, <1>7

LEMMA TrimTyped == ASSUME NEW S, NEW lines \in Seq(S) PROVE trim(lines) \in Seq(S)
<1> DEFINE said == {i \in DOMAIN lines : lines[i] # Blank}
<1>1. CASE said = {}
  BY <1>1 DEF trim
<1>2. CASE said # {}
  <2>1. said \in SUBSET (1 .. Len(lines)) /\ said \subseteq Nat /\ Len(lines) \in Nat
    OBVIOUS
  <2> HIDE DEF said
  <2>2. Min(said) \in said /\ (\A y \in said : Min(said) <= y) /\ Max(said) \in said
    BY <1>2, <2>1, LowestOf, LastOf
  <2>3. Min(said) <= Max(said) /\ Min(said) \in 1 .. Len(lines) /\ Max(said) \in 1 .. Len(lines)
    BY <2>1, <2>2
  <2>4. SubSeq(lines, Min(said), Max(said)) \in Seq(S)
    BY <2>1, <2>3, Stretch
  <2> QED BY <1>2, <2>4 DEF trim, said
<1> QED BY <1>1, <1>2

\* Blank lines around a text are trimmed with its own.
LEMMA TrimShift == ASSUME NEW s \in Seq(FileLine) PROVE trim(<<Blank>> \o (s \o <<Blank>>)) = trim(s)
<1> DEFINE n == Len(s)
           t == <<Blank>> \o (s \o <<Blank>>)
           said == {i \in DOMAIN s : s[i] # Blank}
           heard == {i \in DOMAIN t : t[i] # Blank}
<1>0. Blank \in FileLine
  BY WrittenLines
<1>1. /\ t \in Seq(FileLine) /\ n \in Nat /\ Len(t) = n + 2 /\ t[1] = Blank /\ t[n + 2] = Blank
      /\ \A i \in 1 .. n : t[i + 1] = s[i]
  BY <1>0
<1>2. DOMAIN t = 1 .. n + 2 /\ DOMAIN s = 1 .. n
  BY <1>1
<1> HIDE DEF t
<1>3. \A i \in 1 .. n : i + 1 \in heard <=> i \in said
  BY <1>1, <1>2
<1>4. \A j \in heard : j - 1 \in said /\ j \in Nat
  <2> SUFFICES ASSUME NEW j \in heard PROVE j - 1 \in said /\ j \in Nat
    OBVIOUS
  <2>1. j \in 1 .. n + 2 /\ j # 1 /\ j # n + 2
    BY <1>1, <1>2
  <2>2. j - 1 \in 1 .. n /\ (j - 1) + 1 = j
    BY <1>1, <2>1
  <2> QED BY <1>3, <2>1, <2>2
<1>5. said \in SUBSET (1 .. n) /\ heard \in SUBSET (1 .. n + 2) /\ said \subseteq Nat /\ heard \subseteq Nat
  BY <1>1, <1>2
<1>6. \A i \in said : i + 1 \in heard /\ i \in 1 .. n
  BY <1>2, <1>3
<1>7. trim(t) = (IF heard = {} THEN <<>> ELSE SubSeq(t, Min(heard), Max(heard)))
      /\ trim(s) = (IF said = {} THEN <<>> ELSE SubSeq(s, Min(said), Max(said)))
  BY DEF trim
<1> HIDE DEF said, heard
<1>8. CASE said = {}
  BY <1>4, <1>7, <1>8 DEF t
<1>9. CASE said # {}
  <2> DEFINE a == Min(said)
             b == Max(said)
  <2>1. a \in said /\ (\A y \in said : a <= y) /\ b \in said /\ (\A y \in said : y <= b)
    <3>1. a \in said /\ (\A y \in said : a <= y) /\ b \in said /\ (\A y \in said : b >= y)
      BY <1>1, <1>5, <1>9, LowestOf, LastOf
    <3>2. \A y \in said : y \in Nat /\ b \in Nat
      BY <1>5, <3>1
    <3> QED BY <3>1, <3>2
  <2> HIDE DEF a, b
  <2>2. a \in 1 .. n /\ b \in 1 .. n /\ a <= b /\ a + 1 \in heard /\ b + 1 \in heard
    BY <1>6, <2>1
  <2>3. ASSUME NEW j \in heard PROVE a + 1 <= j /\ j <= b + 1
    <3>1. j - 1 \in said /\ j \in Nat
      BY <1>4
    <3>2. a <= j - 1 /\ j - 1 <= b
      BY <2>1, <3>1
    <3> QED BY <1>1, <2>2, <3>1, <3>2
  <2>4. Min(heard) = a + 1 /\ Max(heard) = b + 1
    BY <1>5, <2>2, <2>3, LowestIs, HighestIs
  <2>5. SubSeq(s, a, b) \in Seq(FileLine) /\ Len(SubSeq(s, a, b)) = b - a + 1
        /\ \A i \in 1 .. b - a + 1 : SubSeq(s, a, b)[i] = s[a + i - 1]
    BY <1>1, <2>2, Stretch
  <2>6. 1 <= a + 1 /\ a + 1 <= (b + 1) + 1 /\ b + 1 <= Len(t) /\ a + 1 \in Nat /\ b + 1 \in Nat /\ (b + 1) - (a + 1) + 1 = b - a + 1
    BY <1>1, <2>2
  <2>7. SubSeq(t, a + 1, b + 1) \in Seq(FileLine) /\ Len(SubSeq(t, a + 1, b + 1)) = b - a + 1
        /\ \A i \in 1 .. b - a + 1 : SubSeq(t, a + 1, b + 1)[i] = t[(a + 1) + i - 1]
    BY <1>1, <2>6, Stretch
  <2>8. ASSUME NEW i \in 1 .. b - a + 1 PROVE SubSeq(t, a + 1, b + 1)[i] = SubSeq(s, a, b)[i]
    <3>1. a + i - 1 \in 1 .. n /\ (a + 1) + i - 1 = (a + i - 1) + 1
      BY <1>1, <2>2
    <3>2. t[(a + i - 1) + 1] = s[a + i - 1]
      BY <1>1, <3>1
    <3> QED BY <2>5, <2>7, <3>1, <3>2
  <2>9. SubSeq(t, a + 1, b + 1) = SubSeq(s, a, b)
    BY <2>5, <2>7, <2>8, SameSeq
  <2>10. heard # {}
    BY <2>2
  <2> QED BY <1>7, <1>9, <2>4, <2>9, <2>10 DEF a, b, t
<1> QED BY <1>8, <1>9


WrittenWords(p) == IF p.requirement = <<>> THEN <<NoRequirement>> ELSE p.requirement

LEMMA WordsTyped ==
  ASSUME NEW p \in PromptTexts
  PROVE  /\ WrittenWords(p) \in Seq(FileLine) /\ p.requirement \in Seq(Spoken) /\ p.requirement \in Seq(FileLine)
         /\ p.acceptance \in Seq(LineNames) /\ p.docs \in Seq(DocTexts) /\ p.builds \in Seq(BuildTexts)
<1>1. p.requirement \in Seq(Spoken) /\ p.acceptance \in Seq(LineNames) /\ p.docs \in Seq(DocTexts) /\ p.builds \in Seq(BuildTexts)
  BY DEF PromptTexts
<1>2. Spoken \subseteq FileLine
  BY DEF Spoken
<1>3. p.requirement \in Seq(FileLine)
  BY <1>1, <1>2
<1>4. <<NoRequirement>> \in Seq(FileLine)
  BY WrittenLines, FewLines
<1> QED BY <1>1, <1>3, <1>4 DEF WrittenWords

\* The first k lines are the frontmatter of p.
StartsAs(lines, k, p) ==
  /\ lines \in Seq(FileLine) /\ k \in {3, 4} /\ lines[1] = Rule /\ lines[k] = Rule
  /\ lines[2] = Line("key", "state", p.state)
  /\ p.scrappedFrom = NotScrapped => k = 3
  /\ p.scrappedFrom # NotScrapped => k = 4 /\ lines[3] = Line("key", "scrappedFrom", p.scrappedFrom)

LEMMA FrontmatterIs ==
  ASSUME NEW p \in PromptTexts
  PROVE  StartsAs(frontmatter(p), Len(frontmatter(p)), p) /\ frontmatter(p) \in Seq(FileLine)
<1> DEFINE f == frontmatter(p)
           k == Len(f)
           st == Line("key", "state", p.state)
           sc == Line("key", "scrappedFrom", p.scrappedFrom)
<1>1. p.state \in LineValues /\ (p.scrappedFrom # NotScrapped => p.scrappedFrom \in LineValues)
  BY DEF PromptTexts, LineValues
<1>2. Rule \in FileLine /\ st \in FileLine /\ (p.scrappedFrom # NotScrapped => sc \in FileLine)
  BY <1>1, WrittenLines
<1>3. f = <<Rule, st>> \o (IF p.scrappedFrom = NotScrapped THEN <<>> ELSE <<sc>>) \o <<Rule>>
  BY DEF frontmatter
<1>6. k = Len(f)
  OBVIOUS
<1> HIDE DEF st, sc, f, k
<1>4. ASSUME p.scrappedFrom = NotScrapped
      PROVE  f \in Seq(FileLine) /\ k = 3 /\ f[1] = Rule /\ f[2] = st /\ f[3] = Rule
  <2>1. f = <<Rule, st>> \o <<>> \o <<Rule>>
    BY <1>3, <1>4
  <2>2. f = <<Rule, st, Rule>>
    <3>1. <<Rule, st>> \o <<>> = <<Rule, st>> /\ <<Rule, st>> \o <<Rule>> = <<Rule, st, Rule>>
      BY <1>2, ShortJoins
    <3> QED BY <2>1, <3>1
  <2>3. f \in Seq(FileLine) /\ k = 3 /\ f[1] = Rule /\ f[2] = st /\ f[3] = Rule
    BY <1>2, <1>6, <2>2
  <2> QED BY <1>4, <2>3
<1>5. ASSUME p.scrappedFrom # NotScrapped
      PROVE  f \in Seq(FileLine) /\ k = 4 /\ f[1] = Rule /\ f[2] = st /\ f[3] = sc /\ f[4] = Rule
  <2> DEFINE x == <<Rule, st, sc>>
             y == <<Rule>>
  <2>1. f = <<Rule, st>> \o <<sc>> \o <<Rule>>
    BY <1>3, <1>5
  <2>2. f = x \o y
    <3>1. <<Rule, st>> \o <<sc>> = <<Rule, st, sc>>
      BY <1>2, <1>5, ShortJoins
    <3> QED BY <2>1, <3>1
  <2>3. /\ x \in Seq(FileLine) /\ Len(x) = 3 /\ x[1] = Rule /\ x[2] = st /\ x[3] = sc
        /\ y \in Seq(FileLine) /\ Len(y) = 1 /\ y[1] = Rule
    BY <1>2, <1>5
  <2> HIDE DEF x, y
  <2> DEFINE w == x \o y
  <2>9. x \in Seq(FileLine) /\ y \in Seq(FileLine)
    BY <2>3
  <2>8. w \in Seq(FileLine) /\ Len(w) = Len(x) + Len(y) /\ (\A i \in 1 .. Len(x) : w[i] = x[i])
        /\ \A i \in 1 .. Len(y) : w[Len(x) + i] = y[i]
    BY <2>9
  <2>5. w \in Seq(FileLine) /\ Len(w) = 3 + 1 /\ (\A i \in 1 .. 3 : w[i] = x[i]) /\ \A i \in 1 .. 1 : w[3 + i] = y[i]
    BY <2>3, <2>8
  <2> HIDE DEF w
  <2>6. 1 \in 1 .. 3 /\ 2 \in 1 .. 3 /\ 3 \in 1 .. 3 /\ 1 \in 1 .. 1 /\ 3 + 1 = 4 /\ 3 + 1 = 4
    OBVIOUS
  <2>7. w[1] = x[1] /\ w[2] = x[2] /\ w[3] = x[3] /\ w[4] = y[1] /\ Len(w) = 4
    BY <2>5, <2>6
  <2>4. f \in Seq(FileLine) /\ k = 4 /\ f[1] = Rule /\ f[2] = st /\ f[3] = sc /\ f[4] = Rule
    BY <1>6, <2>2, <2>3, <2>5, <2>7 DEF w
  <2> QED BY <1>5, <2>4
<1>7. StartsAs(f, k, p) /\ f \in Seq(FileLine)
  BY <1>4, <1>5 DEF StartsAs, st, sc
<1> QED BY <1>7 DEF f, k

LEMMA UnderTyped ==
  ASSUME NEW h \in FileLine, NEW body \in Seq(FileLine) PROVE Under(h, body) \in Seq(FileLine)
<1>1. <<Blank, h, Blank>> \in Seq(FileLine)
  BY WrittenLines, FewLines
<1> QED BY <1>1, Joins DEF Under

\* After the frontmatter: the heading, the words, then the heading of the acceptance.
LEMMA WrittenFile ==
  ASSUME NEW p \in PromptTexts
  PROVE  \E after \in Seq(FileLine) :
           serializePrompt(p) =
             frontmatter(p) \o (<<Blank, H(1, "Requirement"), Blank>>
                                \o (WrittenWords(p) \o (<<Blank, H(2, "Acceptance"), Blank>> \o after)))
<1> DEFINE A == frontmatter(p)
           B == <<Blank>>
           C == <<H(1, "Requirement"), Blank>>
           W == WrittenWords(p)
           N == <<Blank, H(2, "Acceptance"), Blank>>
           acc == IF p.acceptance = <<>> THEN <<NoneGiven>> ELSE [n \in DOMAIN p.acceptance |-> Item(p.acceptance[n])]
           X == Under(H(2, "Context"), contextLines(p.docs))
           R == Under(H(2, "Rules"), <<Item("work in this repo only")>>)
           G == IF p.builds = <<>> THEN <<>> ELSE Under(H(2, "Builds"), buildLogLines(p.builds))
<1>0. /\ p.requirement \in Seq(FileLine) /\ W \in Seq(FileLine)
      /\ p.acceptance \in Seq(LineNames) /\ p.docs \in Seq(DocTexts) /\ p.builds \in Seq(BuildTexts)
  BY WordsTyped
<1>1. {"Requirement", "Acceptance", "Context", "Rules", "Builds", "work in this repo only"} \subseteq LineNames
  BY DEF LineNames
<1>2. /\ Blank \in FileLine /\ H(1, "Requirement") \in FileLine /\ H(2, "Acceptance") \in FileLine
      /\ H(2, "Context") \in FileLine /\ H(2, "Rules") \in FileLine /\ H(2, "Builds") \in FileLine
      /\ Item("work in this repo only") \in FileLine /\ NoneGiven \in FileLine
  BY <1>1, MarkedIs, WrittenLines
<1>3. A \in Seq(FileLine)
  BY FrontmatterIs
<1>4. B \in Seq(FileLine) /\ C \in Seq(FileLine) /\ N \in Seq(FileLine)
  BY <1>2, FewLines
<1>5. acc \in Seq(FileLine)
  <2>1. <<NoneGiven>> \in Seq(FileLine)
    BY <1>2, FewLines
  <2>2. \A n \in DOMAIN p.acceptance : p.acceptance[n] \in LineNames
    BY <1>0
  <2>3. \A n \in DOMAIN p.acceptance : Item(p.acceptance[n]) \in FileLine
    BY <2>2, WrittenLines
  <2>4. DOMAIN p.acceptance = 1 .. Len(p.acceptance) /\ Len(p.acceptance) \in Nat
    BY <1>0
  <2>5. [n \in DOMAIN p.acceptance |-> Item(p.acceptance[n])] \in Seq(FileLine)
    BY <2>3, <2>4
  <2> QED BY <2>1, <2>5
<1>6. X \in Seq(FileLine) /\ R \in Seq(FileLine) /\ G \in Seq(FileLine)
  <2>1. contextLines(p.docs) \in Seq(FileLine) /\ buildLogLines(p.builds) \in Seq(FileLine)
    BY <1>0, ContextTyped, BuildsTyped
  <2>2. <<Item("work in this repo only")>> \in Seq(FileLine) /\ <<>> \in Seq(FileLine)
    BY <1>2, FewLines
  <2> QED BY <1>2, <2>1, <2>2, UnderTyped
<1>7. promptBody(p) = ((((C \o W) \o (N \o acc)) \o X) \o R)
  BY DEF promptBody, WrittenWords, Under
<1>8. serializePrompt(p) = ((((A \o B) \o promptBody(p)) \o G) \o B)
  BY DEF serializePrompt
<1>13. B \o C = <<Blank, H(1, "Requirement"), Blank>>
  BY <1>2, ShortJoins
<1> HIDE DEF A, B, C, W, N, acc, X, R, G
<1>9. PICK T \in Seq(FileLine) : InARow(A, B, C, W, N, acc, X, R, G, T)
  BY <1>0, <1>3, <1>4, <1>5, <1>6, PartsInARow
<1>10. serializePrompt(p) = A \o ((B \o C) \o (W \o (N \o T)))
  BY <1>7, <1>8, <1>9 DEF InARow
<1>14. serializePrompt(p) = frontmatter(p) \o (<<Blank, H(1, "Requirement"), Blank>> \o (WrittenWords(p) \o (<<Blank, H(2, "Acceptance"), Blank>> \o T)))
  BY <1>10, <1>13 DEF A, W, N
<1> QED BY <1>10, <1>14

BodyOf(W, after) == <<Blank, H(1, "Requirement"), Blank>> \o (W \o (<<Blank, H(2, "Acceptance"), Blank>> \o after))

BodyHolds(R, W, n) ==
  /\ R \in Seq(FileLine) /\ n \in Nat /\ Len(R) \in Nat /\ Len(R) >= n + 6
  /\ R[1] = Blank /\ R[2] = H(1, "Requirement") /\ R[3] = Blank
  /\ \A i \in 1 .. n : R[3 + i] = W[i]
  /\ R[n + 4] = Blank /\ R[n + 5] = H(2, "Acceptance")

LEMMA BodyIs ==
  ASSUME NEW W \in Seq(FileLine), NEW after \in Seq(FileLine)
  PROVE  BodyHolds(BodyOf(W, after), W, Len(W))
<1> DEFINE R == BodyOf(W, after)
           n == Len(W)
           x == <<Blank, H(1, "Requirement"), Blank>>
           y == <<Blank, H(2, "Acceptance"), Blank>>
           z == y \o after
           v == W \o z
<1>1. Blank \in FileLine /\ H(1, "Requirement") \in FileLine /\ H(2, "Acceptance") \in FileLine
  BY WrittenLines, MarkedIs DEF LineNames
<1>2. /\ x \in Seq(FileLine) /\ Len(x) = 3 /\ x[1] = Blank /\ x[2] = H(1, "Requirement") /\ x[3] = Blank
      /\ y \in Seq(FileLine) /\ Len(y) = 3 /\ y[1] = Blank /\ y[2] = H(2, "Acceptance")
  BY <1>1
<1>3. R = x \o v
  BY DEF BodyOf
<1> HIDE DEF x, y, R
<1>4. z \in Seq(FileLine) /\ Len(z) = 3 + Len(after) /\ Len(after) \in Nat /\ z[1] = Blank /\ z[2] = H(2, "Acceptance")
  <2>1. x \in Seq(FileLine) /\ y \in Seq(FileLine)
    BY <1>2
  <2>2. /\ z \in Seq(FileLine) /\ Len(z) = Len(y) + Len(after) /\ Len(after) \in Nat
        /\ \A i \in 1 .. Len(y) : z[i] = y[i]
    BY <2>1
  <2>3. 1 \in 1 .. 3 /\ 2 \in 1 .. 3
    OBVIOUS
  <2> HIDE DEF z
  <2> QED BY <1>2, <2>2, <2>3
<1> HIDE DEF z
<1>5. /\ v \in Seq(FileLine) /\ Len(v) = n + 3 + Len(after) /\ n \in Nat
      /\ (\A i \in 1 .. n : v[i] = W[i]) /\ v[n + 1] = Blank /\ v[n + 2] = H(2, "Acceptance")
  <2>1. z \in Seq(FileLine)
    BY <1>4
  <2>2. /\ v \in Seq(FileLine) /\ Len(v) = Len(W) + Len(z) /\ Len(W) \in Nat
        /\ (\A i \in 1 .. Len(W) : v[i] = W[i]) /\ (\A i \in 1 .. Len(z) : v[Len(W) + i] = z[i])
    BY <2>1
  <2> HIDE DEF v
  <2>3. 1 \in 1 .. Len(z) /\ 2 \in 1 .. Len(z)
    BY <1>4
  <2> QED BY <1>4, <2>2, <2>3
<1> HIDE DEF v
<1>6. /\ R \in Seq(FileLine) /\ Len(R) = 3 + Len(v)
      /\ R[1] = Blank /\ R[2] = H(1, "Requirement") /\ R[3] = Blank /\ \A i \in 1 .. Len(v) : R[3 + i] = v[i]
  <2>1. x \in Seq(FileLine) /\ v \in Seq(FileLine)
    BY <1>2, <1>5
  <2>2. /\ R \in Seq(FileLine) /\ Len(R) = Len(x) + Len(v)
        /\ (\A i \in 1 .. Len(x) : R[i] = x[i]) /\ (\A i \in 1 .. Len(v) : R[Len(x) + i] = v[i])
    BY <1>3, <2>1
  <2>3. 1 \in 1 .. 3 /\ 2 \in 1 .. 3 /\ 3 \in 1 .. 3
    OBVIOUS
  <2> QED BY <1>2, <2>2, <2>3
<1>7. \A i \in 1 .. n : i \in 1 .. Len(v)
  BY <1>4, <1>5
<1>8. n + 1 \in 1 .. Len(v) /\ n + 2 \in 1 .. Len(v) /\ 3 + (n + 1) = n + 4 /\ 3 + (n + 2) = n + 5
  BY <1>4, <1>5
<1>9. R[n + 4] = Blank /\ R[n + 5] = H(2, "Acceptance")
  BY <1>5, <1>6, <1>8
<1>10. \A i \in 1 .. n : R[3 + i] = W[i]
  BY <1>5, <1>6, <1>7
<1> HIDE DEF n
<1>12. BodyHolds(R, W, n)
  BY <1>4, <1>5, <1>6, <1>9, <1>10 DEF BodyHolds
<1> QED BY <1>12 DEF R, n

\* The shape of every file a prompt is written to.
LEMMA FileIs ==
  ASSUME NEW p \in PromptTexts
  PROVE  \E after \in Seq(FileLine) : serializePrompt(p) = frontmatter(p) \o BodyOf(WrittenWords(p), after)
BY WrittenFile DEF BodyOf

LEMMA FileLines ==
  ASSUME NEW p \in PromptTexts, NEW R \in Seq(FileLine)
  PROVE  /\ StartsAs(frontmatter(p) \o R, Len(frontmatter(p)), p)
         /\ Len(frontmatter(p) \o R) \in Nat /\ Len(frontmatter(p)) <= Len(frontmatter(p) \o R)
<1> DEFINE f == frontmatter(p)
           k == Len(f)
           file == f \o R
<1>1. /\ f \in Seq(FileLine) /\ k \in {3, 4} /\ f[1] = Rule /\ f[k] = Rule
      /\ f[2] = Line("key", "state", p.state)
      /\ p.scrappedFrom = NotScrapped => k = 3
      /\ p.scrappedFrom # NotScrapped => k = 4 /\ f[3] = Line("key", "scrappedFrom", p.scrappedFrom)
  <2>1. StartsAs(f, k, p)
    BY FrontmatterIs
  <2> QED BY <2>1 DEF StartsAs
<1>4. Len(f) = k
  OBVIOUS
<1> HIDE DEF f, k
<1>2. f \in Seq(FileLine) /\ file = f \o R
  BY <1>1
<1>3. file \in Seq(FileLine) /\ Len(file) = Len(f) + Len(R) /\ Len(R) \in Nat /\ \A i \in 1 .. Len(f) : file[i] = f[i]
  BY <1>2
<1>5. 1 \in 1 .. k /\ 2 \in 1 .. k /\ 3 \in 1 .. k /\ k \in 1 .. k
  BY <1>1
<1> HIDE DEF file
<1>6. file[1] = f[1] /\ file[2] = f[2] /\ file[k] = f[k] /\ (k = 4 => file[3] = f[3])
  BY <1>1, <1>3, <1>4, <1>5
<1>7. StartsAs(file, k, p)
  BY <1>1, <1>3, <1>6 DEF StartsAs
<1>8. Len(file) \in Nat /\ k <= Len(file)
  BY <1>1, <1>3, <1>4
<1> QED BY <1>7, <1>8 DEF file, f, k

LEMMA EndsWhere ==
  ASSUME NEW p \in PromptTexts, NEW R \in Seq(FileLine), NEW file, file = frontmatter(p) \o R
  PROVE  EndOfFrontmatter(file) = Len(frontmatter(p))
<1> DEFINE k == Len(frontmatter(p))
           rules == {i \in DOMAIN file : i > 1 /\ file[i] = Rule}
<1>1. /\ file \in Seq(FileLine) /\ k \in {3, 4} /\ Len(file) \in Nat /\ k <= Len(file) /\ file[k] = Rule
      /\ file[2] = Line("key", "state", p.state)
      /\ (k = 4 => file[3] = Line("key", "scrappedFrom", p.scrappedFrom))
  <2>1. /\ file \in Seq(FileLine) /\ k \in {3, 4} /\ Len(file) \in Nat /\ k <= Len(file)
        /\ file[1] = Rule /\ file[k] = Rule /\ file[2] = Line("key", "state", p.state)
        /\ p.scrappedFrom = NotScrapped => k = 3
        /\ p.scrappedFrom # NotScrapped => k = 4 /\ file[3] = Line("key", "scrappedFrom", p.scrappedFrom)
    <3>1. StartsAs(file, k, p) /\ Len(file) \in Nat /\ k <= Len(file)
      BY FileLines
    <3> QED BY <3>1 DEF StartsAs
  <2>2. k = 4 => p.scrappedFrom # NotScrapped
    BY <2>1
  <2> QED BY <2>1, <2>2
<1> HIDE DEF k
<1>2. file[2].is = "key" /\ (k = 4 => file[3].is = "key") /\ Rule.is = "rule"
  BY <1>1, BlankIs
<1>3. DOMAIN file = 1 .. Len(file)
  BY <1>1
<1>4. k \in rules /\ rules \subseteq Nat
  BY <1>1, <1>3
<1>5. ASSUME NEW i \in rules PROVE k <= i
  <2>1. i \in Nat /\ i > 1 /\ file[i].is = "rule"
    BY <1>2, <1>3
  <2>2. i # 2
    <3>1. i = 2 => file[2].is = "rule"
      BY <2>1
    <3> QED BY <1>2, <3>1
  <2>3. k = 4 => i # 3
    <3>1. i = 3 => file[3].is = "rule"
      BY <2>1
    <3> QED BY <1>2, <3>1
  <2>4. i \in Nat /\ i > 1
    BY <2>1
  <2>5. k \in {3, 4}
    BY <1>1
  <2> QED BY <2>2, <2>3, <2>4, <2>5
<1> HIDE DEF rules
<1>6. Min(rules) = k
  BY <1>4, <1>5, LowestIs
<1> QED BY <1>6 DEF EndOfFrontmatter, rules, k

LEMMA StateComesBack ==
  ASSUME NEW p \in PromptTexts, NEW R \in Seq(FileLine), NEW file, file = frontmatter(p) \o R
  PROVE  FrontmatterKey(file, "state", "") = p.state /\ FrontmatterKey(file, "scrappedFrom", NotScrapped) = p.scrappedFrom
<1> DEFINE k == Len(frontmatter(p))
           st == {i \in 1 .. k : file[i].is = "key" /\ file[i].of = "state"}
           sc == {i \in 1 .. k : file[i].is = "key" /\ file[i].of = "scrappedFrom"}
<1>1. /\ k \in {3, 4} /\ file[1] = Rule /\ file[k] = Rule /\ file[2] = Line("key", "state", p.state)
      /\ p.scrappedFrom = NotScrapped => k = 3
      /\ p.scrappedFrom # NotScrapped => k = 4 /\ file[3] = Line("key", "scrappedFrom", p.scrappedFrom)
  <2>1. StartsAs(file, k, p)
    BY FileLines
  <2> QED BY <2>1 DEF StartsAs
<1>2. EndOfFrontmatter(file) = k
  BY EndsWhere
<1>3. Rule.is = "rule"
  BY BlankIs
<1>4. \A is, of, val : Line(is, of, val).is = is /\ Line(is, of, val).of = of /\ Line(is, of, val).val = val
  BY DEF Line
<1>5. file[2].is = "key" /\ file[2].of = "state" /\ file[2].val = p.state
  BY <1>1, <1>4
<1>6. p.scrappedFrom # NotScrapped => file[3].is = "key" /\ file[3].of = "scrappedFrom" /\ file[3].val = p.scrappedFrom
  <2> SUFFICES ASSUME p.scrappedFrom # NotScrapped
               PROVE  file[3].is = "key" /\ file[3].of = "scrappedFrom" /\ file[3].val = p.scrappedFrom
    OBVIOUS
  <2>1. file[3] = Line("key", "scrappedFrom", p.scrappedFrom)
    BY <1>1
  <2> QED BY <1>4, <2>1
<1>7. file[1].is = "rule" /\ file[k].is = "rule"
  BY <1>1, <1>3
<1>8. FrontmatterKey(file, "state", "") = (IF st = {} THEN "" ELSE file[Max(st)].val)
      /\ FrontmatterKey(file, "scrappedFrom", NotScrapped) = (IF sc = {} THEN NotScrapped ELSE file[Max(sc)].val)
  BY <1>2 DEF FrontmatterKey
<1> HIDE DEF k
<1>9. \A i \in 1 .. k : i = 1 \/ i = 2 \/ i = 3 \/ i = k
  BY <1>1
<1>10. 2 \in 1 .. k /\ 3 \in 1 .. k
  BY <1>1
<1>16. st \subseteq Nat /\ sc \subseteq Nat
  BY <1>1
<1>11. 2 \in st
  BY <1>5, <1>10
<1>17. "rule" # "key" /\ "state" # "scrappedFrom"
  OBVIOUS
<1>18. \A i \in 1 .. k : file[i].is = "key" => i = 2 \/ (i = 3 /\ p.scrappedFrom # NotScrapped)
  <2> SUFFICES ASSUME NEW i \in 1 .. k, file[i].is = "key" PROVE i = 2 \/ (i = 3 /\ p.scrappedFrom # NotScrapped)
    OBVIOUS
  <2>1. i # 1 /\ i # k
    BY <1>7, <1>17
  <2>2. i = 3 => p.scrappedFrom # NotScrapped
    BY <1>1, <2>1
  <2> QED BY <1>9, <2>1, <2>2
<1>12. \A i \in st : i = 2
  <2> SUFFICES ASSUME NEW i \in st PROVE i = 2
    OBVIOUS
  <2>1. i \in 1 .. k /\ file[i].is = "key" /\ file[i].of = "state"
    OBVIOUS
  <2> HIDE DEF st
  <2>5. i = 2 \/ (i = 3 /\ p.scrappedFrom # NotScrapped)
    BY <1>18, <2>1
  <2>4. i = 3 => p.scrappedFrom # NotScrapped
    BY <2>5
  <2>2. i = 3 => p.scrappedFrom # NotScrapped /\ file[3].of = "state"
    <3>1. i = 3 => file[3].of = "state"
      BY <2>1
    <3> QED BY <2>4, <3>1
  <2>3. i # 3
    BY <1>6, <1>17, <2>2
  <2> QED BY <2>5, <2>3
<1>13. Max(st) = 2
  <2> HIDE DEF st
  <2>1. \A i \in st : i <= 2
    BY <1>12
  <2> QED BY <1>11, <1>16, <2>1, HighestIs
<1>14. CASE p.scrappedFrom = NotScrapped
  <2>1. sc = {}
    <3> SUFFICES ASSUME NEW i \in sc PROVE FALSE
      OBVIOUS
    <3>1. i \in 1 .. k /\ file[i].is = "key" /\ file[i].of = "scrappedFrom"
      OBVIOUS
    <3>2. i = 2
      BY <1>14, <1>18, <3>1
    <3> QED BY <1>5, <1>17, <3>1, <3>2
  <2> HIDE DEF st, sc
  <2> QED BY <1>5, <1>8, <1>11, <1>13, <1>14, <2>1
<1>15. CASE p.scrappedFrom # NotScrapped
  <2>1. 3 \in sc
    BY <1>6, <1>10, <1>15
  <2>2. \A i \in sc : i = 3
    <3> SUFFICES ASSUME NEW i \in sc PROVE i = 3
      OBVIOUS
    <3>1. i \in 1 .. k /\ file[i].is = "key" /\ file[i].of = "scrappedFrom"
      OBVIOUS
    <3>2. i # 2
      BY <1>5, <1>17, <3>1
    <3> QED BY <1>18, <3>1, <3>2
  <2> HIDE DEF st, sc
  <2>3. \A i \in sc : i <= 3
    BY <2>2
  <2>4. Max(sc) = 3
    BY <1>16, <2>1, <2>3, HighestIs
  <2>5. FrontmatterKey(file, "scrappedFrom", NotScrapped) = p.scrappedFrom
    BY <1>6, <1>8, <1>15, <2>1, <2>4
  <2> QED BY <1>5, <1>8, <1>11, <1>13, <2>5
<1> QED BY <1>14, <1>15


LEMMA UntilTyped ==
  ASSUME NEW body \in Seq(FileLine), NEW heads \in SUBSET (DOMAIN body), NEW from \in DOMAIN body
  PROVE  Until(body, from, heads) \in Seq(FileLine)
<1> DEFINE next == {i \in heads : i > from}
           end == IF next = {} THEN Len(body) ELSE Min(next) - 1
<1>1. Len(body) \in Nat /\ DOMAIN body = 1 .. Len(body) /\ from \in 1 .. Len(body)
  OBVIOUS
<1>2. next \subseteq Nat /\ \A i \in next : i > from /\ i <= Len(body)
  BY <1>1
<1>3. Until(body, from, heads) = SubSeq(body, from + 1, end)
  BY DEF Until
<1>4. end \in Nat /\ end >= from /\ end <= Len(body)
  <2>1. CASE next = {}
    BY <1>1, <2>1
  <2>2. CASE next # {}
    <3>1. Min(next) \in next
      BY <1>2, <2>2, LowestOf
    <3>2. Min(next) \in Nat /\ Min(next) > from /\ Min(next) <= Len(body)
      BY <1>2, <3>1
    <3>3. end = Min(next) - 1
      BY <2>2
    <3> HIDE DEF end, next
    <3> QED BY <1>1, <3>2, <3>3
  <2> QED BY <2>1, <2>2
<1> HIDE DEF end
<1>5. 1 <= from + 1 /\ from + 1 <= end + 1 /\ from + 1 \in Nat
  BY <1>1, <1>4
<1> QED BY <1>3, <1>4, <1>5, Stretch

LEMMA SectionTyped == ASSUME NEW body \in Seq(FileLine), NEW of PROVE Section(body, of) \in Seq(FileLine)
<1> DEFINE at == {i \in SectionHeads(body) : body[i].of = of}
<1>1. SectionHeads(body) \in SUBSET (DOMAIN body)
  BY DEF SectionHeads
<1>2. at \in SUBSET (1 .. Len(body)) /\ Len(body) \in Nat /\ DOMAIN body = 1 .. Len(body)
  BY <1>1
<1>3. Section(body, of) = IF at = {} THEN <<>> ELSE Until(body, Max(at), SectionHeads(body))
  BY DEF Section
<1> HIDE DEF at
<1>4. at # {} => Max(at) \in DOMAIN body
  BY <1>2, LastOf
<1>5. at # {} => Until(body, Max(at), SectionHeads(body)) \in Seq(FileLine)
  BY <1>1, <1>4, UntilTyped
<1>6. <<>> \in Seq(FileLine)
  BY FewLines
<1> QED BY <1>3, <1>5, <1>6

LEMMA AcceptanceTyped == ASSUME NEW body \in Seq(FileLine) PROVE acceptanceOf(body) \in Seq(LineNames)
<1>1. Section(body, "Acceptance") \in Seq(FileLine)
  BY SectionTyped
<1> DEFINE lines == Section(body, "Acceptance")
           kept == LinesAt(lines, {i \in DOMAIN lines : lines[i] # Blank})
<1>2. kept \in Seq(FileLine)
  BY <1>1, PickedLines
<1>3. stripListMarkers(lines) = [n \in DOMAIN kept |-> kept[n].of]
  BY DEF stripListMarkers
<1> HIDE DEF kept
<1>4. \A n \in DOMAIN kept : kept[n] \in FileLine
  BY <1>2
<1>5. \A n \in DOMAIN kept : kept[n].of \in LineNames
  BY <1>4 DEF FileLine
<1>6. DOMAIN kept = 1 .. Len(kept) /\ Len(kept) \in Nat
  BY <1>2
<1>7. stripListMarkers(lines) \in Seq(LineNames)
  BY <1>3, <1>5, <1>6
<1>8. <<>> \in Seq(LineNames)
  BY FewLines
<1> QED BY <1>7, <1>8 DEF acceptanceOf

LEMMA DocsTyped == ASSUME NEW body \in Seq(FileLine) PROVE parseContextSection(body) \in Seq(DocTexts)
<1> DEFINE lines == Section(body, "Docs")
           heads == {i \in DOMAIN lines : lines[i].is = "doc"}
           nth == PlacesInOrder(heads)
           read == [n \in DOMAIN nth |-> [of |-> lines[nth[n]].of, text |-> trim(Until(lines, nth[n], heads))]]
<1>1. lines \in Seq(FileLine)
  BY SectionTyped
<1>2. parseContextSection(body) = read
  BY DEF parseContextSection
<1> HIDE DEF lines
<1>3. Len(lines) \in Nat /\ DOMAIN lines = 1 .. Len(lines) /\ heads \in SUBSET (DOMAIN lines)
  BY <1>1
<1> DEFINE c == Cardinality(heads)
<1> HIDE DEF heads
<1>4. c \in Nat /\ DOMAIN nth = 1 .. c /\ \A n \in 1 .. c : nth[n] \in heads
  BY <1>3, OrderedPlaces
<1> HIDE DEF nth, c
<1>5. ASSUME NEW n \in 1 .. c PROVE [of |-> lines[nth[n]].of, text |-> trim(Until(lines, nth[n], heads))] \in DocTexts
  <2>1. nth[n] \in DOMAIN lines
    BY <1>3, <1>4
  <2>2. lines[nth[n]] \in FileLine
    BY <1>1, <2>1
  <2>3. lines[nth[n]].of \in LineNames
    BY <2>2 DEF FileLine
  <2>4. trim(Until(lines, nth[n], heads)) \in Seq(FileLine)
    BY <1>1, <1>3, <2>1, UntilTyped, TrimTyped
  <2> QED BY <2>3, <2>4 DEF DocTexts
<1>6. read = [n \in 1 .. c |-> read[n]] /\ \A n \in 1 .. c : read[n] \in DocTexts
  BY <1>4, <1>5
<1> HIDE DEF read
<1> QED BY <1>2, <1>4, <1>6

LEMMA BuildRead ==
  ASSUME NEW lines \in Seq(FileLine), NEW of \in DOMAIN BuildIdOf
  PROVE  parseBuild(of, lines) \in BuildTexts
<1> DEFINE starts == StartedLines(lines)
           prose == {i \in DOMAIN lines \ starts : ~(lines[i].is = "field" /\ lines[i].of = "files touched")}
<1>1. parseBuild(of, lines) =
        [id |-> BuildIdOf[of], started |-> IF starts = {} THEN "" ELSE lines[Max(starts)].val,
         summary |-> trim(LinesAt(lines, prose))]
  BY DEF parseBuild
<1>2. BuildIdOf[of] \in BuildIds
  BY DEF BuildIdOf, BuildIds
<1>3. starts \in SUBSET (1 .. Len(lines)) /\ Len(lines) \in Nat /\ DOMAIN lines = 1 .. Len(lines)
  <2>1. StartedLines(lines) \subseteq AnyField(lines) /\ AnyField(lines) \subseteq DOMAIN lines
    BY DEF StartedLines, AnyField
  <2>2. Len(lines) \in Nat /\ DOMAIN lines = 1 .. Len(lines)
    OBVIOUS
  <2> QED BY <2>1, <2>2
<1>4. prose \in SUBSET (DOMAIN lines)
  OBVIOUS
<1> HIDE DEF starts, prose
<1>5. trim(LinesAt(lines, prose)) \in Seq(FileLine)
  BY <1>4, PickedLines, TrimTyped
<1>6. starts # {} => lines[Max(starts)] \in FileLine
  <2>1. starts # {} => Max(starts) \in 1 .. Len(lines)
    BY <1>3, LastOf
  <2> QED BY <1>3, <2>1
<1>7. (IF starts = {} THEN "" ELSE lines[Max(starts)].val) \in LineValues
  <2>1. "" \in LineValues
    BY DEF LineValues
  <2> QED BY <1>6, <2>1 DEF FileLine
<1> DEFINE said == trim(LinesAt(lines, prose))
           when == IF starts = {} THEN "" ELSE lines[Max(starts)].val
<1>8. said \in Seq(FileLine) /\ when \in LineValues /\ parseBuild(of, lines) = [id |-> BuildIdOf[of], started |-> when, summary |-> said]
  BY <1>1, <1>5, <1>7
<1> HIDE DEF said, when
<1> QED BY <1>2, <1>8 DEF BuildTexts

LEMMA BuildsRead == ASSUME NEW body \in Seq(FileLine) PROVE parseBuildLog(body) \in Seq(BuildTexts)
<1> DEFINE heads == {i \in SectionHeads(body) : body[i].of \in DOMAIN BuildIdOf}
           first == {i \in heads : \A j \in heads : body[j].of = body[i].of => i <= j}
           firsts == PlacesInOrder(first)
           read == [n \in DOMAIN firsts |-> parseBuild(body[firsts[n]].of, Section(body, body[firsts[n]].of))]
           c == Cardinality(first)
<1>1. parseBuildLog(body) = read
  BY DEF parseBuildLog
<1>2. Len(body) \in Nat /\ DOMAIN body = 1 .. Len(body) /\ first \in SUBSET (DOMAIN body)
  BY DEF SectionHeads
<1>3. \A i \in first : body[i].of \in DOMAIN BuildIdOf
  OBVIOUS
<1> HIDE DEF first
<1>4. c \in Nat /\ DOMAIN firsts = 1 .. c /\ \A n \in 1 .. c : firsts[n] \in first
  BY <1>2, OrderedPlaces
<1> HIDE DEF firsts, c
<1>5. ASSUME NEW n \in 1 .. c PROVE parseBuild(body[firsts[n]].of, Section(body, body[firsts[n]].of)) \in BuildTexts
  <2>1. body[firsts[n]].of \in DOMAIN BuildIdOf
    BY <1>3, <1>4
  <2>2. Section(body, body[firsts[n]].of) \in Seq(FileLine)
    BY SectionTyped
  <2> QED BY <2>1, <2>2, BuildRead
<1>6. read = [n \in 1 .. c |-> read[n]] /\ \A n \in 1 .. c : read[n] \in BuildTexts
  BY <1>4, <1>5
<1> HIDE DEF read
<1> QED BY <1>1, <1>4, <1>6

LEMMA TrimOne == trim(<<NoRequirement>>) = <<NoRequirement>>
<1> DEFINE s == <<NoRequirement>>
           said == {i \in DOMAIN s : s[i] # Blank}
<1>1. NoRequirement \in FileLine /\ NoRequirement # Blank
  BY WrittenLines, BlankIs
<1>2. s \in Seq(FileLine) /\ Len(s) = 1 /\ s[1] = NoRequirement /\ DOMAIN s = 1 .. 1
  BY <1>1
<1>3. trim(s) = IF said = {} THEN <<>> ELSE SubSeq(s, Min(said), Max(said))
  BY DEF trim
<1> HIDE DEF s
<1>4. said = {1}
  BY <1>1, <1>2
<1> HIDE DEF said
<1>5. said \subseteq Nat /\ 1 \in said /\ (\A y \in said : 1 <= y) /\ (\A y \in said : y <= 1)
  BY <1>4
<1>6. Min(said) = 1 /\ Max(said) = 1
  BY <1>5, LowestIs, HighestIs
<1>7. SubSeq(s, 1, 1) = s
  BY <1>2
<1>8. trim(s) = s
  BY <1>3, <1>5, <1>6, <1>7
<1> QED BY <1>8 DEF s

LinesBetween(W, after, m) == SubSeq(BodyOf(W, after), 3, m - 1)
HeardWords(W, after, m) == trim(LinesBetween(W, after, m))

EndsAt(W, after, m) ==
  /\ requirementOf(BodyOf(W, after)) = (IF HeardWords(W, after, m) = <<NoRequirement>> THEN <<>> ELSE HeardWords(W, after, m))
  /\ (~SaysLine("h2", W) => m = Len(W) + 5)

\* The requirement's part of a file ends with the first `##` after it.
LEMMA WordsEnd ==
  ASSUME NEW W \in Seq(FileLine), NEW after \in Seq(FileLine)
  PROVE  \E m \in 4 .. Len(W) + 5 : EndsAt(W, after, m)
<1> DEFINE R == BodyOf(W, after)
           n == Len(W)
           at == {i \in DOMAIN R : R[i] = H(1, "Requirement")}
           heads == {i \in DOMAIN R : R[i].is = "h2"}
           next == {i \in heads : i > 2}
           m == Min(next)
<1>1. /\ R \in Seq(FileLine) /\ n \in Nat /\ Len(R) \in Nat /\ Len(R) >= n + 6
      /\ R[1] = Blank /\ R[2] = H(1, "Requirement") /\ R[3] = Blank
      /\ \A i \in 1 .. n : R[3 + i] = W[i]
      /\ R[n + 4] = Blank /\ R[n + 5] = H(2, "Acceptance")
  <2>1. BodyHolds(R, W, n)
    BY BodyIs
  <2> QED BY <2>1 DEF BodyHolds
<1>2. requirementOf(R) =
        LET said == IF at = {} THEN <<>> ELSE trim(UntilSection(R, Min(at)))
        IN IF said = <<NoRequirement>> THEN <<>> ELSE said
  BY DEF requirementOf
<1>3. UntilSection(R, 2) = SubSeq(R, 3, IF next = {} THEN Len(R) ELSE m - 1)
  BY DEF UntilSection, Until
<1>4. DOMAIN W = 1 .. n
  OBVIOUS
<1> HIDE DEF R, n
<1>5. DOMAIN R = 1 .. Len(R)
  BY <1>1
<1>6. Blank.is = "blank" /\ H(1, "Requirement").is = "h1" /\ H(2, "Acceptance").is = "h2"
  BY BlankIs
<1>7. Min(at) = 2 /\ at # {}
  <2>1. Blank # H(1, "Requirement")
    BY <1>6
  <2>2. at \subseteq Nat /\ 2 \in at /\ 1 \notin at /\ 0 \notin at
    BY <1>1, <1>5, <2>1
  <2> HIDE DEF at
  <2>3. \A y \in at : 2 <= y
    BY <2>2
  <2> QED BY <2>2, <2>3, LowestIs
<1>8. n + 5 \in next /\ next \subseteq Nat
  BY <1>1, <1>5, <1>6
<1>9. m \in next /\ \A y \in next : m <= y
  <2> HIDE DEF next
  <2> QED BY <1>8, LowestOf
<1>10. R[m].is = "h2" /\ m > 2 /\ m \in Nat /\ m <= n + 5
  BY <1>8, <1>9
<1>11. next # {}
  BY <1>8
<1> HIDE DEF m, next, heads, at
<1>12. m # 3
  <2>1. m = 3 => R[3].is = "h2"
    BY <1>10
  <2>2. R[3].is = "blank"
    BY <1>1, <1>6
  <2> QED BY <2>1, <2>2
<1>13. m \in 4 .. n + 5
  BY <1>1, <1>10, <1>12
<1>14. ASSUME ~SaysLine("h2", W) PROVE m = n + 5
  <2> SUFFICES ASSUME m # n + 5 PROVE FALSE
    OBVIOUS
  <2>1. m # n + 4
    <3>1. m = n + 4 => R[n + 4].is = "h2"
      BY <1>10
    <3>2. R[n + 4].is = "blank"
      BY <1>1, <1>6
    <3> QED BY <3>1, <3>2
  <2>2. m - 3 \in 1 .. n /\ 3 + (m - 3) = m
    BY <1>1, <1>13, <2>1
  <2>3. R[3 + (m - 3)] = W[m - 3]
    BY <1>1, <2>2
  <2>4. W[m - 3].is = "h2"
    BY <1>10, <2>2, <2>3
  <2>5. m - 3 \in DOMAIN W
    BY <1>4, <2>2
  <2> QED BY <1>14, <2>4, <2>5 DEF SaysLine
<1>15. requirementOf(R) = (IF trim(SubSeq(R, 3, m - 1)) = <<NoRequirement>> THEN <<>> ELSE trim(SubSeq(R, 3, m - 1)))
  BY <1>2, <1>3, <1>7, <1>11
<1>16. EndsAt(W, after, m)
  BY <1>14, <1>15 DEF EndsAt, HeardWords, LinesBetween, R, n
<1>17. m \in 4 .. Len(W) + 5
  BY <1>13 DEF n
<1> QED BY <1>16, <1>17

LEMMA WordsBetween ==
  ASSUME NEW W \in Seq(FileLine), NEW after \in Seq(FileLine), NEW m \in 4 .. Len(W) + 5
  PROVE  /\ LinesBetween(W, after, m) \in Seq(FileLine) /\ Len(LinesBetween(W, after, m)) = m - 3
         /\ \A i \in 1 .. m - 3 : LinesBetween(W, after, m)[i] = IF i \in 2 .. Len(W) + 1 THEN W[i - 1] ELSE Blank
<1> DEFINE R == BodyOf(W, after)
           n == Len(W)
           u == SubSeq(R, 3, m - 1)
<1>1. /\ R \in Seq(FileLine) /\ n \in Nat /\ Len(R) \in Nat /\ Len(R) >= n + 6
      /\ R[1] = Blank /\ R[2] = H(1, "Requirement") /\ R[3] = Blank
      /\ \A i \in 1 .. n : R[3 + i] = W[i]
      /\ R[n + 4] = Blank /\ R[n + 5] = H(2, "Acceptance")
  <2>1. BodyHolds(R, W, n)
    BY BodyIs
  <2> QED BY <2>1 DEF BodyHolds
<1>2. m \in 4 .. n + 5
  OBVIOUS
<1> HIDE DEF R, n
<1>3. 3 \in Nat /\ m - 1 \in Nat /\ 1 <= 3 /\ 3 <= (m - 1) + 1 /\ m - 1 <= Len(R) /\ (m - 1) - 3 + 1 = m - 3 /\ m \in Nat
  BY <1>1, <1>2
<1>4. u \in Seq(FileLine) /\ Len(u) = m - 3 /\ \A i \in 1 .. m - 3 : u[i] = R[3 + i - 1]
  BY <1>1, <1>3, Stretch
<1> HIDE DEF u
<1>5. ASSUME NEW i \in 1 .. m - 3 PROVE u[i] = IF i \in 2 .. n + 1 THEN W[i - 1] ELSE Blank
  <2>4. i \in 1 .. m - 3 /\ m \in 4 .. n + 5 /\ n \in Nat
    BY <1>1, <1>2
  <2>5. i \in Nat /\ i >= 1 /\ i <= n + 2
    BY <2>4
  <2>6. u[i] = R[3 + i - 1]
    BY <1>4
  <2>1. u[i] = R[3 + i - 1] /\ i \in Nat /\ i >= 1 /\ i <= n + 2
    BY <2>5, <2>6
  <2>2. CASE i \in 2 .. n + 1
    <3>1. i - 1 \in 1 .. n /\ 3 + i - 1 = 3 + (i - 1)
      BY <1>1, <2>2
    <3>2. R[3 + (i - 1)] = W[i - 1]
      BY <1>1, <3>1
    <3> QED BY <2>1, <2>2, <3>1, <3>2
  <2>3. CASE i \notin 2 .. n + 1
    <3>1. i = 1 \/ i = n + 2
      BY <1>1, <2>1, <2>3
    <3>2. 3 + i - 1 = 3 \/ 3 + i - 1 = n + 4
      BY <1>1, <3>1
    <3>3. R[3 + i - 1] = Blank
      BY <1>1, <3>2
    <3> QED BY <2>1, <2>3, <3>3
  <2> QED BY <2>2, <2>3
<1>6. LinesBetween(W, after, m) = u
  BY DEF LinesBetween, u, R
<1> QED BY <1>4, <1>5, <1>6 DEF n

LEMMA WordsWhole ==
  ASSUME NEW W \in Seq(FileLine), NEW after \in Seq(FileLine)
  PROVE  SubSeq(BodyOf(W, after), 3, Len(W) + 4) = <<Blank>> \o (W \o <<Blank>>)
<1> DEFINE n == Len(W)
           t == <<Blank>> \o (W \o <<Blank>>)
           u == LinesBetween(W, after, n + 5)
<1>0. Blank \in FileLine
  BY WrittenLines
<1>1. /\ t \in Seq(FileLine) /\ n \in Nat /\ Len(t) = n + 2 /\ t[1] = Blank /\ t[n + 2] = Blank
      /\ \A i \in 1 .. n : t[i + 1] = W[i]
  BY <1>0
<1> HIDE DEF t
<1>2. n + 5 \in 4 .. n + 5 /\ (n + 5) - 3 = n + 2 /\ (n + 5) - 1 = n + 4
  BY <1>1
<1>3. u \in Seq(FileLine) /\ Len(u) = (n + 5) - 3
      /\ \A i \in 1 .. (n + 5) - 3 : u[i] = IF i \in 2 .. n + 1 THEN W[i - 1] ELSE Blank
  BY <1>2, WordsBetween
<1> HIDE DEF u
<1>4. u \in Seq(FileLine) /\ Len(u) = n + 2 /\ \A i \in 1 .. n + 2 : u[i] = IF i \in 2 .. n + 1 THEN W[i - 1] ELSE Blank
  BY <1>2, <1>3
<1>6. W \in Seq(FileLine)
  OBVIOUS
<1> HIDE DEF n
<1>5. ASSUME NEW i \in 1 .. n + 2 PROVE u[i] = t[i]
  <2>1. CASE i \in 2 .. n + 1
    <3>1. i - 1 \in 1 .. n /\ (i - 1) + 1 = i
      BY <1>1, <2>1
    <3>2. t[(i - 1) + 1] = W[i - 1]
      BY <1>1, <3>1
    <3> QED BY <1>4, <2>1, <3>1, <3>2
  <2>2. CASE i \notin 2 .. n + 1
    <3>1. i = 1 \/ i = n + 2
      BY <1>1, <2>2
    <3>2. u[i] = Blank
      BY <1>4, <2>2
    <3> QED BY <1>1, <3>1, <3>2
  <2> QED BY <2>1, <2>2
<1>7. u = t
  BY <1>1, <1>4, <1>5, SameSeq
<1>8. u = SubSeq(BodyOf(W, after), 3, n + 4)
  BY <1>2 DEF u, LinesBetween
<1> QED BY <1>7, <1>8 DEF n, t

LEMMA RequirementRead ==
  ASSUME NEW p \in PromptTexts, NEW after \in Seq(FileLine)
  PROVE  LET said == requirementOf(BodyOf(WrittenWords(p), after))
         IN /\ said \in Seq(Spoken)
            /\ (~SaysLine("h2", p.requirement) => said = trim(p.requirement))
<1> DEFINE W == WrittenWords(p)
           n == Len(W)
           R == BodyOf(W, after)
           req == p.requirement
<1>1. W \in Seq(FileLine) /\ req \in Seq(Spoken) /\ req \in Seq(FileLine) /\ W = IF req = <<>> THEN <<NoRequirement>> ELSE req
  BY WordsTyped DEF WrittenWords
<1> HIDE DEF W, req
<1>8. PICK m \in 4 .. n + 5 : EndsAt(W, after, m)
  BY <1>1, WordsEnd
<1> DEFINE h == HeardWords(W, after, m)
<1>2. requirementOf(R) = (IF h = <<NoRequirement>> THEN <<>> ELSE h) /\ (~SaysLine("h2", W) => m = n + 5)
  BY <1>8 DEF EndsAt
<1>9. W \in Seq(FileLine)
  BY <1>1
<1>3. n \in Nat /\ DOMAIN W = 1 .. n
  BY <1>9
<1>4. <<>> \in Seq(Spoken) /\ NoRequirement \notin Spoken /\ Blank \in Spoken
  BY BlankIs, FewLines DEF Spoken
<1>5. ASSUME ~SaysLine("h2", W)
      PROVE  requirementOf(R) = IF trim(W) = <<NoRequirement>> THEN <<>> ELSE trim(W)
  <2>1. SubSeq(R, 3, n + 4) = <<Blank>> \o (W \o <<Blank>>)
    BY <1>1, WordsWhole
  <2>2. m - 1 = n + 4
    BY <1>2, <1>3, <1>5
  <2>4. trim(<<Blank>> \o (W \o <<Blank>>)) = trim(W)
    BY <1>1, TrimShift
  <2>3. h = trim(W)
    BY <2>1, <2>2, <2>4 DEF HeardWords, LinesBetween
  <2> HIDE DEF R, h
  <2> QED BY <1>2, <2>3
<1>6. CASE req = <<>>
  <2>1. W = <<NoRequirement>>
    BY <1>1, <1>6
  <2>2. ~SaysLine("h2", W)
    <3>1. DOMAIN W = {1} /\ W[1] = NoRequirement
      BY <2>1
    <3>2. NoRequirement.is = "prose"
      BY BlankIs
    <3> QED BY <3>1, <3>2 DEF SaysLine
  <2>3. requirementOf(R) = <<>>
    BY <1>5, <2>1, <2>2, TrimOne
  <2>4. trim(req) = <<>>
    BY <1>6 DEF trim
  <2> QED BY <1>4, <2>3, <2>4 DEF W, req
<1>7. CASE req # <<>>
  <2>1. W = req
    BY <1>1, <1>7
  <2>2. \A s \in Seq(Spoken) : s # <<NoRequirement>>
    <3> SUFFICES ASSUME NEW s \in Seq(Spoken), s = <<NoRequirement>> PROVE FALSE
      OBVIOUS
    <3>1. Len(s) = 1 /\ s[1] = NoRequirement
      OBVIOUS
    <3>2. s[1] \in Spoken
      BY <3>1
    <3> QED BY <1>4, <3>1, <3>2
  <2> DEFINE u == LinesBetween(W, after, m)
  <2>3. u \in Seq(FileLine) /\ Len(u) = m - 3
        /\ \A i \in 1 .. m - 3 : u[i] = IF i \in 2 .. n + 1 THEN W[i - 1] ELSE Blank
    BY <1>9, WordsBetween
  <2> HIDE DEF u
  <2>4. \A i \in 1 .. m - 3 : u[i] \in Spoken
    <3> SUFFICES ASSUME NEW i \in 1 .. m - 3 PROVE u[i] \in Spoken
      OBVIOUS
    <3>1. CASE i \in 2 .. n + 1
      <4>1. i - 1 \in DOMAIN req
        BY <1>3, <2>1, <3>1
      <4>2. req[i - 1] \in Spoken
        BY <1>1, <4>1
      <4> QED BY <2>1, <2>3, <3>1, <4>2
    <3>2. CASE i \notin 2 .. n + 1
      BY <1>4, <2>3, <3>2
    <3> QED BY <3>1, <3>2
  <2>5. u \in Seq(Spoken)
    <3>1. u = [i \in 1 .. Len(u) |-> u[i]] /\ Len(u) \in Nat
      BY <2>3
    <3> QED BY <2>3, <2>4, <3>1
  <2>6. trim(u) \in Seq(Spoken)
    BY <2>5, TrimTyped
  <2>7. requirementOf(R) \in Seq(Spoken)
    <3>1. h = trim(u)
      BY DEF HeardWords, u
    <3> HIDE DEF h, R
    <3> QED BY <1>2, <1>4, <2>6, <3>1
  <2>8. trim(req) \in Seq(Spoken)
    BY <1>1, TrimTyped
  <2>9. ~SaysLine("h2", req) => requirementOf(R) = trim(req)
    BY <1>5, <2>1, <2>2, <2>8
  <2> QED BY <2>7, <2>9 DEF W, req
<1> QED BY <1>6, <1>7

\* What is read from a written file is a prompt, in the state and with the words it was written in.
LEMMA PromptReadBack ==
  ASSUME NEW p \in PromptTexts
  PROVE  LET read == parsePrompt(serializePrompt(p))
         IN /\ read \in PromptTexts /\ read.state = p.state /\ read.scrappedFrom = p.scrappedFrom
            /\ (~SaysLine("h2", p.requirement) => read.requirement = trim(p.requirement))
<1> DEFINE file == serializePrompt(p)
           f == frontmatter(p)
           W == WrittenWords(p)
<1>1. PICK after \in Seq(FileLine) : file = f \o BodyOf(W, after)
  BY FileIs
<1> DEFINE R == BodyOf(W, after)
           body == SubSeq(file, EndOfFrontmatter(file) + 1, Len(file))
<1>2. W \in Seq(FileLine) /\ f \in Seq(FileLine)
  BY WordsTyped, FrontmatterIs
<1>3. R \in Seq(FileLine)
  <2>1. BodyHolds(R, W, Len(W))
    BY <1>2, BodyIs
  <2> QED BY <2>1 DEF BodyHolds
<1>4. EndOfFrontmatter(file) = Len(f)
  BY <1>1, <1>3, EndsWhere
<1>5. body = R
  <2>1. SubSeq(f \o R, Len(f) + 1, Len(f \o R)) = R
    BY <1>2, <1>3, TheRest
  <2> QED BY <1>1, <1>4, <2>1
<1>6. FrontmatterKey(file, "state", "") = p.state /\ FrontmatterKey(file, "scrappedFrom", NotScrapped) = p.scrappedFrom
  BY <1>1, <1>3, StateComesBack
<1>7. parsePrompt(file) =
        [state |-> p.state, scrappedFrom |-> p.scrappedFrom, requirement |-> requirementOf(R),
         acceptance |-> acceptanceOf(R), docs |-> parseContextSection(R), builds |-> parseBuildLog(R)]
  BY <1>5, <1>6 DEF parsePrompt
<1>8. p.state \in PromptStates /\ p.scrappedFrom \in PromptStates \cup {NotScrapped}
  BY DEF PromptTexts
<1>9. requirementOf(R) \in Seq(Spoken) /\ (~SaysLine("h2", p.requirement) => requirementOf(R) = trim(p.requirement))
  BY RequirementRead
<1>10. acceptanceOf(R) \in Seq(LineNames) /\ parseContextSection(R) \in Seq(DocTexts) /\ parseBuildLog(R) \in Seq(BuildTexts)
  BY <1>3, AcceptanceTyped, DocsTyped, BuildsRead
<1> HIDE DEF R, file
<1>11. parsePrompt(file) \in PromptTexts
  BY <1>7, <1>8, <1>9, <1>10 DEF PromptTexts
<1> QED BY <1>7, <1>9, <1>11 DEF file


FileInv == pfPrompt \in PromptTexts /\ \E q \in PromptTexts : pfFile = serializePrompt(q)

LEMMA FileStart == PromptFileInit => FileInv
<1>1. FreshPrompt \in PromptTexts
  <2>1. "draft" \in PromptStates
    BY DEF PromptStates
  <2>2. <<>> \in Seq(Spoken) /\ <<>> \in Seq(LineNames) /\ <<>> \in Seq(DocTexts) /\ <<>> \in Seq(BuildTexts)
    BY FewLines
  <2> QED BY <2>1, <2>2 DEF FreshPrompt, PromptTexts
<1> QED BY <1>1 DEF PromptFileInit, FileInv

LEMMA SayTyped == Texts \subseteq Seq(Spoken)
<1>1. SayLines \subseteq Spoken
  <2>1. {"blank", "rule", "key", "h1", "h2", "h3", "prose", "doc", "field"} \subseteq LineKinds
    BY DEF LineKinds
  <2>2. {"", "word", "Requirement", "Notes", "Build b9", "state", "started", "d9", "no requirement written yet"} \subseteq LineNames
    BY DEF LineNames
  <2>3. {"", "built", "never"} \subseteq LineValues
    BY DEF LineValues, PromptStates
  <2>4. /\ Prose("word") \in FileLine /\ Blank \in FileLine /\ Rule \in FileLine /\ H(1, "Requirement") \in FileLine
        /\ H(2, "Notes") \in FileLine /\ H(3, "Notes") \in FileLine /\ H(3, "Build b9") \in FileLine
        /\ Line("key", "state", "built") \in FileLine /\ Line("field", "started", "never") \in FileLine
        /\ Line("doc", "d9", "") \in FileLine
    BY <2>2, <2>3, WrittenLines, MarkedIs
  <2>5. NoRequirement.is = "prose" /\ NoRequirement.of = "no requirement written yet"
    BY DEF NoRequirement, Prose, Line
  <2>6. Prose("word").of = "word" /\ Line("doc", "d9", "").is = "doc"
        /\ Line("field", "started", "never").is = "field" /\ Line("key", "state", "built").is = "key"
    BY DEF Prose, Line
  <2>7. /\ Prose("word") # NoRequirement /\ Line("doc", "d9", "") # NoRequirement
        /\ Line("field", "started", "never") # NoRequirement /\ Line("key", "state", "built") # NoRequirement
    BY <2>5, <2>6
  <2>8. /\ Blank # NoRequirement /\ Rule # NoRequirement
        /\ H(1, "Requirement") # NoRequirement /\ H(2, "Notes") # NoRequirement
        /\ H(3, "Notes") # NoRequirement /\ H(3, "Build b9") # NoRequirement
    <3>1. NoRequirement.is = "prose" /\ H(1, "Requirement").is = "h1" /\ H(2, "Notes").is = "h2"
          /\ H(3, "Notes").is = "h3" /\ H(3, "Build b9").is = "h3"
      BY BlankIs
    <3>2. Blank # NoRequirement /\ Rule # NoRequirement
      BY BlankIs
    <3> QED BY <3>1, <3>2
  <2> QED BY <2>4, <2>7, <2>8 DEF SayLines, Spoken
<1> SUFFICES ASSUME NEW text \in Texts PROVE text \in Seq(Spoken)
  OBVIOUS
<1>2. PICK n \in 1 .. 2 : text \in [1 .. n -> SayLines]
  BY DEF Texts
<1>3. text \in [1 .. n -> Spoken] /\ n \in Nat
  BY <1>1, <1>2
<1> QED BY <1>3

LEMMA FileChange == ASSUME pfPrompt \in PromptTexts, Change(pfPrompt) PROVE pfPrompt' \in PromptTexts
<1> DEFINE p == pfPrompt
<1>1. /\ p.requirement \in Seq(Spoken) /\ p.acceptance \in Seq(LineNames) /\ p.docs \in Seq(DocTexts)
      /\ p.builds \in Seq(BuildTexts)
  BY WordsTyped
<1>2. \A text \in Texts : text \in Seq(Spoken) /\ text \in Seq(FileLine)
  BY SayTyped DEF Spoken
<1>3. CASE \E text \in Texts : p.requirement = <<>> /\ pfPrompt' = [p EXCEPT !.requirement = text]
  BY <1>2, <1>3 DEF PromptTexts
<1>4. CASE \E a \in {"a1", "a2"} : pfPrompt' = [p EXCEPT !.acceptance = Append(@, a)]
  <2>1. PICK a \in {"a1", "a2"} : pfPrompt' = [p EXCEPT !.acceptance = Append(p.acceptance, a)]
    BY <1>4 DEF PromptTexts
  <2>2. a \in LineNames
    BY DEF LineNames
  <2>3. Append(p.acceptance, a) \in Seq(LineNames)
    BY <1>1, <2>2
  <2> QED BY <2>1, <2>3 DEF PromptTexts
<1>5. CASE \E text \in Texts : pfPrompt' = [p EXCEPT !.docs = Append(@, [of |-> "d1", text |-> text])]
  <2>1. PICK text \in Texts : pfPrompt' = [p EXCEPT !.docs = Append(p.docs, [of |-> "d1", text |-> text])]
    BY <1>5 DEF PromptTexts
  <2>2. [of |-> "d1", text |-> text] \in DocTexts
    BY <1>2 DEF DocTexts, LineNames
  <2>3. Append(p.docs, [of |-> "d1", text |-> text]) \in Seq(DocTexts)
    BY <1>1, <2>2
  <2> QED BY <2>1, <2>3 DEF PromptTexts
<1>6. CASE \E text \in Texts :
             /\ Len(p.builds) < 2
             /\ pfPrompt' = [p EXCEPT !.builds =
                  Append(@, [id |-> <<"b1", "b2">>[Len(@) + 1], started |-> "then", summary |-> text])]
  <2>1. PICK text \in Texts :
          /\ Len(p.builds) < 2
          /\ pfPrompt' = [p EXCEPT !.builds =
               Append(p.builds, [id |-> <<"b1", "b2">>[Len(p.builds) + 1], started |-> "then", summary |-> text])]
    BY <1>6 DEF PromptTexts
  <2> DEFINE id == <<"b1", "b2">>[Len(p.builds) + 1]
             b == [id |-> id, started |-> "then", summary |-> text]
  <2>2. id \in BuildIds
    <3> DEFINE k == Len(p.builds)
    <3>1. k \in Nat /\ k < 2
      BY <1>1, <2>1
    <3>5. id = <<"b1", "b2">>[k + 1]
      OBVIOUS
    <3> HIDE DEF k, id
    <3>2. k = 0 \/ k = 1
      BY <3>1
    <3>3. k + 1 = 1 \/ k + 1 = 2
      BY <3>2
    <3>4. id = "b1" \/ id = "b2"
      BY <3>3, <3>5
    <3> QED BY <3>4 DEF BuildIds
  <2> HIDE DEF id
  <2>3. b \in BuildTexts
    BY <1>2, <2>2 DEF BuildTexts, LineValues
  <2>4. Append(p.builds, b) \in Seq(BuildTexts)
    BY <1>1, <2>3
  <2>5. pfPrompt' = [p EXCEPT !.builds = Append(p.builds, b)]
    BY <2>1 DEF id
  <2> HIDE DEF b
  <2> QED BY <2>4, <2>5 DEF PromptTexts
<1> QED BY <1>3, <1>4, <1>5, <1>6 DEF Change

LEMMA FileStep == FileInv /\ PromptFileNext => FileInv'
<1> SUFFICES ASSUME FileInv, PromptFileNext PROVE FileInv'
  OBVIOUS
<1>0. pfPrompt \in PromptTexts
  BY DEF FileInv
<1>1. CASE Write
  <2>1. pfPrompt' \in PromptTexts
    BY <1>0, <1>1, FileChange DEF Write
  <2> QED BY <1>1, <2>1 DEF Write, FileInv
<1>2. CASE Scrap
  <2>1. pfPrompt' = [pfPrompt EXCEPT !.state = "scrapped", !.scrappedFrom = "draft"] /\ pfFile' = serializePrompt(pfPrompt')
    BY <1>2 DEF Scrap
  <2>2. pfPrompt' \in PromptTexts
    BY <1>0, <2>1 DEF PromptTexts, PromptStates
  <2> QED BY <2>1, <2>2 DEF FileInv
<1>3. CASE ReloadPrompt
  <2>1. PICK q \in PromptTexts : pfFile = serializePrompt(q)
    BY DEF FileInv
  <2>2. parsePrompt(serializePrompt(q)) \in PromptTexts
    BY PromptReadBack
  <2>3. pfPrompt' \in PromptTexts
    BY <1>3, <2>1, <2>2 DEF ReloadPrompt
  <2> QED BY <1>3, <2>1, <2>3 DEF ReloadPrompt, FileInv
<1> QED BY <1>1, <1>2, <1>3 DEF PromptFileNext

LEMMA FileStutter == FileInv /\ UNCHANGED promptFileVars => FileInv'
BY DEF FileInv, promptFileVars

LEMMA FileShows == FileInv => StateSurvivesWords /\ RequirementSurvives
<1> SUFFICES ASSUME pfPrompt \in PromptTexts, pfFile = serializePrompt(pfPrompt)
             PROVE  /\ Read.state = pfPrompt.state /\ Read.scrappedFrom = pfPrompt.scrappedFrom
                    /\ (~SaysLine("h2", pfPrompt.requirement) => Read.requirement = trim(pfPrompt.requirement))
  BY DEF FileInv, StateSurvivesWords, RequirementSurvives
<1>1. Read = parsePrompt(serializePrompt(pfPrompt))
  BY DEF Read
<1> QED BY <1>1, PromptReadBack

-----------------------------------------------------------------------------
(* The run: each part by itself, the others at rest                        *)

\* What every part keeps, whichever moves.
RepoPartsInv ==
  /\ ClampInv /\ SurveyInv /\ ContextInv /\ DetectInv /\ MigrationInv /\ SnapshotInv /\ FillInv
  /\ SketchInv /\ FileInv

LEMMA RepoRunStart == RepoInit => RepoPartsInv
BY ClampStart, SurveyStart, ContextStart, DetectStart, MigrationStart, SnapshotStart, FillStart,
   SketchStart, FileStart DEF RepoInit, RepoPartsInv

\* In a step of the run each part takes one of its steps, or is as it was.
LEMMA PartsMove ==
  ASSUME [RepoNext]_repoRunVars
  PROVE  /\ DocsClampNext \/ UNCHANGED docsClampVars
         /\ SurveyNext \/ UNCHANGED surveyVars
         /\ SurveyContextNext \/ UNCHANGED surveyContextVars
         /\ DetectNext \/ UNCHANGED detectVars
         /\ MigrationNext \/ UNCHANGED migrationVars
         /\ SnapshotNext \/ UNCHANGED snapshotVars
         /\ FillNext \/ UNCHANGED fillVars
         /\ SketchNext \/ UNCHANGED sketchVars
         /\ PromptFileNext \/ UNCHANGED promptFileVars
<1>1. CASE UNCHANGED repoRunVars
  BY <1>1 DEF repoRunVars
<1>2. CASE RepoNext
  BY <1>2 DEF RepoNext, OthersRest, Rests
<1> QED BY <1>1, <1>2

LEMMA RepoStep ==
  ASSUME RepoPartsInv, [RepoNext]_repoRunVars
  PROVE  RepoPartsInv' /\ WholeOrNothing /\ StartsWhatItSaid /\ EditsOutliveMigration
<1>1. ClampInv' /\ WholeOrNothing
  BY PartsMove, ClampStep, ClampStutter DEF RepoPartsInv
<1>2. SurveyInv'
  BY PartsMove, SurveyStep, SurveyStutter DEF RepoPartsInv
<1>3. ContextInv'
  BY PartsMove, ContextStep, ContextStutter DEF RepoPartsInv
<1>4. DetectInv' /\ StartsWhatItSaid
  BY PartsMove, DetectStep, DetectStutter DEF RepoPartsInv
<1>5. MigrationInv' /\ EditsOutliveMigration
  BY PartsMove, MigrationStep, MigrationStutter DEF RepoPartsInv
<1>6. SnapshotInv'
  BY PartsMove, SnapshotStep, SnapshotStutter DEF RepoPartsInv
<1>7. FillInv'
  BY PartsMove, FillStep, FillStutter DEF RepoPartsInv
<1>8. SketchInv'
  BY PartsMove, SketchStep, SketchStutter DEF RepoPartsInv
<1>9. FileInv'
  BY PartsMove, FileStep, FileStutter DEF RepoPartsInv
<1> QED BY <1>1, <1>2, <1>3, <1>4, <1>5, <1>6, <1>7, <1>8, <1>9 DEF RepoPartsInv

\* For any docs, folders and clamps, any work orders and processes that migrate them, and any
\* number of sketches, elements and calls: every reference of the docs index finds its file
\* again, whatever links lead to it; a work order that a process has listed and dealt with is a
\* prompt, a reported skip or gone (one that stopped halfway lists nothing when it starts
\* again); the sheet shows the sketch that was opened, its elements where they were drawn; and a
\* prompt's file gives back the state it was written in, and its requirement when that has no
\* `##` line, whatever lines of prose, documents and builds it holds (core/src/docs.ts,
\* core/src/prompt.ts, docs/, prompts/store.ts, sketch/).
THEOREM JigFilesComeBack == RepoRun => []JigFilesReadBack
<1>1. RepoPartsInv => JigFilesReadBack
  <2>1. MigrationInv => MigrationTypeOK
    BY DEF MigrationInv
  <2> QED BY <2>1, MigrationShows, SketchShows, ClampShows, FileShows DEF RepoPartsInv, JigFilesReadBack
<1> QED BY <1>1, RepoRunStart, RepoStep, PTL DEF RepoRun

\* For any schemas, styles, components and words, and however surveys overlap and stop: no
\* schema of one adapter is taken for another's; a survey that wrote with no other between its
\* two writes leaves survey and gauges of one run, whatever was mixed before; a shop face names
\* only files the survey proves, and the context of a prompt besides them the one file that a
\* pick claims where no component was found; where both find a component it is the same one
\* (survey/, orders/shop-face.ts, prompts/context.ts).
THEOREM SurveyTrusted == RepoRun => []SurveyIsTrusted
<1>1. RepoPartsInv => SurveyIsTrusted
  BY SurveyShows, ContextShows DEF RepoPartsInv, SurveyInv, SurveyIsTrusted
<1> QED BY <1>1, RepoRunStart, RepoStep, PTL DEF RepoRun

\* For any scripts and hints, any number of orders and pages of any size: what is started is a
\* script of the repo on a port that can be bound; an order's snapshot is asked for once in the
\* life of a page, and what is kept of it holds nothing the sanitizers can spell, and nothing at
\* all that acts unless the app's own page replied; a DOM path leads back to the element it was
\* built from; and whatever the app takes away or puts back inside or behind the form the panel
\* was told of, no field outside it is filled (target/detect.ts, trialfit/, plate/loupe.js,
\* fixtures/).
THEOREM AppDoneAsSaid == RepoRun => []AppAsItSaid
<1>1. RepoPartsInv => AppAsItSaid
  BY DetectShows, SnapshotShows, FillShows DEF RepoPartsInv, DetectInv, SnapshotInv, AppAsItSaid
<1> QED BY <1>1, RepoRunStart, RepoStep, PTL DEF RepoRun

\* However clamps overlap and files vanish under them, whatever is edited while work orders
\* migrate: docs.json is replaced by all of one walk or not at all, a plain start runs what
\* was detected, and a migration undoes a later edit only if another process was between its
\* look for prompts and its last write at the same time (docs/, target/, prompts/store.ts).
THEOREM RepoInOrder == RepoRun => RepoStepsWhole
<1>1. RepoPartsInv /\ [RepoNext]_repoRunVars
        => [WholeOrNothing /\ StartsWhatItSaid /\ EditsOutliveMigration]_repoRunVars
  BY RepoStep
<1> QED BY <1>1, RepoRunStart, RepoStep, PTL DEF RepoRun, RepoStepsWhole
=============================================================================
