------------------------- MODULE BrandingAuditProofs ------------------------
(***************************************************************************)
(* Proofs about the deep branding audit (module BrandingAudit) for every   *)
(* set of paths, every tree and every bound on the number of runs.        *)
(*                                                                         *)
(* update_file_content rewrites each token on its own (Rewrite), so what   *)
(* it can produce is settled token by token: the substitutions only ever  *)
(* map a text of the vocabulary to another one, and the composition in    *)
(* the code's order maps no text to one it targets.                       *)
(***************************************************************************)
EXTENDS BrandingAudit, TLAPS

(* One substitution, on the text of a token.                              *)
SubText(rule, x) == IF x \in DOMAIN rule THEN rule[x] ELSE x

(* The nine substitutions before the footer, on texts.                    *)
RewriteText(x) ==
    SubText(RuleProjectSlug, SubText(RuleCopyright, SubText(RuleGithubOrg,
        SubText(RuleGithubRepo, SubText(RuleShahcoinOrg, SubText(RuleShahcoincore,
            SubText(RuleSecp, SubText(RuleSecurity, SubText(RuleLegal, x)))))))))

Footers == {"footer:old", "footer:std-core"}

(* A substitution of update_file_content before the footer: it reads only *)
(* targeted texts other than a footer, and writes only texts of the       *)
(* vocabulary that are neither targeted nor a licence footer.             *)
IsCleaner(R) ==
    /\ DOMAIN R \subseteq Targeted \ Footers
    /\ \A y \in DOMAIN R : R[y] \in Text \ (Targeted \cup Footers)

(* Such a substitution leaves no text of its domain, brings back no       *)
(* targeted text that was gone, and keeps a footer a footer.              *)
LEMMA SubStep ==
    ASSUME NEW R, IsCleaner(R), NEW x \in Text
    PROVE  /\ SubText(R, x) \in Text
           /\ SubText(R, x) \notin DOMAIN R
           /\ \A D \in SUBSET Targeted : x \notin D => SubText(R, x) \notin D
           /\ SubText(R, x) \in Footers <=> x \in Footers
<1>1. CASE x \in DOMAIN R
  <2>1. SubText(R, x) = R[x]
    BY <1>1 DEF SubText
  <2>2. R[x] \in Text \ (Targeted \cup Footers) /\ x \notin Footers
    BY <1>1 DEF IsCleaner
  <2>3. R[x] \notin DOMAIN R
    BY <2>2 DEF IsCleaner
  <2>4. \A D \in SUBSET Targeted : R[x] \notin D
    BY <2>2
  <2>. QED
    BY <2>1, <2>2, <2>3, <2>4
<1>2. CASE x \notin DOMAIN R
  BY <1>2 DEF SubText
<1>. QED
  BY <1>1, <1>2

(* Each substitution, with the texts it reads.                           *)
LEMMA RuleLegalCleans == IsCleaner(RuleLegal) /\ DOMAIN RuleLegal = {"legal@shah.vip"}
BY DEF IsCleaner, RuleLegal, Text, Targeted, Footers

LEMMA RuleSecurityCleans == IsCleaner(RuleSecurity) /\ DOMAIN RuleSecurity = {"security@shahcoincore.org", "secp256k1-security@shahcoincore.org"}
BY DEF IsCleaner, RuleSecurity, Text, Targeted, Footers

LEMMA RuleSecpCleans == IsCleaner(RuleSecp) /\ DOMAIN RuleSecp = {"secp256k1-security@shahcoincore.org"}
BY DEF IsCleaner, RuleSecp, Text, Targeted, Footers

LEMMA RuleShahcoincoreCleans == IsCleaner(RuleShahcoincore) /\ DOMAIN RuleShahcoincore = {"https://shahcoincore.org", "shahcoincore.org"}
BY DEF IsCleaner, RuleShahcoincore, Text, Targeted, Footers

LEMMA RuleShahcoinOrgCleans == IsCleaner(RuleShahcoinOrg) /\ DOMAIN RuleShahcoinOrg = {"shahcoin.org"}
BY DEF IsCleaner, RuleShahcoinOrg, Text, Targeted, Footers

LEMMA RuleGithubRepoCleans == IsCleaner(RuleGithubRepo) /\ DOMAIN RuleGithubRepo = {"github.com/shahcoin/shahcoin"}
BY DEF IsCleaner, RuleGithubRepo, Text, Targeted, Footers

LEMMA RuleGithubOrgCleans == IsCleaner(RuleGithubOrg) /\ DOMAIN RuleGithubOrg = {"github.com/shahcoin-core"}
BY DEF IsCleaner, RuleGithubOrg, Text, Targeted, Footers

LEMMA RuleCopyrightCleans == IsCleaner(RuleCopyright) /\ DOMAIN RuleCopyright = {"Copyright (c) 2009-2023 The SHAHCOIN Core developers"}
BY DEF IsCleaner, RuleCopyright, Text, Targeted, Footers

LEMMA RuleProjectSlugCleans == IsCleaner(RuleProjectSlug) /\ DOMAIN RuleProjectSlug = {"SHAHCOIN-CORE"}
BY DEF IsCleaner, RuleProjectSlug, Text, Targeted, Footers

(* One step of the chain: the substitution keeps the texts already gone   *)
(* gone and adds its own domain to them.                                  *)
LEMMA SubChain ==
    ASSUME NEW R, IsCleaner(R), NEW x \in Text,
           NEW U \in SUBSET Targeted, x \notin U
    PROVE  /\ SubText(R, x) \in Text
           /\ SubText(R, x) \notin U \cup DOMAIN R
           /\ SubText(R, x) \in Footers <=> x \in Footers
BY SubStep

(* Whatever text the nine substitutions start from, they end in a text of *)
(* the vocabulary that none of them targets, and they neither make nor    *)
(* unmake a licence footer.                                               *)
LEMMA RewriteTextClean ==
    ASSUME NEW x \in Text
    PROVE  /\ RewriteText(x) \in Text
           /\ RewriteText(x) \notin Targeted \ Footers
           /\ RewriteText(x) \in Footers <=> x \in Footers
<1> DEFINE x1 == SubText(RuleLegal, x)
           x2 == SubText(RuleSecurity, x1)
           x3 == SubText(RuleSecp, x2)
           x4 == SubText(RuleShahcoincore, x3)
           x5 == SubText(RuleShahcoinOrg, x4)
           x6 == SubText(RuleGithubRepo, x5)
           x7 == SubText(RuleGithubOrg, x6)
           x8 == SubText(RuleCopyright, x7)
           x9 == SubText(RuleProjectSlug, x8)
           U1 == DOMAIN RuleLegal
           U2 == U1 \cup DOMAIN RuleSecurity
           U3 == U2 \cup DOMAIN RuleSecp
           U4 == U3 \cup DOMAIN RuleShahcoincore
           U5 == U4 \cup DOMAIN RuleShahcoinOrg
           U6 == U5 \cup DOMAIN RuleGithubRepo
           U7 == U6 \cup DOMAIN RuleGithubOrg
           U8 == U7 \cup DOMAIN RuleCopyright
           U9 == U8 \cup DOMAIN RuleProjectSlug
<1>0. /\ U9 = Targeted \ Footers
      /\ {U1, U2, U3, U4, U5, U6, U7, U8} \subseteq SUBSET Targeted
  BY RuleLegalCleans, RuleSecurityCleans, RuleSecpCleans, RuleShahcoincoreCleans,
     RuleShahcoinOrgCleans, RuleGithubRepoCleans, RuleGithubOrgCleans,
     RuleCopyrightCleans, RuleProjectSlugCleans DEF Targeted, Footers
<1>1. x1 \in Text /\ x1 \notin U1 /\ (x1 \in Footers <=> x \in Footers)
  <2>1. {} \in SUBSET Targeted /\ x \notin {}
    OBVIOUS
  <2>. QED
    BY <2>1, RuleLegalCleans, SubChain
<1>2. x2 \in Text /\ x2 \notin U2 /\ (x2 \in Footers <=> x \in Footers)
  BY <1>0, <1>1, RuleSecurityCleans, SubChain
<1>3. x3 \in Text /\ x3 \notin U3 /\ (x3 \in Footers <=> x \in Footers)
  BY <1>0, <1>2, RuleSecpCleans, SubChain
<1>4. x4 \in Text /\ x4 \notin U4 /\ (x4 \in Footers <=> x \in Footers)
  BY <1>0, <1>3, RuleShahcoincoreCleans, SubChain
<1>5. x5 \in Text /\ x5 \notin U5 /\ (x5 \in Footers <=> x \in Footers)
  BY <1>0, <1>4, RuleShahcoinOrgCleans, SubChain
<1>6. x6 \in Text /\ x6 \notin U6 /\ (x6 \in Footers <=> x \in Footers)
  BY <1>0, <1>5, RuleGithubRepoCleans, SubChain
<1>7. x7 \in Text /\ x7 \notin U7 /\ (x7 \in Footers <=> x \in Footers)
  BY <1>0, <1>6, RuleGithubOrgCleans, SubChain
<1>8. x8 \in Text /\ x8 \notin U8 /\ (x8 \in Footers <=> x \in Footers)
  <2>1. U7 \in SUBSET Targeted
    BY <1>0
  <2>. QED
    <3>1. IsCleaner(RuleCopyright)
      BY RuleCopyrightCleans
    <3>. QED
      BY <1>7, <2>1, <3>1, SubChain
<1>9. x9 \in Text /\ x9 \notin U9 /\ (x9 \in Footers <=> x \in Footers)
  BY <1>0, <1>8, RuleProjectSlugCleans, SubChain
<1>. QED
  BY <1>0, <1>9 DEF RewriteText

(* A token is the record of its text and its developer blocks.           *)
LEMMA TokenRecord ==
    ASSUME NEW t \in Token
    PROVE  t = [text |-> t.text, devs |-> t.devs] /\ t.text \in Text /\ t.devs \in Nat
BY DEF Token

(* A substitution changes the text of a token and nothing else.          *)
LEMMA SubRecord ==
    ASSUME NEW R, NEW a, NEW n
    PROVE  Sub(R, [text |-> a, devs |-> n]) = [text |-> SubText(R, a), devs |-> n]
BY DEF Sub, SubText

(* The nine substitutions rewrite the text of a token by RewriteText.    *)
LEMMA NineSubs ==
    ASSUME NEW a, NEW n
    PROVE  Sub(RuleProjectSlug, Sub(RuleCopyright, Sub(RuleGithubOrg,
               Sub(RuleGithubRepo, Sub(RuleShahcoinOrg, Sub(RuleShahcoincore,
                   Sub(RuleSecp, Sub(RuleSecurity, Sub(RuleLegal,
                       [text |-> a, devs |-> n])))))))))
           = [text |-> RewriteText(a), devs |-> n]
<1> DEFINE a0 == a
           a1 == SubText(RuleLegal, a0)
           a2 == SubText(RuleSecurity, a1)
           a3 == SubText(RuleSecp, a2)
           a4 == SubText(RuleShahcoincore, a3)
           a5 == SubText(RuleShahcoinOrg, a4)
           a6 == SubText(RuleGithubRepo, a5)
           a7 == SubText(RuleGithubOrg, a6)
           a8 == SubText(RuleCopyright, a7)
           a9 == SubText(RuleProjectSlug, a8)
           T(x) == [text |-> x, devs |-> n]
<1>1. Sub(RuleLegal, T(a0)) = T(a1)
  BY SubRecord
<1>2. Sub(RuleSecurity, T(a1)) = T(a2)
  BY SubRecord
<1>3. Sub(RuleSecp, T(a2)) = T(a3)
  BY SubRecord
<1>4. Sub(RuleShahcoincore, T(a3)) = T(a4)
  BY SubRecord
<1>5. Sub(RuleShahcoinOrg, T(a4)) = T(a5)
  BY SubRecord
<1>6. Sub(RuleGithubRepo, T(a5)) = T(a6)
  BY SubRecord
<1>7. Sub(RuleGithubOrg, T(a6)) = T(a7)
  BY SubRecord
<1>8. Sub(RuleCopyright, T(a7)) = T(a8)
  BY SubRecord
<1>9. Sub(RuleProjectSlug, T(a8)) = T(a9)
  BY SubRecord
<1>10. a9 = RewriteText(a)
  BY DEF RewriteText
<1>. QED
  BY <1>1, <1>2, <1>3, <1>4, <1>5, <1>6, <1>7, <1>8, <1>9, <1>10

(* update_file_content turns a token into a token whose text and blocks  *)
(* no substitution targets: the nine substitutions leave a text that is   *)
(* not targeted or a footer, and the footer substitution makes any        *)
(* footer the standard one.                                               *)
LEMMA RewriteClean ==
    ASSUME NEW t \in Token
    PROVE  /\ Rewrite(t) \in Token
           /\ Pieces(Rewrite(t)) \cap Targeted = {}
<1> DEFINE y == RewriteText(t.text)
           r == [text |-> y, devs |-> t.devs]
<1>1. Rewrite(t) = RuleFooter(r)
  BY TokenRecord, NineSubs DEF Rewrite
<1>2. /\ y \in Text
      /\ y \notin Targeted \ Footers
      /\ t.devs \in Nat
  BY TokenRecord, RewriteTextClean
<1>3. "footer:dev" \notin Targeted
  BY DEF Targeted
<1>4. CASE y \in Footers
  <2>1. RuleFooter(r) = [text |-> "footer:std-core", devs |-> 2 + t.devs]
    BY <1>4 DEF RuleFooter, StandardFooter, Footers
  <2>2. "footer:std-core" \notin Targeted /\ "footer:std-core" \in Text
    BY DEF Targeted, Text
  <2>. QED
    BY <1>1, <1>2, <1>3, <2>1, <2>2 DEF Token, Pieces
<1>5. CASE y \notin Footers
  <2>1. RuleFooter(r) = r
    BY <1>5 DEF RuleFooter, Footers
  <2>. QED
    BY <1>1, <1>2, <1>3, <1>5, <2>1 DEF Token, Pieces
<1>. QED
  BY <1>4, <1>5

(* update_file_content keeps the number of tokens and leaves a file in     *)
(* which no targeted text occurs.                                          *)
LEMMA UpdateClean ==
    ASSUME NEW c \in Seq(Token)
    PROVE  /\ update_file_content(c) \in Seq(Token)
           /\ Len(update_file_content(c)) = Len(c)
           /\ ~Found(Targeted, update_file_content(c))
<1> DEFINE u == update_file_content(c)
<1>1. \A j \in 1 .. Len(c) : c[j] \in Token
  OBVIOUS
<1>2. \A j \in 1 .. Len(c) : Rewrite(c[j]) \in Token /\ Pieces(Rewrite(c[j])) \cap Targeted = {}
  BY <1>1, RewriteClean
<1>3. u \in Seq(Token) /\ Len(u) = Len(c) /\ \A j \in 1 .. Len(c) : u[j] = Rewrite(c[j])
  BY <1>2 DEF update_file_content
<1>. QED
  BY <1>2, <1>3 DEF Found

(* An audit never empties a file that held text: Rewrite maps a token to   *)
(* one token, so only a failed write leaves an empty file.                 *)
LEMMA UpdateNonEmpty ==
    ASSUME NEW c \in Seq(Token), c # <<>>
    PROVE  update_file_content(c) # <<>>
BY UpdateClean

-----------------------------------------------------------------------------
(* The invariant the proofs go by: the type invariant, LegacyRemoved, and  *)
(* the two facts that carry CleanRunRebrands across a run.  In a run that *)
(* has met no error so far, every file already visited was rewritten;     *)
(* after a run whose summary shows no error, every file was.  Without     *)
(* RunAudited, Summarize could print a clean summary for a run in which   *)
(* some file was skipped.                                                 *)
RunAudited == pc = "auditing" /\ errors = 0 => Files \ todo \subseteq fixed

CleanRunAudited == pc = "idle" /\ LastAuditClean => Files \subseteq fixed

(* Inside a run the bound on the runs still has room for its summary: it *)
(* was checked by StartAudit and Summarize alone appends.                 *)
RoomForSummary == pc = "auditing" => Len(reports) < MaxAudits

IInv == TypeOK /\ RoomForSummary /\ LegacyRemoved /\ RunAudited /\ CleanRunAudited

LEMMA InitIInv == Init => IInv
<1> SUFFICES ASSUME Init PROVE IInv
  OBVIOUS
<1>1. TypeOK
  BY FilesAssumption DEF Init, TypeOK
<1>. QED
  BY <1>1 DEF Init, IInv, RoomForSummary, LegacyRemoved, RunAudited, CleanRunAudited,
             LastAuditClean

LEMMA NextIInv == IInv /\ [Next]_vars => IInv'
<1> SUFFICES ASSUME IInv, [Next]_vars PROVE IInv'
  OBVIOUS
<1> USE FilesAssumption
<1>0. /\ TypeOK /\ RoomForSummary /\ LegacyRemoved /\ RunAudited /\ CleanRunAudited
      /\ Files \subseteq Paths
  BY DEF IInv, Files
<1>1. CASE StartAudit
  <2>1. TypeOK'
    BY <1>0, <1>1 DEF StartAudit, TypeOK
  <2>2. LegacyRemoved'
    BY <1>0, <1>1 DEF StartAudit, LegacyRemoved
  <2>3. RunAudited'
    BY <1>1 DEF StartAudit, RunAudited
  <2>4. CleanRunAudited'
    BY <1>1 DEF StartAudit, CleanRunAudited
  <2>5. RoomForSummary'
    BY <1>1 DEF StartAudit, RoomForSummary
  <2>. QED
    BY <2>1, <2>2, <2>3, <2>4, <2>5 DEF IInv
<1>2. ASSUME NEW f \in Files, AuditFile(f)
      PROVE IInv'
  <2> DEFINE c == content[f]
             new == update_file_content(c)
  <2>1. c \in Seq(Token)
    BY <1>0 DEF TypeOK
  <2>2. new \in Seq(Token) /\ ~Found(Targeted, new) /\ (c # <<>> => new # <<>>)
    BY <2>1, UpdateClean, UpdateNonEmpty
  <2>3. content' = [content EXCEPT ![f] = new]
    BY <1>2 DEF AuditFile
  <2>4. TypeOK'
    <3>1. content' \in [Paths -> Seq(Token)]
      BY <1>0, <2>2, <2>3 DEF TypeOK
    <3>2. {updated', withOld', withNew', errors'} \subseteq Nat
      BY <1>0, <1>2 DEF AuditFile, TypeOK
    <3>3. todo' \subseteq Files /\ fixed' \subseteq Files
      BY <1>0, <1>2 DEF AuditFile, TypeOK
    <3>. QED
      BY <1>0, <1>2, <3>1, <3>2, <3>3 DEF AuditFile, TypeOK
  <2>5. LegacyRemoved'
    <3>1. fixed' = fixed \cup {f} /\ f \in Paths
      BY <1>0, <1>2 DEF AuditFile
    <3>2. ~Found(Targeted, content'[f])
      BY <1>0, <2>2, <2>3, <3>1 DEF TypeOK
    <3>3. \A g \in fixed \ {f} : content'[g] = content[g]
      BY <1>0, <2>3 DEF TypeOK
    <3>. QED
      BY <1>0, <3>1, <3>2, <3>3 DEF LegacyRemoved
  <2>6. RunAudited'
    BY <1>0, <1>2 DEF AuditFile, RunAudited
  <2>7. CleanRunAudited'
    BY <1>2 DEF AuditFile, CleanRunAudited
  <2>8. RoomForSummary'
    BY <1>0, <1>2 DEF AuditFile, RoomForSummary
  <2>. QED
    BY <2>4, <2>5, <2>6, <2>7, <2>8 DEF IInv
<1>3. ASSUME NEW f \in Files, AuditFileError(f)
      PROVE IInv'
  <2>1. content' = content \/ content' = [content EXCEPT ![f] = <<>>]
    BY <1>3 DEF AuditFileError
  <2>2. TypeOK'
    <3>1. content' \in [Paths -> Seq(Token)]
      <4>1. <<>> \in Seq(Token) /\ f \in Paths
        BY <1>0
      <4>. QED
        BY <1>0, <2>1, <4>1 DEF TypeOK
    <3>2. {updated', withOld', withNew', errors'} \subseteq Nat
      BY <1>0, <1>3 DEF AuditFileError, TypeOK
    <3>3. todo' \subseteq Files /\ fixed' \subseteq Files
      BY <1>0, <1>3 DEF AuditFileError, TypeOK
    <3>. QED
      BY <1>0, <1>3, <3>1, <3>2, <3>3 DEF AuditFileError, TypeOK
  <2>3. LegacyRemoved'
    <3>1. fixed' = fixed \ {f}
      BY <1>3 DEF AuditFileError
    <3>2. \A g \in fixed' : content'[g] = content[g]
      BY <1>0, <2>1, <3>1 DEF TypeOK
    <3>. QED
      BY <1>0, <3>1, <3>2 DEF LegacyRemoved
  <2>6. RoomForSummary'
    BY <1>0, <1>3 DEF AuditFileError, RoomForSummary
  <2>4. RunAudited'
    BY <1>0, <1>3 DEF AuditFileError, RunAudited, TypeOK
  <2>5. CleanRunAudited'
    BY <1>3 DEF AuditFileError, CleanRunAudited
  <2>. QED
    BY <2>2, <2>3, <2>4, <2>5, <2>6 DEF IInv
<1>4. CASE Summarize
  <2> DEFINE r == [updated |-> updated, old |-> withOld, new |-> withNew,
                   errors |-> errors,
                   status |-> IF withOld = 0 /\ withNew > 0 THEN "complete"
                                                          ELSE "attention"]
  <2>1. reports' = Append(reports, r) /\ r \in Report
    BY <1>0, <1>4 DEF Summarize, TypeOK, Report
  <2>2. TypeOK'
    <3>1. Len(reports) < MaxAudits
      BY <1>0, <1>4 DEF Summarize, RoomForSummary
    <3>. QED
      BY <1>0, <1>4, <2>1, <3>1 DEF Summarize, TypeOK
  <2>3. LegacyRemoved'
    BY <1>0, <1>4 DEF Summarize, LegacyRemoved
  <2>4. \A k \in 1 .. Len(reports) : reports'[k] = reports[k]
    BY <1>0, <2>1 DEF TypeOK
  <2>5. RunAudited'
    BY <1>4 DEF Summarize, RunAudited
  <2>6. CleanRunAudited'
    <3> SUFFICES ASSUME LastAuditClean' PROVE Files \subseteq fixed'
      BY DEF CleanRunAudited
    <3>1. errors = 0
      BY <1>0, <2>1 DEF LastAuditClean, TypeOK
    <3>. QED
      BY <1>0, <1>4, <3>1 DEF Summarize, RunAudited
  <2>7. RoomForSummary'
    BY <1>4 DEF Summarize, RoomForSummary
  <2>. QED
    BY <2>2, <2>3, <2>5, <2>6, <2>7 DEF IInv
<1>5. CASE UNCHANGED vars
  BY <1>0, <1>5 DEF vars, IInv, TypeOK, RoomForSummary, LegacyRemoved, RunAudited,
                   CleanRunAudited, LastAuditClean
<1>. QED
  BY <1>1, <1>2, <1>3, <1>4, <1>5 DEF Next

-----------------------------------------------------------------------------
(* run_audit keeps its state well typed, and never runs more audits than  *)
(* the bound allows, whatever the tree and the bound.                     *)
THEOREM AuditTypeCorrect == Spec => []TypeOK
<1>1. Init => IInv
  BY InitIInv
<1>2. IInv /\ [Next]_vars => IInv'
  BY NextIInv
<1>3. IInv => TypeOK
  BY DEF IInv
<1>. QED
  BY <1>1, <1>2, <1>3, PTL DEF Spec

(* update_file_content does what it is for: every file that audit_file has *)
(* rewritten, and that no later failed write has touched, holds none of   *)
(* the texts the substitutions target, on every tree and after any number *)
(* of runs.                                                               *)
THEOREM LegacyRemovedHolds == Spec => []LegacyRemoved
<1>1. Init => IInv
  BY InitIInv
<1>2. IInv /\ [Next]_vars => IInv'
  BY NextIInv
<1>3. IInv => LegacyRemoved
  BY DEF IInv
<1>. QED
  BY <1>1, <1>2, <1>3, PTL DEF Spec

(* A summary without an error means the tree is rebranded: when run_audit *)
(* has printed a summary with no error, no file of files_to_audit holds a *)
(* targeted text, whatever failed writes earlier runs met.  An exception  *)
(* in audit_file skips that file's rewrite and only the error counter     *)
(* records it; the proof goes by RunAudited, which ties a zero counter to *)
(* the files visited.                                                     *)
THEOREM CleanRunRebrandsHolds == Spec => []CleanRunRebrands
<1>1. Init => IInv
  BY InitIInv
<1>2. IInv /\ [Next]_vars => IInv'
  BY NextIInv
<1>3. IInv => CleanRunRebrands
  BY DEF IInv, CleanRunAudited, LegacyRemoved, CleanRunRebrands
<1>. QED
  BY <1>1, <1>2, <1>3, PTL DEF Spec

(* No step of run_audit puts a targeted text into a file that holds none: *)
(* audit_file writes back only what update_file_content returns, and a    *)
(* failed write leaves the file empty or as it was.                       *)
NeverDirties ==
    \A f \in Paths : ~Found(Targeted, content[f]) => ~Found(Targeted, content'[f])

LEMMA EmptyClean == ~Found(Targeted, << >>)
BY DEF Found

THEOREM AuditNeverDirties == Spec => [][NeverDirties]_vars
<1>1. IInv /\ [Next]_vars => NeverDirties
  <2> SUFFICES ASSUME IInv, [Next]_vars, NEW g \in Paths,
                      ~Found(Targeted, content[g])
               PROVE  ~Found(Targeted, content'[g])
    BY DEF NeverDirties
  <2>0. TypeOK /\ Files \subseteq Paths
    BY DEF IInv, Files
  <2>1. ASSUME NEW f \in Files, AuditFile(f)
        PROVE ~Found(Targeted, content'[g])
    <3>1. content' = [content EXCEPT ![f] = update_file_content(content[f])]
      BY <2>1 DEF AuditFile
    <3>2. ~Found(Targeted, update_file_content(content[f]))
      BY <2>0, UpdateClean DEF TypeOK
    <3>. QED
      BY <2>0, <3>1, <3>2 DEF TypeOK
  <2>2. ASSUME NEW f \in Files, AuditFileError(f)
        PROVE ~Found(Targeted, content'[g])
    <3>1. content' = content \/ content' = [content EXCEPT ![f] = << >>]
      BY <2>2 DEF AuditFileError
    <3>. QED
      BY <2>0, <3>1, EmptyClean DEF TypeOK
  <2>3. CASE StartAudit \/ Summarize \/ UNCHANGED vars
    BY <2>3 DEF StartAudit, Summarize, vars
  <2>. QED
    BY <2>1, <2>2, <2>3 DEF Next
<1>2. Init => IInv
  BY InitIInv
<1>3. IInv /\ [Next]_vars => IInv'
  BY NextIInv
<1>. QED
  BY <1>1, <1>2, <1>3, PTL DEF Spec
=============================================================================
