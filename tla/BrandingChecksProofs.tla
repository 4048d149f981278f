------------------------- MODULE BrandingChecksProofs -----------------------
(***************************************************************************)
(* Proofs about the branding checkers (module BrandingChecks) run between  *)
(* audit runs, for every tree, every set of key and .github files and      *)
(* every bound.  The invariant of the audit (BrandingAuditProofs) carries  *)
(* over, since a checker run changes no file.                              *)
(***************************************************************************)
EXTENDS BrandingChecks, BrandingAuditProofs, FiniteSetTheorems, TLAPS

(* Every text some old pattern of either checker finds.                   *)
CheckerOld == UNION verify_old_patterns \cup UNION github_old_patterns

(* The files the checkers read but the audit skips (should_skip_file)     *)
(* hold none of the checkers' old patterns before the first audit.        *)
SkippedFilesClean ==
    \A f \in (KeyFiles \cup GithubFiles) \ Files : ~Found(CheckerOld, InitContent[f])

(* The audit never writes a file that should_skip_file rules out.         *)
SkippedUntouched == \A f \in Paths \ Files : content[f] = InitContent[f]

CheckLog == checks \in Seq(Check) /\ Len(checks) <= MaxChecks

IInvT == IInv /\ CheckLog

IInvP == IInvT /\ SkippedUntouched /\ AuditPassesChecks

-----------------------------------------------------------------------------
(* The pattern tables are finite.                                         *)
LEMMA PatternsFinite ==
    /\ IsFiniteSet(verify_old_patterns) /\ IsFiniteSet(verify_new_patterns)
    /\ IsFiniteSet(github_old_patterns) /\ IsFiniteSet(github_new_patterns)
<1>1. \A a, b, c : IsFiniteSet({a, b, c})
  <2> TAKE a, b, c
  <2>1. IsFiniteSet({a}) /\ {a, b, c} = ({a} \cup {b}) \cup {c}
    BY FS_Singleton
  <2>2. IsFiniteSet({a} \cup {b})
    BY <2>1, FS_AddElement
  <2>. QED
    BY <2>1, <2>2, FS_AddElement
<1>2. \A a, b, c, d, e, g : IsFiniteSet({a, b, c, d, e, g})
  <2> TAKE a, b, c, d, e, g
  <2>1. {a, b, c, d, e, g} = {a, b, c} \cup {d, e, g}
    OBVIOUS
  <2>2. IsFiniteSet({a, b, c}) /\ IsFiniteSet({d, e, g})
    BY <1>1
  <2>3. IsFiniteSet({a, b, c} \cup {d, e, g})
    BY <2>2, FS_Union
  <2>. QED
    BY <2>1, <2>3
<1>3. \A a, b, c, d : IsFiniteSet({a, b, c, d})
  <2> TAKE a, b, c, d
  <2>1. {a, b, c, d} = {a, b, c} \cup {d}
    OBVIOUS
  <2>2. IsFiniteSet({a, b, c})
    BY <1>1
  <2>3. IsFiniteSet({a, b, c} \cup {d})
    BY <2>2, FS_AddElement
  <2>. QED
    BY <2>1, <2>3
<1>. QED
  BY <1>1, <1>2, <1>3
     DEF verify_old_patterns, verify_new_patterns, github_old_patterns, github_new_patterns

(* The total over finite files and patterns is a natural number.          *)
LEMMA MatchesCount ==
    ASSUME NEW P, IsFiniteSet(P), NEW F, IsFiniteSet(F)
    PROVE  Cardinality(Matches(P, F)) \in Nat
<1>1. IsFiniteSet(F \X P)
  BY FS_Product
<1>2. Matches(P, F) \subseteq F \X P
  BY DEF Matches
<1>. QED
  BY <1>1, <1>2, FS_Subset, FS_CardinalityType

(* The set of files a checker could not read, and the set it read, are    *)
(* finite.                                                                *)
LEMMA FilesFinite ==
    ASSUME NEW S, IsFiniteSet(S), NEW U \in SUBSET S
    PROVE  IsFiniteSet(U) /\ Cardinality(U) \in Nat
           /\ IsFiniteSet(S \ U)
BY FS_Subset, FS_CardinalityType, FS_Difference

-----------------------------------------------------------------------------
(* The steps of the audit in Spec2 keep IInv; a checker run is a          *)
(* stuttering step of the audit.                                          *)
LEMMA AuditPart ==
    ASSUME IInv, [Next2]_allVars
    PROVE  IInv'
<1>1. [Next]_vars
  BY DEF Next2, VerifyBranding, CheckGithubFolder, allVars
<1>. QED
  BY <1>1, NextIInv

(* A checker run appends a well-typed record.                             *)
LEMMA CheckStep ==
    ASSUME TypeOK, CheckLog, VerifyBranding \/ CheckGithubFolder
    PROVE  CheckLog'
<1> USE ChecksAssumption
<1>0. IsFiniteSet(verify_old_patterns) /\ IsFiniteSet(verify_new_patterns)
      /\ IsFiniteSet(github_old_patterns) /\ IsFiniteSet(github_new_patterns)
  BY PatternsFinite
<1>1. CASE VerifyBranding
  <2>1. PICK unreadable \in SUBSET KeyFiles :
          LET read == KeyFiles \ unreadable
              old == Cardinality(Matches(verify_old_patterns, read)) + Cardinality(unreadable)
              new == Cardinality(Matches(verify_new_patterns, read)) + Cardinality(unreadable)
          IN  checks' = Append(checks,
                  [script |-> "verify", files |-> KeyFiles, old |-> old,
                   new |-> new, status |-> Verdict(old, new),
                   unreadable |-> unreadable, tree |-> content, clean |-> LastAuditClean])
    BY <1>1 DEF VerifyBranding
  <2> DEFINE read == KeyFiles \ unreadable
             old == Cardinality(Matches(verify_old_patterns, read)) + Cardinality(unreadable)
             new == Cardinality(Matches(verify_new_patterns, read)) + Cardinality(unreadable)
             rec == [script |-> "verify", files |-> KeyFiles, old |-> old,
                     new |-> new, status |-> Verdict(old, new),
                     unreadable |-> unreadable, tree |-> content, clean |-> LastAuditClean]
  <2>2. /\ Cardinality(unreadable) \in Nat
        /\ IsFiniteSet(read)
    BY FilesFinite
  <2>3. /\ Cardinality(Matches(verify_old_patterns, read)) \in Nat
        /\ Cardinality(Matches(verify_new_patterns, read)) \in Nat
    BY <1>0, <2>2, MatchesCount
  <2>4. old \in Nat /\ new \in Nat
    BY <2>2, <2>3
  <2>5. rec \in Check
    BY <2>4 DEF Check, Verdict, TypeOK, LastAuditClean
  <2>6. Len(checks) < MaxChecks
    BY <1>1 DEF VerifyBranding
  <2>. QED
    BY <2>1, <2>5, <2>6 DEF CheckLog
<1>2. CASE CheckGithubFolder
  <2>1. PICK unreadable \in SUBSET GithubFiles :
          LET read == GithubFiles \ unreadable
              old == Cardinality(Matches(github_old_patterns, read))
              new == Cardinality(Matches(github_new_patterns, read))
          IN  checks' = Append(checks,
                  [script |-> "github", files |-> GithubFiles, old |-> old,
                   new |-> new, status |-> Verdict(old, new),
                   unreadable |-> unreadable, tree |-> content, clean |-> LastAuditClean])
    BY <1>2 DEF CheckGithubFolder
  <2> DEFINE read == GithubFiles \ unreadable
             old == Cardinality(Matches(github_old_patterns, read))
             new == Cardinality(Matches(github_new_patterns, read))
             rec == [script |-> "github", files |-> GithubFiles, old |-> old,
                     new |-> new, status |-> Verdict(old, new),
                     unreadable |-> unreadable, tree |-> content, clean |-> LastAuditClean]
  <2>2. IsFiniteSet(read)
    BY FilesFinite
  <2>3. old \in Nat /\ new \in Nat
    BY <1>0, <2>2, MatchesCount
  <2>4. rec \in Check
    BY <2>3 DEF Check, Verdict, TypeOK, LastAuditClean
  <2>5. Len(checks) < MaxChecks
    BY <1>2 DEF CheckGithubFolder
  <2>. QED
    BY <2>1, <2>4, <2>5 DEF CheckLog
<1>. QED
  BY <1>1, <1>2

LEMMA InitIInvT == Init2 => IInvT
BY InitIInv, ChecksAssumption DEF Init2, IInvT, CheckLog

LEMMA NextIInvT == IInvT /\ [Next2]_allVars => IInvT'
<1> SUFFICES ASSUME IInvT, [Next2]_allVars PROVE IInvT'
  OBVIOUS
<1>1. IInv'
  BY AuditPart DEF IInvT
<1>2. CheckLog'
  <2>1. CASE Next /\ UNCHANGED checks
    BY <2>1 DEF IInvT, CheckLog
  <2>2. CASE VerifyBranding \/ CheckGithubFolder
    BY <2>2, CheckStep DEF IInvT, IInv
  <2>3. CASE UNCHANGED allVars
    BY <2>3 DEF IInvT, CheckLog, allVars
  <2>. QED
    BY <2>1, <2>2, <2>3 DEF Next2
<1>. QED
  BY <1>1, <1>2 DEF IInvT

(* The checkers' counters and log are well typed, and a checker never     *)
(* runs more often than the bound allows: every total of                  *)
(* verify_branding_updates.py and check_github_folder.py is a natural     *)
(* number, for any finite key and .github file lists.                     *)
THEOREM ChecksTypeCorrect == Spec2 => []TypeOK2
<1>1. IInvT => TypeOK2
  BY DEF IInvT, IInv, CheckLog, TypeOK2
<1>. QED
  BY InitIInvT, NextIInvT, <1>1, PTL DEF Spec2

-----------------------------------------------------------------------------
(* Every old pattern of a checker finds only texts the audit targets.     *)
LEMMA OldPatternsTargeted ==
    \A p \in verify_old_patterns \cup github_old_patterns :
        p \subseteq Targeted /\ p \subseteq CheckerOld
BY DEF verify_old_patterns, github_old_patterns, SecurityEmail, Targeted, CheckerOld

(* A search for fewer texts finds less.                                   *)
LEMMA FoundMono ==
    ASSUME NEW p, NEW q, p \subseteq q, NEW c, Found(p, c)
    PROVE  Found(q, c)
BY DEF Found

(* Between runs, after a clean run, no file a checker reads holds an old   *)
(* pattern of it: an audited file was rewritten, and a skipped one is as   *)
(* it was before the first audit.                                         *)
LEMMA CheckedFilesClean ==
    ASSUME SkippedFilesClean, IInvP, pc = "idle", LastAuditClean,
           NEW f \in KeyFiles \cup GithubFiles,
           NEW p \in verify_old_patterns \cup github_old_patterns
    PROVE  ~Found(p, content[f])
<1> USE ChecksAssumption
<1>1. p \subseteq Targeted /\ p \subseteq CheckerOld
  BY OldPatternsTargeted
<1>2. CASE f \in Files
  <2>1. f \in fixed
    BY <1>2 DEF IInvP, IInvT, IInv, CleanRunAudited
  <2>2. ~Found(Targeted, content[f])
    BY <2>1 DEF IInvP, IInvT, IInv, LegacyRemoved
  <2>. QED
    BY <1>1, <2>2, FoundMono
<1>3. CASE f \notin Files
  <2>1. content[f] = InitContent[f]
    BY <1>3 DEF IInvP, SkippedUntouched
  <2>2. ~Found(CheckerOld, InitContent[f])
    BY <1>3 DEF SkippedFilesClean
  <2>. QED
    BY <1>1, <2>1, <2>2, FoundMono
<1>. QED
  BY <1>2, <1>3

(* Then a checker finds no old pattern.                                   *)
LEMMA NoOldMatches ==
    ASSUME SkippedFilesClean, IInvP, pc = "idle", LastAuditClean,
           NEW F \in SUBSET (KeyFiles \cup GithubFiles),
           NEW P \in SUBSET (verify_old_patterns \cup github_old_patterns)
    PROVE  Cardinality(Matches(P, F)) = 0
<1>1. Matches(P, F) = {}
  BY CheckedFilesClean DEF Matches
<1>. QED
  BY <1>1, FS_EmptySet

-----------------------------------------------------------------------------
(* The audit never writes a file that should_skip_file rules out: every  *)
(* step keeps SkippedUntouched.                                            *)
LEMMA StepAudited ==
    ASSUME IInvP, [Next2]_allVars
    PROVE  SkippedUntouched'
<1>0. TypeOK /\ SkippedUntouched
  BY DEF IInvP, IInvT, IInv
<1>1. CASE StartAudit \/ Summarize
  BY <1>0, <1>1 DEF StartAudit, Summarize, SkippedUntouched
<1>2. ASSUME NEW f \in Files, AuditFile(f)
      PROVE SkippedUntouched'
  BY <1>0, <1>2 DEF AuditFile, SkippedUntouched, TypeOK
<1>3. ASSUME NEW f \in Files, AuditFileError(f)
      PROVE SkippedUntouched'
  <2>1. content' = content \/ content' = [content EXCEPT ![f] = << >>]
    BY <1>3 DEF AuditFileError
  <2>. QED
    BY <1>0, <2>1 DEF SkippedUntouched, TypeOK
<1>4. CASE UNCHANGED vars
  BY <1>0, <1>4 DEF vars, SkippedUntouched
<1>. QED
  <2>1. [Next]_vars
    BY DEF Next2, VerifyBranding, CheckGithubFolder, allVars
  <2>. QED
    BY <2>1, <1>1, <1>2, <1>3, <1>4 DEF Next

(* A record appended to a log of checks keeps the earlier records.        *)
LEMMA AppendKeeps ==
    ASSUME NEW s \in Seq(Check), NEW r \in Check
    PROVE  /\ Len(Append(s, r)) = Len(s) + 1
           /\ \A k \in 1 .. Len(s) : Append(s, r)[k] = s[k]
           /\ Append(s, r)[Len(s) + 1] = r
OBVIOUS

(* A checker run after a clean audit that reads all its files finds no    *)
(* old pattern; the verdicts logged earlier stay as they were.            *)
LEMMA StepPasses ==
    ASSUME SkippedFilesClean, IInvP, [Next2]_allVars
    PROVE  AuditPassesChecks'
<1> USE ChecksAssumption
<1>0. /\ checks \in Seq(Check) /\ AuditPassesChecks /\ CheckLog'
  <2>1. IInvT'
    BY NextIInvT DEF IInvP
  <2>. QED
    BY <2>1 DEF IInvP, IInvT, CheckLog
<1>1. CASE Next /\ UNCHANGED checks
  BY <1>0, <1>1 DEF AuditPassesChecks
<1>2. CASE VerifyBranding
  <2>1. PICK unreadable \in SUBSET KeyFiles :
          LET read == KeyFiles \ unreadable
              old == Cardinality(Matches(verify_old_patterns, read)) + Cardinality(unreadable)
              new == Cardinality(Matches(verify_new_patterns, read)) + Cardinality(unreadable)
          IN  checks' = Append(checks,
                  [script |-> "verify", files |-> KeyFiles, old |-> old,
                   new |-> new, status |-> Verdict(old, new),
                   unreadable |-> unreadable, tree |-> content, clean |-> LastAuditClean])
    BY <1>2 DEF VerifyBranding
  <2> DEFINE read == KeyFiles \ unreadable
             old == Cardinality(Matches(verify_old_patterns, read)) + Cardinality(unreadable)
             new == Cardinality(Matches(verify_new_patterns, read)) + Cardinality(unreadable)
             rec == [script |-> "verify", files |-> KeyFiles, old |-> old,
                     new |-> new, status |-> Verdict(old, new),
                     unreadable |-> unreadable, tree |-> content, clean |-> LastAuditClean]
  <2>2. rec.clean /\ rec.unreadable = {} => rec.old = 0
    <3> SUFFICES ASSUME LastAuditClean, unreadable = {} PROVE old = 0
      OBVIOUS
    <3>1. pc = "idle"
      BY <1>2 DEF VerifyBranding
    <3>2. Cardinality(Matches(verify_old_patterns, read)) = 0
      BY <3>1, NoOldMatches
    <3>3. Cardinality(unreadable) = 0
      BY FS_EmptySet
    <3>. QED
      BY <3>2, <3>3
  <2>3. rec \in Check
    BY <1>0, <2>1, AppendKeeps DEF CheckLog
  <2>. QED
    BY <1>0, <2>1, <2>2, <2>3, AppendKeeps DEF AuditPassesChecks
<1>3. CASE CheckGithubFolder
  <2>1. PICK unreadable \in SUBSET GithubFiles :
          LET read == GithubFiles \ unreadable
              old == Cardinality(Matches(github_old_patterns, read))
              new == Cardinality(Matches(github_new_patterns, read))
          IN  checks' = Append(checks,
                  [script |-> "github", files |-> GithubFiles, old |-> old,
                   new |-> new, status |-> Verdict(old, new),
                   unreadable |-> unreadable, tree |-> content, clean |-> LastAuditClean])
    BY <1>3 DEF CheckGithubFolder
  <2> DEFINE read == GithubFiles \ unreadable
             old == Cardinality(Matches(github_old_patterns, read))
             new == Cardinality(Matches(github_new_patterns, read))
             rec == [script |-> "github", files |-> GithubFiles, old |-> old,
                     new |-> new, status |-> Verdict(old, new),
                     unreadable |-> unreadable, tree |-> content, clean |-> LastAuditClean]
  <2>2. rec.clean /\ rec.unreadable = {} => rec.old = 0
    <3> SUFFICES ASSUME LastAuditClean PROVE old = 0
      OBVIOUS
    <3>1. pc = "idle"
      BY <1>3 DEF CheckGithubFolder
    <3>. QED
      BY <3>1, NoOldMatches
  <2>3. rec \in Check
    BY <1>0, <2>1, AppendKeeps DEF CheckLog
  <2>. QED
    BY <1>0, <2>1, <2>2, <2>3, AppendKeeps DEF AuditPassesChecks
<1>4. CASE UNCHANGED allVars
  BY <1>0, <1>4 DEF allVars, AuditPassesChecks
<1>. QED
  BY <1>1, <1>2, <1>3, <1>4 DEF Next2

LEMMA InitIInvP == Init2 => IInvP
BY InitIInvT DEF Init2, Init, IInvP, LastAuditClean, SkippedUntouched, AuditPassesChecks

LEMMA NextIInvP == SkippedFilesClean => (IInvP /\ [Next2]_allVars => IInvP')
BY NextIInvT, StepAudited, StepPasses DEF IInvP

(* The two checkers confirm the audit: a run of verify_branding_updates.py *)
(* or check_github_folder.py after an audit run that printed no error,    *)
(* and that can read all its files, counts no old pattern, provided the    *)
(* files it reads that should_skip_file keeps from the audit held none to *)
(* begin with.  Without that hypothesis the property fails (the run       *)
(* branding_skipped).                                                     *)
THEOREM AuditPassesChecksHolds ==
    ASSUME SkippedFilesClean
    PROVE  Spec2 => []AuditPassesChecks
<1>1. IInvP /\ [Next2]_allVars => IInvP'
  BY NextIInvP
<1>2. IInvP => AuditPassesChecks
  BY DEF IInvP
<1>. QED
  BY InitIInvP, <1>1, <1>2, PTL DEF Spec2
=============================================================================
