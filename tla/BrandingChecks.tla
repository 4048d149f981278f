--------------------------- MODULE BrandingChecks ---------------------------
(***************************************************************************)
(* The two read-only branding checkers run against the tree the deep      *)
(* audit (module BrandingAudit) rewrites:                                  *)
(*   - main() of src/verify_branding_updates.py searches a fixed list of   *)
(*     key files for old and new patterns;                                 *)
(*   - check_github_files() of src/check_github_folder.py does the same    *)
(*     for the files under .github.                                        *)
(* Each counts the patterns it finds and prints COMPLETE AND VERIFIED when *)
(* no old pattern and at least one new pattern was found.  A checker run   *)
(* is one step between two audit runs; its verdicts are kept in a log.     *)
(***************************************************************************)
EXTENDS BrandingAudit, FiniteSets

CONSTANTS
    KeyFiles,     \* key_files of verify_branding_updates.py that exist
    GithubFiles,  \* the .yml/.yaml/.md/.txt files under .github
    MaxChecks     \* bound on the number of checker runs

ASSUME ChecksAssumption ==
    /\ KeyFiles \subseteq Paths /\ IsFiniteSet(KeyFiles)
    /\ GithubFiles \subseteq Paths /\ IsFiniteSet(GithubFiles)
    /\ MaxChecks \in Nat

VARIABLE checks   \* the verdicts printed so far, with the tree they saw

allVars == <<vars, checks>>

-----------------------------------------------------------------------------
(* Each pattern is the set of tokens it finds (re.IGNORECASE).  In both    *)
(* scripts the dict literal gives the key "www.shah.vip" twice, so only    *)
(* shahcoin\.org is searched and shahcoincore\.org never is.  The 2021 and *)
(* 2022 copyright patterns and the "2009-2025 ... CORE" one find no token *)
(* of the vocabulary and are left out.                                     *)
ShahVip == {"legal@shah.vip", "info@shah.vip", "secp256k1-info@shah.vip",
            "https://www.shah.vip", "www.shah.vip", "footer:std-core", "footer:dev"}
InfoEmail == {"info@shah.vip", "secp256k1-info@shah.vip", "footer:dev"}
NewRepo == {"github.com/SHAHCoinvip/shahcoin", "footer:std-core"}
SecurityEmail == {"security@shahcoincore.org", "secp256k1-security@shahcoincore.org"}

verify_old_patterns ==
    { {"Copyright (c) 2009-2023 The SHAHCOIN Core developers"},
      {"shahcoin.org"}, {"github.com/shahcoin/shahcoin"},
      {"github.com/shahcoin-core"}, SecurityEmail,
      {"secp256k1-security@shahcoincore.org"} }
verify_new_patterns == {ShahVip, NewRepo, InfoEmail}

github_old_patterns ==
    { {"shahcoin.org"}, {"github.com/shahcoin/shahcoin"},
      {"github.com/shahcoin-core"}, SecurityEmail }
github_new_patterns ==
    {ShahVip, NewRepo, NewRepo \cup {"github.com/SHAHCoinvip"}, InfoEmail}

(* check_file_for_patterns returns the patterns found in a file, and the  *)
(* loop adds len(found) to the total: the total is the number of (file,    *)
(* pattern) pairs with a match.                                            *)
Matches(patterns, files) ==
    {fp \in files \X patterns : Found(fp[2], content[fp[1]])}

Verdict(old, new) == IF old = 0 /\ new > 0 THEN "complete" ELSE "attention"

Init2 == Init /\ checks = <<>>

(* verify_branding_updates.main(): check_file_for_patterns returns          *)
(* ["ERROR: ..."] for a file it cannot read, and that one entry is counted *)
(* both as an old and as a new pattern.                                    *)
VerifyBranding ==
    /\ pc = "idle"
    /\ Len(checks) < MaxChecks
    /\ \E unreadable \in SUBSET KeyFiles :
          LET read == KeyFiles \ unreadable
              old == Cardinality(Matches(verify_old_patterns, read)) + Cardinality(unreadable)
              new == Cardinality(Matches(verify_new_patterns, read)) + Cardinality(unreadable)
          IN  checks' = Append(checks,
                  [script |-> "verify", files |-> KeyFiles, old |-> old,
                   new |-> new, status |-> Verdict(old, new),
                   unreadable |-> unreadable, tree |-> content, clean |-> LastAuditClean])
    /\ UNCHANGED vars

(* check_github_files(): a file it cannot read is reported and skipped.    *)
CheckGithubFolder ==
    /\ pc = "idle"
    /\ Len(checks) < MaxChecks
    /\ \E unreadable \in SUBSET GithubFiles :
          LET read == GithubFiles \ unreadable
              old == Cardinality(Matches(github_old_patterns, read))
              new == Cardinality(Matches(github_new_patterns, read))
          IN  checks' = Append(checks,
                  [script |-> "github", files |-> GithubFiles, old |-> old,
                   new |-> new, status |-> Verdict(old, new),
                   unreadable |-> unreadable, tree |-> content, clean |-> LastAuditClean])
    /\ UNCHANGED vars

Next2 ==
    \/ Next /\ UNCHANGED checks
    \/ VerifyBranding
    \/ CheckGithubFolder

Spec2 == Init2 /\ [][Next2]_allVars

-----------------------------------------------------------------------------
Check == [script : {"verify", "github"}, files : SUBSET Paths, old : Nat,
          new : Nat, status : {"complete", "attention"},
          unreadable : SUBSET Paths, tree : [Paths -> Seq(Token)],
          clean : BOOLEAN]

TypeOK2 ==
    /\ TypeOK
    /\ checks \in Seq(Check)
    /\ Len(checks) <= MaxChecks

(* The checkers confirm the audit: a checker run after an audit run that   *)
(* reported no error, and that can read all its files, finds no old        *)
(* pattern.  This needs every file a checker reads to be one the audit     *)
(* visits, which should_skip_file decides.                                 *)
AuditPassesChecks ==
    \A k \in 1 .. Len(checks) :
        checks[k].clean /\ checks[k].unreadable = {}
            => checks[k].old = 0

(* A COMPLETE verdict of a checker means the files it read hold none of    *)
(* the legacy domains, URLs and addresses the checker was written to find. *)
LegacyBranding == {"security@shahcoincore.org", "secp256k1-security@shahcoincore.org",
                   "https://shahcoincore.org", "shahcoincore.org", "shahcoin.org",
                   "github.com/shahcoin/shahcoin", "github.com/shahcoin-core"}

CheckerSound ==
    \A k \in 1 .. Len(checks) :
        checks[k].status = "complete"
            => \A f \in checks[k].files \ checks[k].unreadable :
                   ~Found(LegacyBranding, checks[k].tree[f])
=============================================================================
