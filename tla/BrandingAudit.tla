---------------------------- MODULE BrandingAudit ---------------------------
(***************************************************************************)
(* BrandingAuditor.run_audit of src/deep_branding_audit.py: one audit run  *)
(* walks the project's files in an arbitrary (glob) order and, for each,   *)
(* audit_file reads it, records which legacy and which new branding        *)
(* patterns it contains, rewrites it with update_file_content and writes   *)
(* it back if anything changed; at the end the run prints its counters     *)
(* and a verdict.  The audit may be run again on the rewritten tree.       *)
(*                                                                         *)
(* A file is a sequence of tokens: each token is a piece of text that one  *)
(* or more of the script's regular expressions match as a whole (an email *)
(* address, a URL, a copyright line, the licence footer, ...).  A regex    *)
(* substitution rewrites tokens; a search asks whether a token of a set    *)
(* occurs.  The token vocabulary is chosen so that no pattern of the       *)
(* script matches across two tokens.                                       *)
(***************************************************************************)
EXTENDS Naturals, Sequences

CONSTANTS
    Paths,        \* the files under the project root (glob '**/*', is_file())
    PathInfo,     \* for each path: which listed extensions str(p) ends
                  \* with, and which skip_dirs occur in str(p) as substrings
    InitContent,  \* their content before the first audit
    MaxAudits     \* bound on the number of audit runs

Text == {
    "legal@shah.vip", "security@shahcoincore.org",
    "secp256k1-security@shahcoincore.org", "info@shah.vip",
    "secp256k1-info@shah.vip", "dev@example.org",
    "https://shahcoincore.org", "shahcoincore.org", "shahcoin.org",
    "https://www.shah.vip", "www.shah.vip",
    "github.com/shahcoin/shahcoin", "github.com/shahcoin-core",
    "github.com/SHAHCoinvip/shahcoin", "github.com/SHAHCoinvip",
    "Copyright (c) 2009-2023 The SHAHCOIN Core developers",
    "Copyright (c) 2009-2023 Other",
    "Copyright (C) 2025 The SHAHCOIN Core Developers",
    "SHAHCOIN Core", "SHAHCOIN-CORE", "shahcoin-core",
    "footer:old",       \* a licence footer of another wording
    "footer:std-core",  \* the standard footer up to "...licenses/MIT>."
    "text" }

(* A token: a piece of text and the number of "Primary Developer: ... /   *)
(* Contact: info@shah.vip" blocks that follow it before the next token.   *)
(* Only the footer substitution writes such blocks.                       *)
Token == [text : Text, devs : Nat]

(* BrandingAuditor.__init__: the directory names, the extensions to       *)
(* process and the binary extensions.                                     *)
skip_dirs == {".git", "build", "dist", "node_modules", "__pycache__",
              "test/tmp", ".vscode", ".idea", "autom4te.cache"}
file_extensions == {".cpp", ".h", ".md", ".sh", ".bat", ".conf", ".desktop",
                    ".rc", ".json", ".txt", ".xpm", ".yml", ".yaml", ".py",
                    ".in", ".1", ".am", ".ac", ".pc", ".cmake", ".mk"}
binary_extensions == {".o", ".a", ".so", ".dll", ".exe", ".pyc", ".class",
                      ".obj", ".lib", ".dylib", ".bin"}

ASSUME FilesAssumption ==
    /\ PathInfo \in [Paths -> [ends : SUBSET (file_extensions \cup binary_extensions),
                               contains : SUBSET skip_dirs]]
    /\ InitContent \in [Paths -> Seq(Token)]
    /\ MaxAudits \in Nat

(* should_skip_file: a binary suffix, a skip_dirs name anywhere in the     *)
(* path string (a substring test: ".github" contains ".git", "build_msvc" *)
(* contains "build"), or no suffix of file_extensions.                    *)
should_skip_file(p) ==
    \/ PathInfo[p].ends \cap binary_extensions # {}
    \/ PathInfo[p].contains # {}
    \/ PathInfo[p].ends \cap file_extensions = {}

(* run_audit's files_to_audit.                                            *)
Files == {p \in Paths : ~should_skip_file(p)}

-----------------------------------------------------------------------------
(* self.old_patterns as Python builds it: the dict literal repeats keys,  *)
(* so legal@shah\.vip, shahcoincore\.org and http://shahcoincore\.org are *)
(* overwritten by later entries and never searched.  The tokens that one  *)
(* of the remaining patterns finds (re.IGNORECASE).                       *)
old_patterns == {
    "security@shahcoincore.org", "secp256k1-security@shahcoincore.org",
    "dev@example.org", "https://shahcoincore.org", "shahcoin.org",
    "github.com/shahcoin/shahcoin", "github.com/shahcoin-core",
    "Copyright (c) 2009-2023 The SHAHCOIN Core developers",
    "Copyright (c) 2009-2023 Other",
    "Copyright (C) 2025 The SHAHCOIN Core Developers",
    "SHAHCOIN Core", "SHAHCOIN-CORE", "shahcoin-core", "footer:std-core" }

(* self.new_patterns: the tokens one of them finds.                       *)
new_patterns == {
    "info@shah.vip", "secp256k1-info@shah.vip", "https://www.shah.vip",
    "github.com/SHAHCoinvip/shahcoin", "github.com/SHAHCoinvip",
    "Copyright (C) 2025 The SHAHCOIN Core Developers", "SHAHCOIN Core",
    "Copyright (c) 2009-2023 The SHAHCOIN Core developers",
    "footer:std-core", "footer:dev" }

(* What a search sees of a token: its text, and "footer:dev" for the     *)
(* developer blocks after it.                                             *)
Pieces(t) == {t.text} \cup (IF t.devs > 0 THEN {"footer:dev"} ELSE {})

Found(patterns, c) == \E j \in 1 .. Len(c) : Pieces(c[j]) \cap patterns # {}

(* re.sub with a rule, on one token: the rule maps the texts it matches.  *)
Sub(rule, t) == IF t.text \in DOMAIN rule THEN [t EXCEPT !.text = rule[t.text]] ELSE t

-----------------------------------------------------------------------------
(* The substitutions of update_file_content.                              *)
RuleLegal == [x \in {"legal@shah.vip"} |-> "info@shah.vip"]

(* security@shahcoincore\.org also matches inside the secp256k1 address.  *)
RuleSecurity ==
    [x \in {"security@shahcoincore.org", "secp256k1-security@shahcoincore.org"} |->
        IF x = "security@shahcoincore.org" THEN "info@shah.vip"
                                           ELSE "secp256k1-info@shah.vip"]

RuleSecp == [x \in {"secp256k1-security@shahcoincore.org"} |-> "info@shah.vip"]

RuleShahcoincore ==
    [x \in {"https://shahcoincore.org", "shahcoincore.org"} |->
        IF x = "https://shahcoincore.org" THEN "https://www.shah.vip"
                                          ELSE "www.shah.vip"]

(* Mutant: only the https?:// substitution of step 2 is kept.            *)
RuleShahcoinOrgUrlOnly == [x \in {"https://shahcoin.org"} |-> "https://www.shah.vip"]

RuleShahcoinOrg == [x \in {"shahcoin.org"} |-> "www.shah.vip"]

RuleGithubRepo ==
    [x \in {"github.com/shahcoin/shahcoin"} |-> "github.com/SHAHCoinvip/shahcoin"]

(* Mutant: the organisation pattern is misspelt and matches nothing.     *)
RuleGithubOrgTypo == [x \in {"github.com/shahcoin_core"} |-> "github.com/SHAHCoinvip"]

RuleGithubOrg == [x \in {"github.com/shahcoin-core"} |-> "github.com/SHAHCoinvip"]

RuleCopyright ==
    [x \in {"Copyright (c) 2009-2023 The SHAHCOIN Core developers"} |->
        "Copyright (C) 2025 The SHAHCOIN Core Developers"]

(* "SHAHCOIN Core" -> "SHAHCOIN Core" changes nothing; re.IGNORECASE      *)
(* lower-cases every spelling of shahcoin-core.                           *)
RuleProjectSlug == [x \in {"SHAHCOIN-CORE"} |-> "shahcoin-core"]

(* old_license_pattern matches any footer wording, the standard one       *)
(* included, up to "...licenses/MIT>."; the standard footer that replaces *)
(* it ends with two Primary Developer blocks, and the blocks that          *)
(* followed the old match stay after them.                                *)
StandardFooter == [text |-> "footer:std-core", devs |-> 2]

RuleFooter(t) ==
    IF t.text \in {"footer:old", "footer:std-core"}
    THEN [StandardFooter EXCEPT !.devs = @ + t.devs]
    ELSE t

(* The substitutions in the order update_file_content applies them.  Each *)
(* re.sub replaces every match and no pattern spans two tokens, so the    *)
(* sequence of whole-file substitutions rewrites each token on its own.   *)
Rewrite(t) ==
    RuleFooter(Sub(RuleProjectSlug, Sub(RuleCopyright, Sub(RuleGithubOrg,
        Sub(RuleGithubRepo, Sub(RuleShahcoinOrg, Sub(RuleShahcoincore,
            Sub(RuleSecp, Sub(RuleSecurity, Sub(RuleLegal, t))))))))))

update_file_content(c) == [j \in 1 .. Len(c) |-> Rewrite(c[j])]

-----------------------------------------------------------------------------
VARIABLES
    content,   \* the text of each file
    pc,        \* "idle" between runs, "auditing" inside run_audit's loop
    todo,      \* files_to_audit not yet visited by the for loop
    updated,   \* updated_files
    withOld,   \* files_with_old_patterns
    withNew,   \* files_with_new_patterns
    errors,    \* errors
    reports,   \* the printed summaries of the finished runs, in order
    fixed      \* files whose last audit_file call returned no error

vars == <<content, pc, todo, updated, withOld, withNew, errors, reports, fixed>>

Report == [updated : Nat, old : Nat, new : Nat, errors : Nat,
           status : {"complete", "attention"}]

Init ==
    /\ content = InitContent
    /\ pc = "idle"
    /\ todo = {}
    /\ updated = 0 /\ withOld = 0 /\ withNew = 0 /\ errors = 0
    /\ reports = <<>>
    /\ fixed = {}

(* Mutant: files_to_audit collects every file, without should_skip_file. *)
StartAuditAllPaths ==
    /\ pc = "idle"
    /\ Len(reports) < MaxAudits
    /\ pc' = "auditing"
    /\ todo' = Paths
    /\ updated' = 0 /\ withOld' = 0 /\ withNew' = 0 /\ errors' = 0
    /\ UNCHANGED <<content, reports, fixed>>

(* run_audit: collect the files and zero the counters.                    *)
StartAudit ==
    /\ pc = "idle"
    /\ Len(reports) < MaxAudits
    /\ pc' = "auditing"
    /\ todo' = Files
    /\ updated' = 0 /\ withOld' = 0 /\ withNew' = 0 /\ errors' = 0
    /\ UNCHANGED <<content, reports, fixed>>

(* audit_file(f) without an exception, and the loop body that counts its  *)
(* result: both searches run on the content as read, then the rewritten   *)
(* content is written back if it differs.  The files come in glob order,  *)
(* which the model leaves open.                                           *)
AuditFile(f) ==
    /\ pc = "auditing"
    /\ f \in todo
    /\ LET c   == content[f]
           new == update_file_content(c)
       IN  /\ content' = [content EXCEPT ![f] = new]
           /\ updated' = IF new # c THEN updated + 1 ELSE updated
           /\ withOld' = IF Found(old_patterns, c) THEN withOld + 1 ELSE withOld
           /\ withNew' = IF Found(new_patterns, c) THEN withNew + 1 ELSE withNew
    /\ todo' = todo \ {f}
    /\ fixed' = fixed \cup {f}
    /\ UNCHANGED <<pc, errors, reports>>

(* Mutant: the except branch prints the error but does not count it.      *)
AuditFileErrorUncounted(f) ==
    /\ pc = "auditing"
    /\ f \in todo
    /\ \/ content' = content
       \/ /\ update_file_content(content[f]) # content[f]
          /\ content' = [content EXCEPT ![f] = <<>>]
    /\ todo' = todo \ {f}
    /\ fixed' = fixed \ {f}
    /\ UNCHANGED <<pc, errors, updated, withOld, withNew, reports>>

(* audit_file(f) raises and returns an error record: either the read      *)
(* fails and nothing is written, or open(f, 'w') has truncated the file   *)
(* and the write fails.                                                   *)
AuditFileError(f) ==
    /\ pc = "auditing"
    /\ f \in todo
    /\ \/ content' = content
       \/ /\ update_file_content(content[f]) # content[f]
          /\ content' = [content EXCEPT ![f] = <<>>]
    /\ errors' = errors + 1
    /\ todo' = todo \ {f}
    /\ fixed' = fixed \ {f}
    /\ UNCHANGED <<pc, updated, withOld, withNew, reports>>

(* The summary and the overall status printed after the loop.             *)
Summarize ==
    /\ pc = "auditing"
    /\ todo = {}
    /\ pc' = "idle"
    /\ reports' = Append(reports,
          [updated |-> updated, old |-> withOld, new |-> withNew,
           errors |-> errors,
           status |-> IF withOld = 0 /\ withNew > 0 THEN "complete"
                                                  ELSE "attention"])
    /\ UNCHANGED <<content, todo, updated, withOld, withNew, errors, fixed>>

Next ==
    \/ StartAudit
    \/ \E f \in Files : AuditFile(f) \/ AuditFileError(f)
    \/ Summarize

Spec == Init /\ [][Next]_vars

-----------------------------------------------------------------------------
TypeOK ==
    /\ content \in [Paths -> Seq(Token)]
    /\ pc \in {"idle", "auditing"}
    /\ todo \subseteq Files
    /\ {updated, withOld, withNew, errors} \subseteq Nat
    /\ reports \in Seq(Report)
    /\ Len(reports) <= MaxAudits
    /\ fixed \subseteq Files

(* What update_file_content is for: a file the audit has rewritten holds  *)
(* none of the text its substitutions target (old emails, the old         *)
(* domains and GitHub URLs, the 2009-2023 copyright of the project, the   *)
(* upper-case slug, a foreign licence footer), whatever the file held and *)
(* however often it was audited.                                          *)
Targeted == {"legal@shah.vip", "security@shahcoincore.org",
             "secp256k1-security@shahcoincore.org", "https://shahcoincore.org",
             "shahcoincore.org", "shahcoin.org", "github.com/shahcoin/shahcoin",
             "github.com/shahcoin-core",
             "Copyright (c) 2009-2023 The SHAHCOIN Core developers",
             "SHAHCOIN-CORE", "footer:old"}

LegacyRemoved ==
    \A f \in fixed : ~Found(Targeted, content[f])

(* The audit is a correction to a fixed point: after a run without        *)
(* errors, the next run finds nothing left to rewrite.                    *)
AuditIdempotent ==
    \A k \in 1 .. Len(reports) - 1 :
        reports[k].errors = 0 => reports[k + 1].updated = 0

(* The change log of update_file_content says the secp256k1 security      *)
(* address becomes info@shah.vip: no rewritten file keeps a project email *)
(* address other than info@shah.vip.                                      *)
ProjectEmails == {"legal@shah.vip", "security@shahcoincore.org",
                  "secp256k1-security@shahcoincore.org", "secp256k1-info@shah.vip"}

EmailsCanonical ==
    \A f \in fixed : ~Found(ProjectEmails, content[f])

(* The last audit run printed a summary with no error.                   *)
LastAuditClean == reports # <<>> /\ reports[Len(reports)].errors = 0

(* An error-free summary means what it suggests: after a run whose        *)
(* summary printed "Errors: 0", no file of files_to_audit holds text the  *)
(* substitutions target.  Every file must have been read, rewritten and   *)
(* written back in that run; a failed step of audit_file only shows in    *)
(* the error counter.                                                     *)
CleanRunRebrands ==
    pc = "idle" /\ LastAuditClean => \A f \in Files : ~Found(Targeted, content[f])

(* The verdict reaches COMPLETE AND VERIFIED once the tree is corrected:  *)
(* a run that rewrites nothing, has no error and finds the new branding   *)
(* reports complete.                                                      *)
CorrectedTreeVerified ==
    \A k \in 1 .. Len(reports) :
        reports[k].updated = 0 /\ reports[k].errors = 0 /\ reports[k].new > 0
            => reports[k].status = "complete"

(* "All legacy branding patterns have been removed" is true of the tree   *)
(* the run leaves behind.                                                 *)
VerdictReflectsTree ==
    pc = "idle" /\ reports # <<>> /\ reports[Len(reports)].status = "complete"
        => \A f \in Files : ~Found(old_patterns, content[f])
=============================================================================
