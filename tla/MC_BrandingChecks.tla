------------------------- MODULE MC_BrandingChecks --------------------------
(* The checkers against the audited trees of MC_BrandingAudit, with two   *)
(* more files the checkers read.                                          *)
EXTENDS BrandingChecks, MC_BrandingAudit

CONSTANTS
    g1,   \* ".github/workflows/ci.yml": contains ".git"
    c1    \* "COPYING": no extension of file_extensions

MCPathInfoChecks ==
    MCPathInfo @@
    (g1 :> [ends |-> {".yml"}, contains |-> {".git"}]) @@
    (c1 :> [ends |-> {}, contains |-> {}])

(* LegacyTree, with a workflow and a licence already rebranded by hand.   *)
ChecksTree ==
    LegacyTree @@
    (g1 :> <<Tok("github.com/SHAHCoinvip/shahcoin"), Tok("text")>>) @@
    (c1 :> <<Tok("Copyright (C) 2025 The SHAHCOIN Core Developers"),
             Tok("text")>>)

(* LegacyTree, with a workflow that still names the old organisation.     *)
SkippedTree ==
    LegacyTree @@
    (g1 :> <<Tok("github.com/shahcoin-core"), Tok("text")>>) @@
    (c1 :> <<Tok("Copyright (C) 2025 The SHAHCOIN Core Developers"),
             Tok("text")>>)
=============================================================================
