-------------------------- MODULE MC_BrandingAudit --------------------------
(* Source trees for the audit: each file holds a few of the pieces of     *)
(* text the audit's patterns tell apart.                                  *)
EXTENDS BrandingAudit, TLC

CONSTANTS f1, f2, f3

(* f1 = "SECURITY.md", f2 = "src/chainparams.cpp", f3 =                   *)
(* "doc/release-notes.md": paths the audit visits.                        *)
MCPathInfo ==
    (f1 :> [ends |-> {".md"}, contains |-> {}]) @@
    (f2 :> [ends |-> {".cpp"}, contains |-> {}]) @@
    (f3 :> [ends |-> {".md"}, contains |-> {}])

(* A piece of text with no developer block after it.                      *)
Tok(s) == [text |-> s, devs |-> 0]

(* A tree with every kind of legacy branding the substitutions target.    *)
LegacyTree ==
    (f1 :> <<Tok("legal@shah.vip"), Tok("https://shahcoincore.org"),
             Tok("SHAHCOIN-CORE")>>) @@
    (f2 :> <<Tok("Copyright (c) 2009-2023 The SHAHCOIN Core developers"),
             Tok("github.com/shahcoin-core"), Tok("footer:old")>>) @@
    (f3 :> <<Tok("secp256k1-security@shahcoincore.org"), Tok("shahcoin.org"),
             Tok("github.com/shahcoin/shahcoin"),
             Tok("security@shahcoincore.org")>>)

(* A tree without licence footers or foreign copyrights: emails, domains, *)
(* the project copyright.                                                 *)
HeaderTree ==
    (f1 :> <<Tok("legal@shah.vip"), Tok("shahcoincore.org")>>) @@
    (f2 :> <<Tok("Copyright (c) 2009-2023 The SHAHCOIN Core developers"),
             Tok("text")>>) @@
    (f3 :> <<Tok("github.com/shahcoin/shahcoin"), Tok("text")>>)

(* A tree whose only outdated text is a licence footer of another wording. *)
FooterTree ==
    (f1 :> <<Tok("footer:old")>>) @@
    (f2 :> <<Tok("info@shah.vip"), Tok("text")>>) @@
    (f3 :> <<Tok("text")>>)
=============================================================================
