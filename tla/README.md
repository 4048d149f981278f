# TLA+ models of the SHAHCOIN premine and branding tools

This directory holds the TLA+ verification of the Python programs under `src/`:

- the two premine keypair generators and their Base58Check encoding;
- the deep branding audit;
- the two branding checkers.

It contains TLA+ modules, TLC configurations (`*.cfg`) and TLAPS proofs. `PROJECT.json` lists:

- the components;
- every run and its expected outcome;
- the mutants that show each checked property can fail;
- the source lines each definition translates ("map");
- the findings, the hazards and the theorems.

## The system

| Program | What it does |
|---|---|
| `generate_premine.py` | `main()` generates a SECP256k1 keypair. It derives the address (`0x3F` ‖ RIPEMD-160(SHA-256(pub)) ‖ checksum) and the compressed WIF (`0xBF` ‖ key ‖ `0x01` ‖ checksum), Base58-encoded with the `base58` library. It prints them and rewrites `shahcoin_premine_wallet.txt`. The operator then copies the public key into `chainparams.cpp` ("Next Steps"). |
| `generate_premine_simple.py` | The same `main()`, self-contained. Its own `base58_encode` replaces the library. A truncated SHA-256 stands in for RIPEMD-160. The "public key" is a SHA-256 of the private key with its first byte set to `0x02`. |
| `deep_branding_audit.py` | `run_audit` walks every source file. For each, `audit_file` does three things: it searches the content for old and new branding patterns, it rewrites the content with the ordered regex substitutions of `update_file_content`, and it writes the result back if it changed. A summary and a verdict (COMPLETE AND VERIFIED / REQUIRES ATTENTION) are printed at the end. |
| `verify_branding_updates.py`, `check_github_folder.py` | Read-only checkers. Each counts old and new patterns in a fixed list of key files, or in the files under `.github`, and prints the same kind of verdict. |
| `update_license_headers.py` | Not modelled: it does not parse (see below). |
| `test/functional/*.py` | Not modelled: they test node features whose code is not in this repository. |

The programs interact through files:

- The premine tool's output goes to a wallet file and, through the operator, to `chainparams`.
- The audit rewrites the tree.
- The checkers read the tree the audit left.

## Modules

| Module | Models | State / actions |
|---|---|---|
| `Base58Params` | `BASE58_ALPHABET` | Constants `ByteBase`, `Radix` (256 and 58 in the code). `Digit` is an index into the alphabet; `One` is the digit of `'1'`. |
| `Base58Encode` | `base58_encode` (`generate_premine_simple.py` 28-46) | Variables: the locals `n`, `result`, the for-loop position `i`, the argument `data`, a program counter and `done`. Actions: `Call(d)` (lines 31-34), `DivMod` (one iteration of the while loop, 35-37), `EndDivMod`, `PrependOne` (a zero byte, 40-42) and `Return` (break or end of data, 43-46). `ToInt` is `int.from_bytes`, a constant operator. |
| `Base58Ref` | The reference codec of spec 4.2 | `SpecEncode` and `SpecDecode` as recursive definitions, and `IntFromBytes` (`int.from_bytes`, line 31). Used only by TLC. |
| `Base58Call` | The abstract encoder | A call followed by a return of `SpecEncode(data)`. |
| `Base58EncodeProofs` | Proofs about `Base58Encode` | See "What is proved". |
| `PremineTool` | `main()` of both generators | Variables: `pc` (the next statement), `priv`, `pub`, `address`, `wif`, the last printed wallet (`console`), the wallet file (`file`), the key the operator put in `chainparams` (`chainPub`) and the run count. Actions: `GenerateKeypair` (line 88), `GenerateAddress` (91), `GenerateWif` (92), `PrintWallet` (95-108), `OpenWallet` (the truncating `open(..., "w")`, 111), `WriteWallet` (112-119), `Crash` (the process is killed between two statements) and `UpdateChainparams` (the operator's step 1-2, after `main()` ended). `Variant` selects the generator. SHA-256, RIPEMD-160, the curve and the Base58 codec (`b58encode`, and the spec's `b58decode`) are constant operators. Two named contracts state what the code relies on of them. `HashContract`: digests are byte strings, RIPEMD-160 has `HashLen` bytes, SHA-256 is at least a checksum long. `CodecContract`: `b58decode` inverts `b58encode`. `MC_PremineTool` checks both on its instance. Byte strings keep their structure (version, payload, checksum slices) with small lengths. The spec's decoders (`Unframe`, `AddressDecode`, `WifDecode`, spec 4.3-4.5) are modelled from the spec: the repository has no decoder. |
| `PremineToolProofs` | Proofs about `PremineTool` | See "What is proved". |
| `BrandingAudit` | `run_audit`, `should_skip_file`, `audit_file`, `update_file_content` | A path is a model value. `PathInfo` gives, for each path, the listed extensions its string ends with and the `skip_dirs` names that occur in it. `should_skip_file` is the code's three tests on these, and `Files`, the files the audit visits, is the set of paths it keeps. A file is a sequence of tokens. Each token is a piece of text that the script's patterns match as a whole (an address, a URL, a copyright line, the licence footer). No pattern spans two tokens. A token is a record: its text, and the number of "Primary Developer" blocks that follow it (`devs`), which only the footer substitution writes. `Pieces` is what a search can find in a token. Each substitution `re.sub` is a function on texts (`Sub`). `Rewrite` composes them in the code's order, with the footer last, and `update_file_content` applies `Rewrite` to every token. `old_patterns` and `new_patterns` are the sets of tokens the surviving dict entries find. Variables: `content`, the loop's `todo` set, the four counters, the log of printed summaries (`reports`), and `fixed`, the files whose last `audit_file` returned no error. Actions: `StartAudit` (collect files, zero counters), `AuditFile(f)` (search, rewrite, write back, count), `AuditFileError(f)` (the read fails, or the truncating write fails) and `Summarize` (print the verdict). The loop visits files in any order: glob order is unspecified. |
| `BrandingAuditProofs` | Proofs about `BrandingAudit` | See "What is proved". |
| `BrandingChecks` | Both checkers, composed with `BrandingAudit` | `VerifyBranding` and `CheckGithubFolder` run between audit runs on the current tree. Unreadable files are chosen freely. A total is the number of (file, pattern) pairs with a match (`Matches`), which is what adding `len(found)` per file computes. `verify_branding_updates.py` adds one per unreadable file, for its error entry. Their verdicts go to the log `checks`, with the tree they saw and whether the last audit run reported no error. The checkers read paths whether or not the audit visits them: `COPYING`, `build_msvc/...` and everything under `.github` are among them. |
| `BrandingChecksProofs` | Proofs about `BrandingChecks` | See "What is proved". |
| `MC_*` | TLC instances | Small constants, trees of three files, hash stand-ins. |

## Runs

| Run | Result | What it shows |
|---|---|---|
| `encode_laws` | pass | `TypeOK` and `LeadingOnesLaw` hold for every input of up to 3 bytes drawn from {0, 1, 57, 58, 255}. This covers the empty input, all-zero inputs, zeros before and after a non-zero byte, and values on both sides of a multiple of 58. |
| `encode_refines` | pass | `Base58Encode` implements `Base58Call` under the mapping "busy while the loops run, result visible at return". Every call returns (weak fairness on the loop body, justified because `base58_encode` is straight-line code) and returns `SpecEncode(data)`. With radix 58 and byte base 256 this is the spec's encoder, leading '1's included. |
| `premine_ecdsa` | pass | With the real pipeline, the derived address decodes (checksum and version verified) to hash160 of the public key. The WIF decodes to the private key, flagged compressed. The type invariant is not run here; `PremineTypeCorrect` proves it for every instance. |
| `premine_rerun` | violation | With `generate_premine.py`, a key that was printed and copied into `chainparams` can end up in no wallet file. In TLC's trace the wallet is printed, the process is killed before the writes, and the operator copies the printed key. A second run does the same by overwriting the file. `generate_premine_simple.py` writes the file in the same way. |
| `branding_audit` | pass | `LegacyRemoved`: for any file order, failures and up to two runs, a rewritten file holds none of the text the substitutions target. `CleanRunRebrands`: after a summary that shows no error, no audited file holds a targeted text. An exception in `audit_file` skips that file's rewrite, and only the error counter records it. The property fails if the `except` branch does not count the error. |
| `branding_footer` | violation | The second run after an error-free run rewrites files again: the footer regex matches the standard footer and adds two "Primary Developer" blocks every run. |
| `branding_emails` | violation | `secp256k1-security@shahcoincore.org` becomes `secp256k1-info@shah.vip`. |
| `branding_verdict` | violation | A corrected tree never gets COMPLETE: the new copyright and name contain the old pattern `SHAHCOIN Core`. |
| `branding_stale` | violation | COMPLETE is printed over a tree the run itself filled with a legacy pattern: patterns are counted before the rewrite. |
| `branding_checks` | pass | `TypeOK` of the audit on an instance whose paths include skipped ones, so an audit that leaves `files_to_audit` is caught. `AuditPassesChecks`: a checker run after an audit run that reported no error, with every file readable, finds no old pattern. Here the files the audit skips (a workflow and `COPYING`) were already clean. |
| `branding_checker_sound` | violation | `verify_branding_updates.py` says COMPLETE while a key file links `https://shahcoincore.org`: a repeated dict key dropped that pattern. |
| `branding_skipped` | violation | The same `AuditPassesChecks`, with a workflow under `.github` that names `github.com/shahcoin-core`. `should_skip_file` tests `skip_dirs` as substrings, so `.github` matches `.git` and the audit never visits the file. After an error-free audit, `check_github_folder.py` still finds the old organisation. |

I confirmed the footer growth and the secp256k1 address against the Python code itself, by calling `update_file_content` on the standard footer and on the address.

## Bounds and why they are enough

- **Base58:** byte strings of length at most 3 over five byte values. Every branch of both loops runs: zero, one or more divisions; leading zeros followed by a non-zero byte; all-zero inputs. TLC's 32-bit integers bound the length.
- **Premine:** byte base 16, keys of one byte, 3-byte public keys, 2-byte hashes, a 1-byte checksum and two runs. The properties depend on the framing (which slice goes where), not on the lengths, and the two runs are what a rerun needs.
- **Branding:** three audited files, two audit runs and two checker runs. The checker runs add two paths the audit skips: one for the `skip_dirs` test and one for the extension test. The trees contain every token kind the substitutions touch, including the two that cascade (the security email and the footer).
- **Deadlock:** the premine and branding runs disable the deadlock check. Once the run bounds are used up the programs have nothing more to do, so the model may legitimately stop.

## What is proved

`Base58EncodeProofs` proves the following with TLAPS, for every `ByteBase > 1`, every `Radix > 1` and every set of inputs:

- `TypeCorrect`: `Spec => []TypeOK`.
- `LeadingOnes`: `Spec => []LeadingOnesLaw`.

`LeadingOnesLaw` speaks only of returned calls, so it is not inductive. It is strengthened to `IInv`, which adds three facts:

1. In the while loop, once `n = 0` the result does not start with digit 0. This is because the last digit prepended was `n` itself, with `0 < n < Radix`.
2. In the for loop, the first `i-1` bytes are zero and the result starts with exactly `i-1` zeros.
3. After a return, additionally, byte `i` is not a leading zero.

The proof shows `Init => IInv`, `IInv /\ [Next]_vars => IInv'` with one step per action, and `IInv => LeadingOnesLaw`. `int.from_bytes` is a constant operator `ToInt` with the assumption `ToInt(d) \in Nat`. This keeps the proof module free of recursive definitions.

`PremineToolProofs` proves the following for every byte base, prefix byte, key set, length and run bound, under the hash and codec contracts:

- `PremineTypeCorrect`: `Spec => []TypeOK`.
- `AddressCorrect`: `Spec => []AddressMatchesKey`, under the further hypothesis `Variant = "ecdsa"`. The simplified generator breaks it: its "RIPEMD-160" is a truncated SHA-256. TLC finds the violation in one run of `main()`, and the spec rejects that variant as a whole.
- `WifCorrect`: `Spec => []WifMatchesKey`, for both variants.

The properties speak of decoded strings, which no step assigns, so they are not inductive. `IInv` adds what each string holds: a non-empty address is `generate_address(pub)`; a non-empty WIF is `generate_wif(priv)` with `priv` in `PrivKeys`; during a run `priv` is one of `PrivKeys`. Each encoder is then one lemma:

- `FrameLayout` lays out `Frame(v, p)` as version, payload and checksum.
- `UnframeFrame` cuts it back with the slices of `Unframe`.
- `DecodeBase58Check` combines this with the codec contract.
- `AddressRoundTrip` and `WifRoundTrip` state what the decoders return.

The step proof has one case per action.

`BrandingAuditProofs` proves the following for every set of paths, every path classification, every initial tree and every bound on the runs:

- `AuditTypeCorrect`: `Spec => []TypeOK`.
- `LegacyRemovedHolds`: `Spec => []LegacyRemoved`.
- `CleanRunRebrandsHolds`: `Spec => []CleanRunRebrands`.
- `AuditNeverDirties`: `Spec => [][NeverDirties]_vars`. No step puts a targeted text into a file that holds none. TLC also checked this on the `branding_audit` instance.

The argument has two parts.

**What `update_file_content` returns.** The lemmas settle this token by token:

- `IsCleaner(R)` says that a substitution reads only targeted, non-footer texts and writes only texts that are neither targeted nor a footer.
- `SubStep` shows that such a substitution keeps a text in the vocabulary. It also never brings back a targeted text that was gone, and keeps a footer a footer.
- Each of the nine rules is such a substitution (`RuleXCleans`).
- Chaining them in the code's order (`RewriteTextClean`) leaves no targeted text except a footer.
- The footer substitution then makes every footer the standard one (`RewriteClean`).
- So `update_file_content` keeps the length of a file and leaves it clean (`UpdateClean`). A non-empty file therefore stays non-empty.

No induction is needed, because `update_file_content` is a per-token map.

**The inductive invariant.** `IInv` is `TypeOK /\ RoomForSummary /\ LegacyRemoved /\ RunAudited /\ CleanRunAudited`. TLC checked it as an invariant on the `branding_audit` instance. Three conjuncts are strengthenings:

- `RoomForSummary`: during a run, `Len(reports) < MaxAudits`. `Summarize` has no bound guard of its own. The bound was checked by `StartAudit`.
- `RunAudited`: in a run with no error so far, every visited file is in `fixed`. Without it, `Summarize` could print a clean summary for a run that skipped a file.
- `CleanRunAudited`: after a run that printed no error, every file of `files_to_audit` is in `fixed`. With `LegacyRemoved`, this gives `CleanRunRebrands`.

The step proof has one case per action.

`BrandingChecksProofs` proves the following for every tree, every finite list of key files and `.github` files, and every bound:

- `ChecksTypeCorrect`: `Spec2 => []TypeOK2`. Every total the checkers print is a natural number, and the log stays within its bound. No run checks `TypeOK2`; the theorem covers it for every instance.
- `AuditPassesChecksHolds`: `SkippedFilesClean` implies `Spec2 => []AuditPassesChecks`.

`SkippedFilesClean` is an assumption about the constants, and the code does not give it: the files a checker reads that `should_skip_file` keeps from the audit hold none of the checkers' old patterns at the start. It holds on the `branding_checks` instance, whose checked files include two skipped ones (`COPYING` and a workflow) that are already clean. It fails on the `branding_skipped` instance, and there TLC finds the property violated.

`IInvP` adds one fact to the audit's `IInv` (which already holds `RunAudited` and `CleanRunAudited`) and the type of the log. TLC checked it as an invariant on the `branding_checks` instance:

- `SkippedUntouched`: the audit never writes a skipped file.

A checker step after a clean run then meets two kinds of file:

- An audited file holds no targeted text (`LegacyRemoved`), and every old pattern of the checkers is targeted (`OldPatternsTargeted`).
- A skipped file is as it was at the start.

So the set of matches is empty and its cardinality is 0. The finiteness of the counted sets comes from `FiniteSetTheorems`: the pattern tables are finite, and so are the products with the finite file lists.

## Only model-checked

The following are checked by TLC on the instances above and are not proved:

- the refinement, including its liveness part (every call returns). The abstract encoder returns `SpecEncode(data)`, a `RECURSIVE` definition of `Base58Ref`. Showing that the loop's result equals it for every input is induction over the data.
- the premine property `PremineKeyRecoverable` (a violation);
- the branding violations (`AuditIdempotent`, `EmailsCanonical`, `CorrectedTreeVerified`, `VerdictReflectsTree`, `CheckerSound`). These are counterexamples, not theorems.

TLAPS cannot reach three kinds of statement here:

- liveness under fairness;
- what a recursive definition (`SpecEncode`) computes for every input;
- any theorem in a module that reaches a `RECURSIVE` operator.

## Not modelled

- **`update_license_headers.py`:** line 59 opens a raw string that never terminates, and `new_license_footer` is undefined. The program cannot run.
- **Path strings:** `should_skip_file` is modelled. The substring and suffix relations between a real path and the code's lists are recorded per path in `PathInfo`, not computed from characters.
- **Printing and formatting:** left out. Only the counters and the verdict are modelled.
- **Cryptography:** key generation, the hash functions and `base58.b58encode` are constants or the spec's reference encoder. Their correctness is outside the code under study.
- **The simplified generator's public key:** `sha256(...)[:33]` has only 32 bytes (line 55), and its hash is not RIPEMD-160 (line 26). Both are noted as hazards, not checked by runs, because the spec rejects that variant as a whole.
- **Functional tests:** they need a node whose code is not in this repository.
