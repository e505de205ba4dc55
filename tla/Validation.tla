------------------------------ MODULE Validation ------------------------------
(***************************************************************************)
(* The validate functions of imap-types: the octets that a value of each   *)
(* type may have.  Every value that reaches an encoder has passed its      *)
(* validate function, or was built with unvalidated, which checks it in    *)
(* debug builds only.                                                      *)
(***************************************************************************)
EXTENDS Grammar

Without(octets, t) == \A i \in DOMAIN t : t[i] \notin octets
NonEmpty(t) == t # <<>>

ValidAtom(t) == NonEmpty(t) /\ Without(NotAtom, t)
ValidAtomExt(t) == NonEmpty(t) /\ Without(NotAstring, t)
ValidTag(t) == NonEmpty(t) /\ Without(NotTag, t)
ValidText(t) == NonEmpty(t) /\ Without(NotText, t)
ValidListChars(t) == NonEmpty(t) /\ Without(NotList, t)
ValidQuoted(t) == Without(NotText, t)
ValidQuotedChar(t) == Len(t) = 1 /\ Without(NotText, t)
ValidLiteral(t) == Without({"NUL"}, t)
ValidMailboxOther(t) == t # <<"INBOX">>

\* Flag::try_from: a system flag or an extension after a backslash, or a keyword.
ValidFlag(t) == ValidAtom(t) \/ (NonEmpty(t) /\ t[1] = "\\" /\ ValidAtom(Tail(t)))

\* u32, u64 and their NonZero variants.
ValidNumber(type, t) ==
  /\ t[1] = "0" => type \in {"u32", "u64"}
  /\ t[1] = BeyondU32 => type \in {"u64", "NonZeroU64"}
  /\ t[1] # BeyondU64
=============================================================================
