---------------------------- MODULE CommandGrammar ----------------------------
(***************************************************************************)
(* The grammar of commands: imap-codec/src/command.rs and the parsers it   *)
(* calls, under the names they have there.  Alternatives stand in the      *)
(* order in which the code tries them.                                     *)
(*                                                                         *)
(* The build: the default features, which are the quirks that Cargo.toml   *)
(* lists under "quirk", with starttls and every ext_ feature but ext_utf8. *)
(***************************************************************************)
EXTENDS Grammar

-----------------------------------------------------------------------------
(* core.rs                                                                 *)

digits == While(Numerals)

number == Check("u32", Text("Number", digits), "Error")
number64 == Check("u64", Text("Number", digits), "Error")
nz_number == Check("nonzero", number, "Error")

quoted_char == Alt(<<Run(NotQuotable, 1), Tuple(<<Tag("\\"), Class(QuotedSpecials)>>)>>)
quoted == Tuple(<<dquote, Map("unescape", Text("Quoted", Many(quoted_char, 0))), dquote>>)
literal == LiteralOf("Literal", "{")
literal8 == LiteralOf("Literal8", "~{")
string == Alt(<<quoted, literal>>)
astring == Alt(<<Text("AtomExt", Run(NotAstring, 1)), string>>)
atom == Text("Atom", Run(NotAtom, 1))
nil == Keyword("NIL")
nstring == Alt(<<string, nil>>)
base64 == Check("base64",
            Text("Base64", Tuple(<<Run(NotBase64, 0), Opt(Alt(<<Tag("=="), Tag("=")>>))>>)),
            "Error")
charset == Alt(<<atom, quoted>>)

\* Mutant: a tag may be empty.
tag_imap_any == Text("Tag", Run(NotTag, 0))

tag_imap == Text("Tag", Run(NotTag, 1))

-----------------------------------------------------------------------------
(* mailbox.rs, flag.rs, status.rs, sequence.rs, auth.rs                    *)

mailbox == Map("mailbox", astring)
list_mailbox == Alt(<<Text("Token", Run(NotList, 1)), string>>)

flag == Text("Flag", Alt(<<Tuple(<<Tag("\\"), Run(NotAtom, 1)>>), Run(NotAtom, 1)>>))
flag_list == Parenthesized(flag, 0)

status_att == OneOf(<<"MESSAGES", "RECENT", "UIDNEXT", "UIDVALIDITY", "UNSEEN",
                      "DELETED-STORAGE", "DELETED", "SIZE", "HIGHESTMODSEQ">>)

seq_number == Alt(<<nz_number, Tag("*")>>)
seq_range == Text("Range", Tuple(<<seq_number, Tag(":"), seq_number>>))
sequence_set == Node("Set", Separated(Alt(<<seq_range, Text("Single", seq_number)>>), Tag(","), 1))

auth_type == atom
authenticate_data ==
  Alt(<<Tuple(<<base64, Tag("CRLF")>>), Tuple(<<Keyword("*"), Tag("CRLF")>>)>>)
idle_done == Tuple(<<Keyword("DONE"), Tag("CRLF")>>)

-----------------------------------------------------------------------------
(* datetime.rs                                                             *)

Months == <<"Jan", "Feb", "Mar", "Apr", "May", "Jun", "Jul", "Aug", "Sep", "Oct", "Nov", "Dec">>

digit_1_2 == Alt(<<Class(TwoDigits), While(OneDigit)>>)
digit_2 == Class(TwoDigits)
digit_4 == Class(Years)
date_day == digit_1_2
date_month == OneOf(Months)
date_year == digit_4
date_text ==
  Map("pad", Text("Date", Tuple(<<date_day, Tag("-"), date_month, Tag("-"), date_year>>)))
date == Check("date", Alt(<<date_text, Tuple(<<dquote, date_text, dquote>>)>>), "Error")

time == Tuple(<<digit_2, Tag(":"), digit_2, Tag(":"), digit_2>>)
date_day_fixed == Alt(<<Tuple(<<sp, Class(OneDigit)>>), digit_2>>)
zone == Tuple(<<Class({"+", "-"}), digit_2, digit_2>>)
date_time ==
  LET text == Tuple(<<date_day_fixed, Tag("-"), date_month, Tag("-"), date_year, sp, time, sp, zone>>)
  IN  Check("date_time",
            Tuple(<<dquote, Map("pad", Text("DateTime", text)), dquote>>), "Failure")

-----------------------------------------------------------------------------
(* fetch.rs, extensions/binary.rs                                          *)

section_part == Text("Part", Separated(nz_number, Tag("."), 1))
header_fld_name == astring
header_list == List(header_fld_name, 1)
section_msgtext ==
  Alt(<<KeywordWith("HEADER.FIELDS.NOT", <<header_list>>),
        KeywordWith("HEADER.FIELDS", <<header_list>>),
        Keyword("HEADER"), Keyword("TEXT")>>)
section_text == Alt(<<section_msgtext, Keyword("MIME")>>)
section_spec ==
  Alt(<<section_msgtext, Tuple(<<section_part, Opt(Tuple(<<Tag("."), section_text>>))>>)>>)
section == Tuple(<<Tag("["), Node("Section", Opt(section_spec)), Tag("]")>>)
section_binary == Tuple(<<Tag("["), Node("Section", Opt(section_part)), Tag("]")>>)
partial == Text("Partial", Tuple(<<Tag("<"), number, Tag("."), nz_number, Tag(">")>>))

fetch_att ==
  Alt(<<Keyword("ENVELOPE"), Keyword("FLAGS"), Keyword("INTERNALDATE"), Keyword("BODYSTRUCTURE"),
        Node("BODY.PEEK[", Tuple(<<Tag("BODY.PEEK"), section, Opt(partial)>>)),
        Node("BODY[", Tuple(<<Tag("BODY"), section, Opt(partial)>>)),
        Node("BINARY.PEEK[", Tuple(<<Tag("BINARY.PEEK"), section_binary, Opt(partial)>>)),
        Node("BINARY[", Tuple(<<Tag("BINARY"), section_binary, Opt(partial)>>)),
        Node("BINARY.SIZE[", Tuple(<<Tag("BINARY.SIZE"), section_binary>>)),
        Keyword("BODY"), Keyword("UID"), Keyword("RFC822.HEADER"), Keyword("RFC822.SIZE"),
        Keyword("RFC822.TEXT"), Keyword("RFC822"), Keyword("MODSEQ")>>)

-----------------------------------------------------------------------------
(* extensions/condstore_qresync.rs, search.rs                              *)

mod_sequence_valzer == number64
mod_sequence_value == Check("nonzero", number64, "Error")
attr_flag == Alt(<<Tuple(<<Tag("\\\\"), Run(NotAtom, 1)>>), Run(NotAtom, 1)>>)
entry_flag_name == Text("EntryName", Tuple(<<Tag("\"/flags/"), attr_flag, dquote>>))
entry_name == entry_flag_name
entry_type_req == OneOf(<<"priv", "shared", "all">>)
search_modseq_ext == Tuple(<<sp, entry_name, sp, entry_type_req>>)
search_modsequence ==
  Node("MODSEQ", Tuple(<<Tag("MODSEQ"), Opt(search_modseq_ext), sp, mod_sequence_valzer>>))

\* search_key_limited, once search_key is what it calls itself with.
SearchKeys(search_key) ==
  Alt(<<
    Keyword("ALL"), Keyword("ANSWERED"), KeywordWith("BCC", <<astring>>),
    KeywordWith("BEFORE", <<date>>), KeywordWith("BODY", <<astring>>),
    KeywordWith("CC", <<astring>>), Keyword("DELETED"), Keyword("FLAGGED"),
    KeywordWith("FROM", <<astring>>), KeywordWith("KEYWORD", <<atom>>), Keyword("NEW"),
    KeywordWith("OLDER", <<nz_number>>), Keyword("OLD"), KeywordWith("ON", <<date>>),
    Keyword("RECENT"), Keyword("SEEN"), KeywordWith("SINCE", <<date>>),
    KeywordWith("SUBJECT", <<astring>>), KeywordWith("TEXT", <<astring>>),
    KeywordWith("TO", <<astring>>),
    Keyword("UNANSWERED"), Keyword("UNDELETED"), Keyword("UNFLAGGED"),
    KeywordWith("UNKEYWORD", <<atom>>), Keyword("UNSEEN"), Keyword("DRAFT"),
    KeywordWith("HEADER", <<header_fld_name, astring>>), KeywordWith("LARGER", <<number>>),
    KeywordWith("NOT", <<search_key>>), KeywordWith("OR", <<search_key, search_key>>),
    KeywordWith("SENTBEFORE", <<date>>), KeywordWith("SENTON", <<date>>),
    KeywordWith("SENTSINCE", <<date>>), KeywordWith("SMALLER", <<number>>),
    KeywordWith("UID", <<sequence_set>>), KeywordWith("YOUNGER", <<nz_number>>),
    Keyword("UNDRAFT"), search_modsequence, sequence_set, List(search_key, 1)>>)

\* Mutant: the call does not use up one of the calls that are left.
search_key_unlimited ==
  [n \in 0..9 |-> IF n = 0 THEN RecursionLimitExceeded ELSE SearchKeys(Ref("search_key", n))]

search_key_limited ==
  [n \in 0..9 |-> IF n = 0 THEN RecursionLimitExceeded ELSE SearchKeys(Ref("search_key", n - 1))]

search_key(n) == Ref("search_key", n)
search_keys == Separated(search_key(9), sp, 1)
search == Node("SEARCH",
            Tuple(<<Tag("SEARCH"), Opt(Tuple(<<sp, KeywordWith("CHARSET", <<charset>>)>>)), sp, search_keys>>))
search_criteria == Tuple(<<charset, sp, search_keys>>)

-----------------------------------------------------------------------------
(* extensions: sort.rs, thread.rs, id.rs, enable.rs, compress.rs, idle.rs, *)
(* namespace.rs, quota.rs, metadata.rs, uidplus.rs, move.rs                *)

\* A command that has a variant for unique identifiers.
WithUid(g) == Node("UID", Tuple(<<Tag("UID"), sp, g>>))

sort_key == OneOf(<<"ARRIVAL", "CC", "DATE", "FROM", "SIZE", "SUBJECT", "TO", "DISPLAYFROM", "DISPLAYTO">>)
sort_criterion == Alt(<<KeywordWith("REVERSE", <<sort_key>>), sort_key>>)
sort_criteria == List(sort_criterion, 1)
sort ==
  LET plain == KeywordWith("SORT", <<sort_criteria, search_criteria>>)
  IN  Alt(<<WithUid(plain), plain>>)

thread_alg == atom
thread ==
  LET plain == KeywordWith("THREAD", <<thread_alg, search_criteria>>)
  IN  Alt(<<WithUid(plain), plain>>)

id_params_list ==
  Alt(<<Node("List", Tuple(<<Tag("("), Separated(Tuple(<<string, sp, nstring>>), sp, 0), Opt(sp), Tag(")")>>)),
        nil>>)
id == KeywordWith("ID", <<id_params_list>>)

capability_enable == atom
enable == Node("ENABLE", Tuple(<<Tag("ENABLE"), Many(Tuple(<<sp, capability_enable>>), 1)>>))
compress == KeywordWith("COMPRESS", <<Keyword("DEFLATE")>>)
idle == Keyword("IDLE")
namespace_command == Keyword("NAMESPACE")

quota_root_name == astring
resource_name == atom
getquota == KeywordWith("GETQUOTA", <<quota_root_name>>)
getquotaroot == KeywordWith("GETQUOTAROOT", <<mailbox>>)
setquota_resource == Tuple(<<resource_name, sp, number64>>)
setquota == KeywordWith("SETQUOTA", <<quota_root_name, List(setquota_resource, 0)>>)

\* Entry::try_from accepts every string.
entry == astring
imap_value == Alt(<<nstring, literal8>>)
entry_value == Tuple(<<entry, sp, imap_value>>)
entry_values == List(entry_value, 1)
setmetadata == KeywordWith("SETMETADATA", <<mailbox, entry_values>>)
getmetadata_option ==
  Alt(<<KeywordWith("MAXSIZE", <<number>>),
        KeywordWith("DEPTH", <<OneOf(<<"0", "1", "INFINITY">>)>>)>>)
getmetadata_options == Parenthesized(getmetadata_option, 1)
entries == Node("Items", Alt(<<entry, Parenthesized(entry, 1)>>))
getmetadata ==
  Node("GETMETADATA",
    Tuple(<<Tag("GETMETADATA"), Maybe(Tuple(<<sp, getmetadata_options>>)), sp, mailbox, sp, entries>>))

uid_expunge == WithUid(KeywordWith("EXPUNGE", <<sequence_set>>))
move == KeywordWith("MOVE", <<sequence_set, mailbox>>)

-----------------------------------------------------------------------------
(* command.rs                                                              *)

command_any == Alt(<<Keyword("CAPABILITY"), Keyword("LOGOUT"), Keyword("NOOP"), id>>)

append ==
  Node("APPEND",
    Tuple(<<Tag("APPEND"), sp, mailbox, Maybe(Tuple(<<sp, flag_list>>)),
            Opt(Tuple(<<sp, date_time>>)), sp, Alt(<<literal, literal8>>)>>))

create == KeywordWith("CREATE", <<mailbox>>)
delete == KeywordWith("DELETE", <<mailbox>>)

select_param ==
  Alt(<<Keyword("CONDSTORE"),
        KeywordWith("QRESYNC",
          <<Node("List",
              Tuple(<<Tag("("), nz_number, sp, mod_sequence_value, Opt(Tuple(<<sp, sequence_set>>)),
                      Opt(Tuple(<<sp, Node("List", Tuple(<<Tag("("), sequence_set, sp, sequence_set, Tag(")")>>))>>)),
                      Tag(")")>>))>>)>>)
select_params == Tuple(<<Tag(" ("), Separated(select_param, sp, 1), Tag(")")>>)

examine == Node("EXAMINE", Tuple(<<Tag("EXAMINE"), sp, mailbox, Maybe(select_params)>>))
select == Node("SELECT", Tuple(<<Tag("SELECT"), sp, mailbox, Maybe(select_params)>>))
list == KeywordWith("LIST", <<mailbox, list_mailbox>>)
lsub == KeywordWith("LSUB", <<mailbox, list_mailbox>>)
rename == KeywordWith("RENAME", <<mailbox, mailbox>>)
status == KeywordWith("STATUS", <<mailbox, List(status_att, 0)>>)
subscribe == KeywordWith("SUBSCRIBE", <<mailbox>>)
unsubscribe == KeywordWith("UNSUBSCRIBE", <<mailbox>>)

command_auth ==
  Alt(<<append, create, delete, examine, list, lsub, rename, select, status, subscribe,
        unsubscribe, idle, enable, compress, getquota, getquotaroot, setquota, setmetadata,
        getmetadata, namespace_command>>)

userid == astring
password == astring
login == KeywordWith("LOGIN", <<userid, password>>)
authenticate ==
  Node("AUTHENTICATE",
    Tuple(<<Tag("AUTHENTICATE"), sp, auth_type,
            Opt(Tuple(<<sp, Alt(<<base64, Value(Word("Base64", <<>>), Tag("="))>>)>>))>>))
command_nonauth == Alt(<<login, authenticate, Keyword("STARTTLS")>>)

copy == KeywordWith("COPY", <<sequence_set, mailbox>>)

fetch_modifier == Alt(<<KeywordWith("CHANGEDSINCE", <<mod_sequence_value>>), Keyword("VANISHED")>>)
fetch_modifiers == Tuple(<<Tag(" ("), Separated(fetch_modifier, sp, 1), Tag(")")>>)
fetch ==
  LET items == Alt(<<Keyword("ALL"), Keyword("FAST"), Keyword("FULL"),
                     Node("Items", fetch_att), Node("Items", Parenthesized(fetch_att, 0))>>)
  IN  Node("FETCH", Tuple(<<Tag("FETCH"), sp, sequence_set, sp, items, Maybe(fetch_modifiers)>>))

store_modifier == KeywordWith("UNCHANGEDSINCE", <<mod_sequence_valzer>>)
store_modifiers == Tuple(<<Tag(" ("), Separated(store_modifier, sp, 1), Tag(")")>>)
store_att_flags ==
  Tuple(<<Text("Kind", Tuple(<<Opt(Class({"+", "-"})), Tag("FLAGS"), Opt(Tag(".SILENT"))>>)), sp,
          Node("List", Alt(<<flag_list, Separated(flag, sp, 1)>>))>>)
store ==
  Node("STORE", Tuple(<<Tag("STORE"), sp, sequence_set, Maybe(store_modifiers), sp, store_att_flags>>))

uid == WithUid(Alt(<<copy, fetch, search, store, move>>))

command_select ==
  Alt(<<Keyword("CHECK"), Keyword("CLOSE"), Keyword("EXPUNGE"), uid_expunge, copy, fetch, store,
        uid, search, sort, thread, Keyword("UNSELECT"), move>>)
=============================================================================
