--------------------------- MODULE ResponseGrammar ---------------------------
(***************************************************************************)
(* The grammar of greetings and responses: imap-codec/src/response.rs,     *)
(* mailbox.rs, fetch.rs, envelope.rs, body.rs and the extensions they      *)
(* call, under the names they have there.  Alternatives stand in the order *)
(* in which the code tries them, and the quirks that are on by default are *)
(* on.                                                                     *)
(***************************************************************************)
EXTENDS CommandGrammar

\* A node whose only part says which kind of it it is.
Kind(type, g) == Node(type, g)

-----------------------------------------------------------------------------
(* core.rs, flag.rs, sequence sets                                         *)

text == Text("Text", Run(NotText, 1))

one_quoted_char == Alt(<<Class(QuotableOctets), Tuple(<<Tag("\\"), Class(QuotedSpecials)>>)>>)
delimiter == Alt(<<Tuple(<<dquote, Map("unescape", Text("QuotedChar", one_quoted_char)), dquote>>), nil>>)

flag_fetch == flag
flag_perm == Alt(<<Text("Flag", Tag("\\*")), flag>>)
mbx_list_flags == Separated(Text("Flag", Tuple(<<Tag("\\"), Run(NotAtom, 1)>>)), sp, 1)

uid_range == Text("Range", Tuple(<<nz_number, Tag(":"), nz_number>>))
uid_set == Node("UidSet", Separated(Alt(<<uid_range, Text("Single", nz_number)>>), Tag(","), 1))

-----------------------------------------------------------------------------
(* response.rs: codes                                                      *)

capability == atom

\* Mutant: a list of capabilities may be empty.
capability_data_any ==
  Node("CAPABILITY", Tuple(<<Tag("CAPABILITY"), sp, Separated(capability, sp, 0), Opt(sp)>>))

capability_data ==
  Node("CAPABILITY", Tuple(<<Tag("CAPABILITY"), sp, Separated(capability, sp, 1), Opt(sp)>>))

metadata_code ==
  Alt(<<KeywordWith("LONGENTRIES", <<number>>), KeywordWith("MAXSIZE", <<number>>),
        Keyword("TOOMANY"), Keyword("NOPRIVATE")>>)
resp_code_apnd == KeywordWith("APPENDUID", <<nz_number, nz_number>>)
resp_code_copy == KeywordWith("COPYUID", <<nz_number, uid_set, uid_set>>)

resp_text_code ==
  Alt(<<
    Keyword("ALERT"),
    Node("BADCHARSET",
      Tuple(<<Tag("BADCHARSET"), Opt(Tuple(<<Tag(" ("), Separated(charset, sp, 1), Tag(")")>>))>>)),
    capability_data,
    Keyword("PARSE"),
    Node("PERMANENTFLAGS",
      Tuple(<<Tag("PERMANENTFLAGS"), sp, Tag("("), Opt(Separated(flag_perm, sp, 1)), Tag(")")>>)),
    Keyword("READ-ONLY"), Keyword("READ-WRITE"), Keyword("TRYCREATE"),
    KeywordWith("UIDNEXT", <<nz_number>>), KeywordWith("UIDVALIDITY", <<nz_number>>),
    KeywordWith("UNSEEN", <<nz_number>>),
    Keyword("COMPRESSIONACTIVE"), Keyword("OVERQUOTA"), Keyword("TOOBIG"),
    KeywordWith("METADATA", <<metadata_code>>),
    Keyword("UNKNOWN-CTE"), resp_code_apnd, resp_code_copy, Keyword("UIDNOTSTICKY"),
    KeywordWith("HIGHESTMODSEQ", <<mod_sequence_value>>), Keyword("NOMODSEQ"),
    KeywordWith("MODIFIED", <<sequence_set>>), Keyword("CLOSED")>>)

\* Any other code is what stands before "]".
code_other == Text("Other", Run(NotCodeOther, 0))

\* A text that is missing is taken to be "...".
missing_text == Alt(<<Tuple(<<sp, text>>), Value(Word("Text", <<"...">>), Peek(Tag("CRLF")))>>)

bracketed_code ==
  Alt(<<Tuple(<<Kind("Code", resp_text_code), Tag("]")>>), Tuple(<<Kind("Code", code_other), Tag("]")>>)>>)

\* Mutant: a code that is broken is taken for a text.
resp_text_lenient == Alt(<<Tuple(<<Tag("["), bracketed_code, missing_text>>), text>>)

\* "When the text starts with "[", we insist on parsing a code."
resp_text == When("[", Tuple(<<Tag("["), bracketed_code, missing_text>>), text)

-----------------------------------------------------------------------------
(* response.rs: greetings and status responses                             *)

resp_cond_auth == Tuple(<<OneOf(<<"OK", "PREAUTH">>), sp, resp_text>>)
resp_cond_bye == Tuple(<<Tag("BYE"), sp, resp_text>>)
resp_cond_state == Tuple(<<OneOf(<<"OK", "NO", "BAD">>), sp, resp_text>>)

greeting ==
  Tuple(<<Tag("* "),
          Node("Greeting", Alt(<<resp_cond_auth, Tuple(<<Keyword("BYE"), sp, resp_text>>)>>)),
          Tag("CRLF")>>)

response_tagged == Tuple(<<Node("Tagged", Tuple(<<tag_imap, sp, resp_cond_state>>)), Tag("CRLF")>>)
response_fatal == Tuple(<<Tag("* "), Node("Bye", resp_cond_bye), Tag("CRLF")>>)
response_done == Alt(<<response_tagged, response_fatal>>)

empty_continue_req ==
  Value(Tree("Continue", <<Word("Text", <<"...">>)>>), Tuple(<<Tag("+"), Tag("CRLF")>>))

\* Base64 if the whole line is, and otherwise a text, of which the code takes
\* for granted that CommandContinuationRequest::basic does not refuse it.
continue_req ==
  Check("continue",
    Tuple(<<Tag("+ "),
            Alt(<<Check("base64", Text("Challenge", Run({"CRLF"}, 0)), "Error"), Node("Continue", resp_text)>>),
            Tag("CRLF")>>),
    "Panic")

-----------------------------------------------------------------------------
(* envelope.rs                                                             *)

address ==
  Node("Address",
    Tuple(<<Many(sp, 0), Tag("("), nstring, sp, nstring, sp, nstring, sp, nstring, Tag(")")>>))

\* env_from, env_sender, env_reply_to, env_to, env_cc and env_bcc
env_addresses == Node("Addresses", Alt(<<Tuple(<<Tag("("), Many(address, 1), Tag(")")>>), Tag("NIL")>>))

envelope ==
  LET lists == [i \in 1..12 |-> IF i % 2 = 1 THEN env_addresses ELSE sp]
  IN  Node("Envelope",
        Tuple(<<Tag("("), nstring, sp, nstring, sp>> \o lists \o <<nstring, sp, nstring, Tag(")")>>))

-----------------------------------------------------------------------------
(* body.rs.  The limited parsers are functions of the recursions that      *)
(* remain.                                                                 *)

body_fld_param ==
  Node("Params",
    Alt(<<Tuple(<<Tag("("), Separated(Tuple(<<string, sp, string>>), sp, 0), Tag(")")>>), Tag("NIL")>>))
body_fld_enc == Alt(<<string, Value(Word("Quoted", <<>>), Tag("NIL"))>>)
body_fld_octets == Alt(<<number, Value(Word("Number", <<"0">>), Tuple(<<Tag("-"), number>>))>>)
body_fld_lines == number
body_fields ==
  Node("Fields",
    Tuple(<<body_fld_param, sp, nstring, sp, nstring, sp, body_fld_enc, sp, body_fld_octets>>))

body_fld_dsp ==
  Node("Disposed", Alt(<<Tuple(<<Tag("("), string, sp, body_fld_param, Tag(")")>>), Tag("NIL")>>))
body_fld_lang ==
  Node("Languages", Alt(<<string, Tag("NIL"), Tuple(<<Tag("("), Separated(string, sp, 1), Tag(")")>>)>>))

body_extension(n) == Ref("body_extension", n)
body_extension_limited ==
  [n \in 0..8 |->
     IF n = 0 THEN RecursionLimitExceeded
     ELSE Alt(<<nstring, number, List(body_extension(n - 1), 1)>>)]

\* Every extension is there only if the ones before it are.
body_ext_location == Node("Location", Tuple(<<nstring, Many(Tuple(<<sp, body_extension(8)>>), 0)>>))
body_ext_language == Node("Language", Tuple(<<body_fld_lang, Opt(Tuple(<<sp, body_ext_location>>))>>))
body_ext_disposition == Node("Disposition", Tuple(<<body_fld_dsp, Opt(Tuple(<<sp, body_ext_language>>))>>))
body_ext_1part == Node("SinglePartExt", Tuple(<<nstring, Opt(Tuple(<<sp, body_ext_disposition>>))>>))
body_ext_mpart == Node("MultiPartExt", Tuple(<<body_fld_param, Opt(Tuple(<<sp, body_ext_disposition>>))>>))

media_message == Tag("\"MESSAGE\" \"RFC822\"")
media_subtype == string
media_text == Tuple(<<Tag("\"TEXT\""), sp, media_subtype>>)
media_basic == Tuple(<<string, sp, media_subtype>>)

body_type_basic == Node("Basic", Tuple(<<media_basic, sp, body_fields>>))
body_type_text == Node("TextBody", Tuple(<<media_text, sp, body_fields, sp, body_fld_lines>>))

body(n) == Ref("body", n)

body_type_msg_limited ==
  [n \in 0..8 |->
     IF n = 0 THEN RecursionLimitExceeded
     ELSE Node("Message",
            Tuple(<<media_message, sp, body_fields, sp, envelope, sp, body(n - 1), sp, body_fld_lines>>))]

\* The limit starts anew in every message.
body_type_1part_limited ==
  [n \in 0..8 |->
     IF n = 0 THEN RecursionLimitExceeded
     ELSE Node("SinglePart",
            Tuple(<<Alt(<<Ref("body_type_msg", 8), body_type_text, body_type_basic>>),
                    Opt(Tuple(<<sp, body_ext_1part>>))>>))]

body_type_mpart_limited ==
  [n \in 0..8 |->
     IF n = 0 THEN RecursionLimitExceeded
     ELSE Node("MultiPart",
            Tuple(<<Many(body(n), 1), sp, media_subtype, Opt(Tuple(<<sp, body_ext_mpart>>))>>))]

\* Mutant: the parts of a body do not count as recursions.
body_unlimited ==
  [n \in 0..8 |->
     IF n = 0 THEN RecursionLimitExceeded
     ELSE Tuple(<<Tag("("), Alt(<<Ref("body_type_1part", n), Ref("body_type_mpart", n)>>), Tag(")")>>)]

body_limited ==
  [n \in 0..8 |->
     IF n = 0 THEN RecursionLimitExceeded
     ELSE Tuple(<<Tag("("), Alt(<<Ref("body_type_1part", n - 1), Ref("body_type_mpart", n - 1)>>), Tag(")")>>)]

-----------------------------------------------------------------------------
(* fetch.rs                                                                *)

msg_att_dynamic ==
  Alt(<<Node("FLAGS", Tuple(<<Tag("FLAGS"), sp, Tag("("), Opt(Separated(flag_fetch, sp, 1)), Tag(")")>>)),
        Node("MODSEQ", Tuple(<<Tag("MODSEQ"), sp, Tag("("), mod_sequence_value, Tag(")")>>))>>)

uniqueid == nz_number
origin == Text("Partial", Tuple(<<Tag("<"), number, Tag(">")>>))

msg_att_static ==
  Alt(<<
    KeywordWith("ENVELOPE", <<envelope>>), KeywordWith("INTERNALDATE", <<date_time>>),
    KeywordWith("RFC822.HEADER", <<nstring>>), KeywordWith("RFC822.TEXT", <<nstring>>),
    KeywordWith("RFC822.SIZE", <<number>>), KeywordWith("RFC822", <<nstring>>),
    KeywordWith("BODYSTRUCTURE", <<body(8)>>), KeywordWith("BODY", <<body(8)>>),
    Node("BODY[", Tuple(<<Tag("BODY"), section, Opt(origin), sp, nstring>>)),
    KeywordWith("UID", <<uniqueid>>),
    Node("BINARY[", Tuple(<<Tag("BINARY"), section_binary, sp, imap_value>>)),
    Node("BINARY.SIZE[", Tuple(<<Tag("BINARY.SIZE"), section_binary, sp, number>>))>>)

msg_att ==
  Tuple(<<Tag("("), Separated(Kind("Item", Alt(<<msg_att_dynamic, msg_att_static>>)), sp, 1), Tag(")")>>)

-----------------------------------------------------------------------------
(* mailbox.rs, status.rs and the extensions                                *)

mailbox_list ==
  Tuple(<<Tag("("), Node("List", Opt(mbx_list_flags)), Tag(")"), sp, delimiter, sp, mailbox>>)

search_sort_mod_seq == Tuple(<<Tag("("), KeywordWith("MODSEQ", <<mod_sequence_value>>), Tag(")")>>)
FoundMessages(keyword) ==
  Tuple(<<Tag(keyword), Many(Tuple(<<sp, nz_number>>), 0), Opt(Tuple(<<sp, search_sort_mod_seq>>))>>)

\* Mutant: one recursion less.
thread_list_shallow ==
  [n \in 0..8 |->
     IF n <= 1 THEN RecursionLimitExceeded
     ELSE LET answers == Many(Ref("thread_list", n - 1), 2)
          IN  Tuple(<<Tag("("),
                Alt(<<Node("Members", Tuple(<<Separated(nz_number, sp, 1), Opt(Tuple(<<sp, Node("Answers", answers)>>))>>)),
                      Node("Nested", answers)>>), Tag(")")>>)]

thread_list_limited ==
  [n \in 0..8 |->
     IF n = 0 THEN RecursionLimitExceeded
     ELSE LET answers == Many(Ref("thread_list", n - 1), 2)
          IN  Tuple(<<Tag("("),
                Alt(<<Node("Members", Tuple(<<Separated(nz_number, sp, 1), Opt(Tuple(<<sp, Node("Answers", answers)>>))>>)),
                      Node("Nested", answers)>>), Tag(")")>>)]

thread_list(n) == Ref("thread_list", n)
thread_data == Node("THREAD", Tuple(<<Tag("THREAD"), Opt(Tuple(<<sp, Many(thread_list(8), 1)>>))>>))

status_att_val ==
  Alt(<<KeywordWith("MESSAGES", <<number>>), KeywordWith("RECENT", <<number>>),
        KeywordWith("UIDNEXT", <<nz_number>>), KeywordWith("UIDVALIDITY", <<nz_number>>),
        KeywordWith("UNSEEN", <<number>>), KeywordWith("DELETED-STORAGE", <<number64>>),
        KeywordWith("DELETED", <<number>>), KeywordWith("SIZE", <<number64>>),
        KeywordWith("HIGHESTMODSEQ", <<mod_sequence_valzer>>)>>)
status_att_list == Separated(Kind("StatusItem", status_att_val), sp, 1)

entry_list == Separated(entry, sp, 1)
metadata_resp ==
  Node("METADATA",
    Tuple(<<Tag("METADATA"), sp, mailbox, sp,
            Alt(<<Node("WithValues", Parenthesized(entry_value, 1)), Node("WithoutValues", entry_list)>>)>>))

namespace_response_extension ==
  Node("NamespaceExt", Tuple(<<sp, string, sp, List(string, 1)>>))
namespace_descr ==
  Node("Namespace",
    Tuple(<<Tag("("), string, sp, delimiter, Many(namespace_response_extension, 0), Tag(")")>>))
namespace == Node("Namespaces", Alt(<<Tag("NIL"), Tuple(<<Tag("("), Many(namespace_descr, 1), Tag(")")>>)>>))
namespace_response == KeywordWith("NAMESPACE", <<namespace, namespace, namespace>>)

quota_resource ==
  Node("QuotaGet", Tuple(<<resource_name, Many(sp, 1), number64, Many(sp, 1), number64>>))
quotaroot_response == Node("QUOTAROOT", Tuple(<<Tag("QUOTAROOT"), sp, mailbox, Many(Tuple(<<sp, quota_root_name>>), 0)>>))
quota_response ==
  Node("QUOTA", Tuple(<<Tag("QUOTA"), sp, quota_root_name, Tag(" ("), Separated(quota_resource, sp, 1), Tag(")")>>))

mailbox_data ==
  Alt(<<
    Node("FLAGS", Tuple(<<Tag("FLAGS"), sp, flag_list>>)),
    KeywordWith("LIST", <<mailbox_list>>), KeywordWith("LSUB", <<mailbox_list>>),
    Node("SEARCH", Tuple(<<FoundMessages("SEARCH"), Opt(sp)>>)), Node("SORT", FoundMessages("SORT")),
    thread_data,
    Node("STATUS",
      Tuple(<<Tag("STATUS"), sp, mailbox, Tag(" ("), Opt(status_att_list), Tag(")"), Opt(sp)>>)),
    metadata_resp, namespace_response,
    Node("EXISTS", Tuple(<<number, sp, Tag("EXISTS")>>)), Node("RECENT", Tuple(<<number, sp, Tag("RECENT")>>)),
    quotaroot_response, quota_response>>)

-----------------------------------------------------------------------------
(* response.rs: data                                                       *)

message_data ==
  Alt(<<
    Node("EXPUNGE", Tuple(<<nz_number, sp, Tag("EXPUNGE")>>)),
    Node("FETCH", Tuple(<<nz_number, sp, Tag("FETCH"), sp, msg_att>>)),
    Node("VANISHED", Tuple(<<Tag("VANISHED"), Opt(Tuple(<<sp, Keyword("(EARLIER)")>>)), sp, sequence_set>>))>>)

enable_data == Node("ENABLED", Tuple(<<Tag("ENABLED"), Many(Tuple(<<sp, capability_enable>>), 0)>>))
id_response == id

response_data ==
  Tuple(<<Tag("* "),
          Alt(<<Node("Untagged", resp_cond_state), Node("Bye", resp_cond_bye),
                Kind("Data", Alt(<<mailbox_data, message_data, capability_data, enable_data, id_response>>))>>),
          Tag("CRLF")>>)

response == Alt(<<empty_continue_req, continue_req, response_data, response_done>>)
=============================================================================
