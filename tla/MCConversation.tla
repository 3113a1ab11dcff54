--------------------------- MODULE MCConversation ---------------------------
(* Conversation instantiated for TLC: every short text of pieces that the   *)
(* encodings treat apart, and every pair of one segment of each kind.       *)
EXTENDS Conversation

Pieces == {"&", "<", ">", "lt", ";"}
Texts  == UNION {[1..n -> Pieces] : n \in 0..3}

Url == <<"u", "&", "lt", ";", "\"">>

Samples ==
  {[type |-> "text",    data |-> [text |-> Str(<<"a", "\"">>)]],
   [type |-> "text",    data |-> <<>>],
   [type |-> "image",   data |-> [file |-> Str(<<"f">>), url |-> Str(Url)]],
   [type |-> "record",  data |-> [file |-> Str(<<"f", "<", ">">>)]],
   [type |-> "video",   data |-> [file |-> Num(<<"1">>), url |-> Str(<<"u">>)]],
   [type |-> "at",      data |-> [qq |-> Num(<<"7">>)]],
   [type |-> "at",      data |-> [qq |-> Str(<<"all">>)]],
   [type |-> "face",    data |-> [id |-> Str(<<"5">>)]],
   [type |-> "reply",   data |-> [id |-> Num(<<"3">>)]],
   [type |-> "reply",   data |-> [id |-> Str(<<"3", "forward">>)]],
   [type |-> "forward", data |-> [id |-> Num(<<"3">>)]],
   [type |-> "json",    data |-> [data |-> Str(<<"{", "\"", "&", "<">>)]],
   [type |-> "xml",     data |-> [data |-> Str(<<"<", "lt", ">">>)]],
   [type |-> "poke",    data |-> [type |-> Str(<<"1">>), id |-> Num(<<"2">>)]],
   [type |-> "market",  data |-> <<>>]}

MCContents ==
  {[form |-> "array", segments |-> <<[type |-> "text", data |-> [text |-> Str(t)]]>>] : t \in Texts}
  \cup {[form |-> "array", segments |-> <<s, t>>] : s, t \in Samples}
  \cup {[form |-> "string", text |-> <<"a", "<">>], [form |-> "absent"]}

=============================================================================
