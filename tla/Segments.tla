------------------------------- MODULE Segments -------------------------------
(***************************************************************************)
(* Message segments and their encodings: the OneBot v11 array a backend    *)
(* sends (gateway/onebot_v11.rs), the OneBot v12 array (onebot_v12.rs) and *)
(* the element string of Satori (satori.rs).                               *)
(*                                                                         *)
(* A text is a sequence of pieces, the characters and words the encodings  *)
(* tell apart: a word that begins with or holds one of theirs is written   *)
(* as several.  An optional value is a set of at most one element.         *)
(***************************************************************************)
EXTENDS Naturals, Sequences, SequencesExt

Or(option, default) == IF option = {} THEN default ELSE CHOOSE v \in option : TRUE

\* The field k of an object that has it only when the option holds a value.
Field(k, option) == [f \in {k : v \in option} |-> CHOOSE v \in option : TRUE]

\* An object with the fields of two; the first has the say over what both hold.
Merge(f, g) ==
  [k \in DOMAIN f \cup DOMAIN g |-> IF k \in DOMAIN f THEN f[k] ELSE g[k]]

-----------------------------------------------------------------------------
(* OneBot v11.  A segment has a type and a record of data; serde writes the *)
(* internal segment as v11 writes it, so one form stands for both.          *)

Segment(type, data) == [type |-> type, data |-> data]
Text(t) == Segment("text", [text |-> t])

\* A field of a backend's segment is a JSON string, a number or neither.
Str(t) == [kind |-> "string", text |-> t]
Num(t) == [kind |-> "number", text |-> t]

AsStr(data, k) ==
  {data[f].text : f \in {g \in DOMAIN data \cap {k} : data[g].kind = "string"}}

\* Ids of mentions, faces and replies may be numbers.
AsId(data, k) ==
  {IF data[f].kind \in {"string", "number"} THEN data[f].text ELSE <<"0">> :
     f \in DOMAIN data \cap {k}}

ParseSingleSegment(type, data) ==
  LET str(k) == Or(AsStr(data, k), <<>>)
      id(k)  == Or(AsId(data, k), <<>>)
  IN CASE type = "text" -> {Text(t) : t \in AsStr(data, "text")}
       [] type \in {"image", "record", "video"} ->
            {Segment(type, Merge([file |-> str("file")], Field("url", AsStr(data, "url"))))}
       [] type = "at"                -> {Segment(type, [qq |-> id("qq")])}
       [] type \in {"face", "reply"} -> {Segment(type, [id |-> id("id")])}
       [] type = "forward"           -> {Segment(type, [id |-> str("id")])}
       [] type \in {"json", "xml"}   -> {Segment(type, [data |-> str("data")])}
       [] type = "poke" -> {Segment(type, [type |-> str("type"), id |-> str("id")])}
       [] OTHER -> {}

\* The message is an array, a string of CQ codes, or absent.
ParseMessageSegments(message) ==
  CASE message.form = "array" ->
         FoldLeft(LAMBDA done, s : done \o SetToSeq(ParseSingleSegment(s.type, s.data)),
                  <<>>, message.segments)
    [] message.form = "string" -> <<Text(message.text)>>
    [] OTHER -> <<>>

-----------------------------------------------------------------------------
(* OneBot v12 *)

Renamed(data, from, to) ==
  [k \in {IF f = from THEN to ELSE f : f \in DOMAIN data} |->
     data[IF k = to THEN from ELSE k]]

QqTypes == [face |-> "qq.face", forward |-> "qq.forward", json |-> "qq.json", xml |-> "qq.xml",
            poke |-> "qq.poke"]

SegmentToV12(s) ==
  CASE s.type \in {"image", "video"} -> Segment(s.type, Renamed(s.data, "file", "file_id"))
    [] s.type = "record" -> Segment("voice", Renamed(s.data, "file", "file_id"))
    [] s.type = "at"     -> Segment("mention", Renamed(s.data, "qq", "user_id"))
    [] s.type = "reply"  -> Segment("reply", Renamed(s.data, "id", "message_id"))
    [] s.type \in DOMAIN QqTypes -> Segment(QqTypes[s.type], s.data)
    [] OTHER -> s

SegmentsToV12(segments) == [i \in DOMAIN segments |-> SegmentToV12(segments[i])]

-----------------------------------------------------------------------------
(* Satori *)

\* Every occurrence of pattern replaced, from left to right.
Replace(text, pattern, by) ==
  LET Here(i) == SubSeq(text, i, i + Len(pattern) - 1) = pattern
      rest[i \in 1..Len(text) + Len(pattern)] ==
        IF i > Len(text) THEN <<>>
        ELSE IF i + Len(pattern) <= Len(text) + 1 /\ Here(i) THEN by \o rest[i + Len(pattern)]
        ELSE <<text[i]>> \o rest[i + 1]
  IN rest[1]

Entity(name) == <<"&", name, ";">>

EscapeSatoriText(t) ==
  Replace(Replace(Replace(t, <<"&">>, Entity("amp")), <<"<">>, Entity("lt")),
          <<">">>, Entity("gt"))

\* The quotation mark is replaced after the ampersand and before < and >.
EscapeAttr(t) ==
  Replace(Replace(Replace(Replace(t, <<"&">>, Entity("amp")), <<"\"">>, Entity("quot")),
                  <<"<">>, Entity("lt")), <<">">>, Entity("gt"))

\* Mutant: the ampersand first: the text &lt; comes back as <.
Unescape_AmpFirst(t) ==
  LET u == Replace(t, Entity("amp"), <<"&">>)
  IN Replace(Replace(Replace(u, Entity("lt"), <<"<">>), Entity("gt"), <<">">>),
             Entity("quot"), <<"\"">>)

Unescape(t) ==
  LET u == Replace(Replace(t, Entity("lt"), <<"<">>), Entity("gt"), <<">">>)
      v == Replace(Replace(u, Entity("quot"), <<"\"">>), Entity("#39"), <<"'">>)
  IN Replace(v, Entity("amp"), <<"&">>)

\* <name key="value" ... />, each word and mark a piece.
Attribute(key, value) == <<key, "=", "\"">> \o EscapeAttr(value) \o <<"\"">>
Element(name, attributes) == <<"<", name>> \o attributes \o <<"/", ">">>

\* A media segment names its url, or its file when it has none.
Source(data) == IF "url" \in DOMAIN data THEN data.url ELSE data.file

SegmentToElements(s) ==
  CASE s.type = "text"   -> EscapeSatoriText(s.data.text)
    [] s.type = "at"     -> IF s.data.qq = <<"all">> THEN Element("at", Attribute("type", <<"all">>))
                                                     ELSE Element("at", Attribute("id", s.data.qq))
    [] s.type = "image"  -> Element("img", Attribute("src", Source(s.data)))
    [] s.type = "record" -> Element("audio", Attribute("src", Source(s.data)))
    [] s.type = "video"  -> Element("video", Attribute("src", Source(s.data)))
    [] s.type = "face"   -> Element("emoji", Attribute("id", s.data.id))
    [] s.type = "reply"  -> <<"<", "quote", ">">> \o Element("message", Attribute("id", s.data.id))
                            \o <<"<", "/", "quote", ">">>
    [] s.type = "forward" -> Element("message", Attribute("id", s.data.id) \o <<"forward">>)
    [] s.type \in {"json", "xml"} -> EscapeSatoriText(s.data.data)
    [] s.type = "poke"   -> Element("qq:poke", Attribute("type", s.data.type)
                                               \o Attribute("id", s.data.id))
    [] OTHER -> <<>>

SegmentsToSatoriElements(segments) ==
  FlattenSeq([i \in DOMAIN segments |-> SegmentToElements(segments[i])])

\* The attributes of a tag: words outside quotation marks are names, and a
\* name that no value follows is set to the empty text.
ParseAttrs(pieces) ==
  LET Named(a) == IF a.name = "" THEN a.attrs ELSE Merge(a.name :> <<>>, a.attrs)
      Step(a, p) ==
        IF a.in = "value"
        THEN IF p # "\"" THEN [a EXCEPT !.value = Append(@, p)]
             ELSE [in |-> "names", name |-> "", value |-> <<>>,
                   attrs |-> Merge(a.name :> Unescape(a.value), a.attrs)]
        ELSE CASE p = "="  -> a
               [] p = "\"" -> [a EXCEPT !.in = "value"]
               [] p = "/"  -> [a EXCEPT !.attrs = Named(a), !.name = ""]
               [] OTHER    -> [a EXCEPT !.attrs = Named(a), !.name = p]
      end == FoldLeft(Step, [in |-> "names", name |-> "", value |-> <<>>, attrs |-> <<>>], pieces)
  IN IF end.in = "value" THEN Merge(end.name :> Unescape(end.value), end.attrs) ELSE Named(end)

\* The tag between < and >.  The name of its element is what it begins with, be
\* it the beginning of a longer word; "forward" makes a message a forwarded one
\* wherever it stands in the tag, in the id too.
ParseSatoriTag(tag) ==
  LET name  == IF tag = <<>> THEN "" ELSE tag[1]
      attrs == IF tag = <<>> THEN <<>> ELSE ParseAttrs(Tail(tag))
      attr(k) == {attrs[f] : f \in DOMAIN attrs \cap {k}}
      media(type) == {Segment(type, [file |-> src, url |-> src]) : src \in attr("src")}
  IN CASE name = "at" ->
            IF attr("type") \cap {<<"all">>, <<"here">>} # {}
            THEN {Segment("at", [qq |-> t]) : t \in attr("type")}
            ELSE {Segment("at", [qq |-> id]) : id \in attr("id")}
       [] name = "img"   -> media("image")
       [] name = "audio" -> media("record")
       [] name = "video" -> media("video")
       [] name = "emoji" -> {Segment("face", [id |-> id]) : id \in attr("id")}
       [] name = "message" ->
            {Segment(IF Contains(tag, "forward") THEN "forward" ELSE "reply", [id |-> id]) :
               id \in attr("id")}
       [] OTHER -> {}

\* Text is collected up to the next tag; an entity runs to its semicolon, and
\* what has none swallows the rest, tags included.
ParseSatoriElements(content) ==
  LET Flushed(r) == IF r.text = <<>> THEN r.segments
                                     ELSE Append(r.segments, Text(Unescape(r.text)))
      Step(r, p) ==
        CASE r.in = "text" /\ p = "<" ->
               [in |-> "tag", text |-> <<>>, tag |-> <<>>, segments |-> Flushed(r)]
          [] r.in = "tag" /\ p = ">" ->
               [r EXCEPT !.in = "text", !.segments = @ \o SetToSeq(ParseSatoriTag(r.tag))]
          [] r.in = "tag" /\ p # ">" -> [r EXCEPT !.tag = Append(@, p)]
          [] OTHER -> [r EXCEPT !.text = Append(@, p),
                                !.in = IF p = "&" THEN "entity"
                                       ELSE IF p = ";" THEN "text" ELSE @]
      end == FoldLeft(Step, [in |-> "text", text |-> <<>>, tag |-> <<>>, segments |-> <<>>],
                      content)
  IN IF end.in = "tag" THEN end.segments \o SetToSeq(ParseSatoriTag(end.tag)) ELSE Flushed(end)

=============================================================================
