------------------------------ MODULE Bencode ------------------------------
(***************************************************************************)
(* The codec of internal/bt/bencode.go.  Encoded data is a sequence of     *)
(* tokens: a string with its length prefix is one token, an integer is     *)
(* one, and the bytes 'l', 'd' and 'e' are one each.  The recursion of the *)
(* decoder is modelled by its call stack.                                  *)
(***************************************************************************)
EXTENDS Integers, Sequences, SequencesExt

CONSTANT KeyOrder      \* the dictionary keys in use, in the order of bytes

ASSUME KeyOrderAssumption == KeyOrder \in Seq(STRING)

\* Decoded values: []byte, int64, []interface{} and map[string]interface{}.
Str(s) == [t |-> "str", v |-> s]
IntVal(n) == [t |-> "int", v |-> n]
List(s) == [t |-> "list", v |-> s]
Dict(f) == [t |-> "dict", v |-> f]

BeginList == [t |-> "l"]
BeginDict == [t |-> "d"]
End == [t |-> "e"]

\* encode, given the encoder of what a list or a dictionary contains.  The
\* keys of a dictionary are written in their order.
encodeWith(encodeItem(_), val) ==
    CASE val.t = "list" ->
           <<BeginList>>
             \o FlattenSeq([i \in DOMAIN val.v |-> encodeItem(val.v[i])]) \o <<End>>
      [] val.t = "dict" ->
           <<BeginDict>>
             \o FlattenSeq([i \in DOMAIN KeyOrder |->
                  IF KeyOrder[i] \in DOMAIN val.v
                  THEN <<Str(KeyOrder[i])>> \o encodeItem(val.v[KeyOrder[i]])
                  ELSE << >>]) \o <<End>>
      [] OTHER -> <<val>>

\* Bound: three calls of encode within each other, as deep as a message of
\* krpc.go nests: the message, its arguments, and a list of strings.
encodeLeaf(val) == <<val>>
encodeFlat(val) == encodeWith(encodeLeaf, val)
encodePart(val) == encodeWith(encodeFlat, val)
encode(val) == encodeWith(encodePart, val)
-----------------------------------------------------------------------------
\* The calls of decode that have not returned, the innermost first: each with
\* what it has read so far and, under "up", its caller.
TopFrame == [t |-> "top"]
ListFrame(up, items) == [t |-> "list", v |-> items, up |-> up]
DictFrame(up, dict) == [t |-> "dict", v |-> dict, up |-> up]
ValueFrame(up, dict, key) == [t |-> "value", v |-> dict, key |-> key, up |-> up]
Done(val) == [t |-> "done", v |-> val]
Failed == [t |-> "failed"]

NoItems == << >>
NoEntries == [k \in {} |-> 0]

\* A later value of a key replaces an earlier one.
SetKey(dict, key, val) ==
    [k \in DOMAIN dict \cup {key} |-> IF k = key THEN val ELSE dict[k]]

\* decode returns a value to its caller.
Return(frame, val) ==
    CASE frame.t = "top"   -> Done(val)
      [] frame.t = "list"  -> ListFrame(frame.up, Append(frame.v, val))
      [] frame.t = "value" -> DictFrame(frame.up, SetKey(frame.v, frame.key, val))

\* decode reads a token.
decode(frame, tok) ==
    CASE tok.t \in {"str", "int"} -> Return(frame, tok)
      [] tok.t = "l" -> ListFrame(frame, NoItems)
      [] tok.t = "d" -> DictFrame(frame, NoEntries)
      [] tok.t = "e" -> Failed

\* decodeList reads a token: the end of the list, or the next item begins.
decodeList(frame, tok) ==
    IF tok.t = "e" THEN Return(frame.up, List(frame.v)) ELSE decode(frame, tok)

\* decodeDict reads a token: the end of the dictionary, or a key.
decodeDict(frame, tok) ==
    CASE tok.t = "e"   -> Return(frame.up, Dict(frame.v))
      [] tok.t = "str" -> ValueFrame(frame.up, frame.v, tok.v)
      [] OTHER         -> Failed

\* The next token of the data.  Data behind the value is ignored.
ReadToken(frame, tok) ==
    CASE frame.t = "list" -> decodeList(frame, tok)
      [] frame.t = "dict" -> decodeDict(frame, tok)
      [] frame.t \in {"done", "failed"} -> frame
      [] OTHER -> decode(frame, tok)

\* The decoder after data that it began to read in a frame.
Read(frame, data) ==
    LET read[i \in 0..Len(data)] ==
          IF i = 0 THEN frame ELSE ReadToken(read[i - 1], data[i])
    IN  read[Len(data)]

\* DecodeDict: Decode, which fails where the data ends too early, and a test
\* whether the value is a dictionary.
DecodeDict(data) ==
    LET r == Read(TopFrame, data)
    IN  IF r.t = "done" /\ r.v.t = "dict" THEN r.v.v ELSE Failed

\* GetString, GetBytes, GetInt, GetDict, GetList: the key is there and its
\* value has the type.
Has(dict, key, type) == key \in DOMAIN dict /\ dict[key].t = type
=============================================================================
