-------------------------------- MODULE Json --------------------------------
(***************************************************************************)
(* Parsed JSON, told apart as far as the capture command tells it apart.   *)
(* A string is what it names and how it is spelled: its shape (a word, a   *)
(* hardware address, ...), the thing of that shape, and a style.  An       *)
(* object is the sequence of its entries, the order a document lists them. *)
(***************************************************************************)
EXTENDS Integers, Sequences

Spelled(shape, of, style) == [shape |-> shape, of |-> of, style |-> style]
Word(w) == Spelled("word", w, "plain")

Str(s) == [json |-> "string", text |-> s]
Num(n) == [json |-> "number", number |-> n]
Null == [json |-> "null"]
Bytes == [json |-> "bytes"]
Arr(items) == [json |-> "array", items |-> items]
Obj(entries) == [json |-> "object", entries |-> entries]

IsObject(v) == v.json = "object"
IsArray(v) == v.json = "array"

(* An object's member, or nothing. *)
Has(v, key) == IsObject(v) /\ \E i \in DOMAIN v.entries : v.entries[i][1] = key
Member(v, key) == v.entries[CHOOSE i \in DOMAIN v.entries : v.entries[i][1] = key][2]
HasText(v, key) == Has(v, key) /\ Member(v, key).json = "string"
=============================================================================
