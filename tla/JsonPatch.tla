------------------------------ MODULE JsonPatch ------------------------------
(***************************************************************************)
(* json_pointer of json.hpp, and flatten, unflatten, patch and diff, which *)
(* rest on it.  A pointer is the sequence of its reference tokens; every   *)
(* exception is the value Thrown.                                          *)
(***************************************************************************)
EXTENDS Json

CONSTANT ReadFirst      \* whether the compiler evaluates the right operand of an
                        \* assignment before the left one

ASSUME JsonPatchAssumption == ReadFirst \in BOOLEAN

Null == <<"null", 0>>
Tilde == Code["~"]

-----------------------------------------------------------------------------
(* Values *)

\* An integer equals a float of the same value; no integer here is too large
\* for a float.
RECURSIVE Equal(_, _)
Equal(j, k) ==
    CASE j[1] = k[1] /\ j[1] \in {"array", "object"} ->
            DOMAIN j[2] = DOMAIN k[2] /\ \A place \in DOMAIN j[2] : Equal(j[2][place], k[2][place])
      [] j[1] = k[1] /\ j[1] \notin {"array", "object"} -> j[2] = k[2]
      [] j[1] = "integer" /\ k[1] = "float" -> Decimal(j[2], 0) = k[2]
      [] j[1] = "float" /\ k[1] = "integer" -> j[2] = Decimal(k[2], 0)
      [] OTHER -> FALSE

isThrown(j) == j[1] = "thrown"

\* external: std::stoi, the number at the start of s if it is an int.
Position(s, chars, i) == Min({k \in i .. Len(s) : s[k] \notin chars} \union {Len(s) + 1})
stoi(s) ==
    LET Signed(i) == IF get(s, i) = Code["-"] THEN -1 ELSE 1
        AtDigits(sign, i) ==
            {n \in {sign * Natural(SubSeq(s, i, end - 1)) : end \in {Position(s, Digits, i)} \ {i}} :
                n \in -(IntWrap \div 2) .. IntWrap \div 2 - 1}
        AfterSpaces(i) ==
            AtDigits(Signed(i), IF get(s, i) \in {Code["+"], Code["-"]} THEN i + 1 ELSE i)
    IN  AfterSpaces(Position(s, (9 .. 13) \union {32}, 1))

-----------------------------------------------------------------------------
(* json_pointer *)

RECURSIVE replace_substring(_, _, _)
replace_substring(s, f, t) ==
    LET places == {i \in 1 .. Len(s) - Len(f) + 1 : SubSeq(s, i, i + Len(f) - 1) = f}
        pos == Min(places)
    IN  IF places = {} THEN s
        ELSE SubSeq(s, 1, pos - 1) \o t \o replace_substring(SubSeq(s, pos + Len(f), Len(s)), f, t)

escape(s) ==
    replace_substring(replace_substring(s, Bytes("~"), Bytes("~0")), Bytes("/"), Bytes("~1"))

\* Mutant: the tilde first, so that "~01" becomes a slash.
UnescapeTildeFirst(s) ==
    replace_substring(replace_substring(s, Bytes("~0"), Bytes("~")), Bytes("~1"), Bytes("/"))
unescape(s) ==
    replace_substring(replace_substring(s, Bytes("~1"), Bytes("/")), Bytes("~0"), Bytes("~"))

\* The constructor of a pointer: every ~ must be followed by 0 or 1.
split(s) ==
    LET slashes == SetToSortSeq({i \in DOMAIN s : s[i] = Slash}, <)
        ends == Append(slashes, Len(s) + 1)
        token(n) == unescape(SubSeq(s, ends[n] + 1, ends[n + 1] - 1))
        escaped == \A i \in DOMAIN s : s[i] = Tilde => get(s, i + 1) \in {Code["0"], Code["1"]}
    IN  IF (s = <<>> \/ s[1] = Slash) /\ escaped
        THEN [ok |-> TRUE, tokens |-> [n \in DOMAIN slashes |-> token(n)]]
        ELSE Failed

isIndex(token) == token # <<>> /\ ~(Len(token) > 1 /\ token[1] = Code["0"])

\* One step of the three ways to follow a pointer: the value that is there, which
\* null may become first, and the keys or positions the token names, none when
\* it throws.
Step(value, places) == [value |-> value, places |-> places]

get_and_create(j, token) ==
    LET kind == CASE j[1] # "null" -> j[1]
                  [] j[1] = "null" /\ token = Bytes("0") -> "array"
                  [] OTHER -> "object"
        value == IF j[1] = "null" THEN <<kind, <<>>>> ELSE j
    IN  CASE kind = "object" -> Step(value, {token})
          [] kind = "array" -> Step(value, {n + 1 : n \in {m \in stoi(token) : m >= 0}})
          [] OTHER -> Step(value, {})

get_unchecked(j, token) ==
    LET nums == \A i \in DOMAIN token : token[i] \in Digits
        value == CASE j[1] # "null" -> j
                   [] j[1] = "null" /\ (nums \/ token = Bytes("-")) -> <<"array", <<>>>>
                   [] OTHER -> <<"object", <<>>>>
    IN  CASE value[1] = "object" -> Step(value, {token})
          [] value[1] = "array" /\ token = Bytes("-") -> Step(value, {Len(value[2]) + 1})
          [] value[1] = "array" /\ token # Bytes("-") /\ isIndex(token) ->
                Step(value, {n + 1 : n \in {m \in stoi(token) : m >= 0}})
          [] OTHER -> Step(value, {})

get_checked(j, token) ==
    CASE j[1] = "object" -> Step(j, {token} \intersect DOMAIN j[2])
      [] j[1] = "array" /\ isIndex(token) ->
            Step(j, {n + 1 : n \in stoi(token)} \intersect DOMAIN j[2])
      [] OTHER -> Step(j, {})

Create == "get_and_create"
Unchecked == "get_unchecked"
Checked == "get_checked"
Follow(j, token, mode) == CASE mode = Create -> get_and_create(j, token)
                            [] mode = Unchecked -> get_unchecked(j, token)
                            [] mode = Checked -> get_checked(j, token)

\* operator[]: a new key is null, an array is filled up with null.
Element(value, place) == IF place \in DOMAIN value[2] THEN value[2][place] ELSE Null
WithElement(value, place, element) ==
    CASE isThrown(element) -> Thrown
      [] value[1] = "object" -> <<"object", (place :> element) @@ value[2]>>
      [] OTHER -> <<"array", [i \in 1 .. Max({place, Len(value[2])}) |->
                                IF i = place THEN element ELSE Element(value, i)]>>

\* at: what is there.
RECURSIVE Get(_, _)
Get(j, tokens) ==
    LET There(places) == IF places = {} THEN Thrown
                       ELSE Get(j[2][CHOOSE place \in places : TRUE], Tail(tokens))
    IN  IF tokens = <<>> THEN j ELSE There(get_checked(j, Head(tokens)).places)

-----------------------------------------------------------------------------
(* Changes of a document *)

\* What happens to the value a pointer refers to, or to the parent of it.
Edit(op, mode, tokens, value) == [op |-> op, mode |-> mode, tokens |-> tokens, value |-> value]

\* A primitive parent fails an assertion.
operation_add(parent, last, val) ==
    LET Inserted(positions) ==
            IF positions = {} THEN Thrown
            ELSE <<"array", InsertAt(parent[2], 1 + CHOOSE n \in positions : TRUE, val)>>
    IN  CASE parent[1] = "null" -> <<"object", last :> val>>
          [] parent[1] = "object" -> <<"object", (last :> val) @@ parent[2]>>
          [] parent[1] = "array" /\ last = Bytes("-") -> <<"array", Append(parent[2], val)>>
          [] parent[1] = "array" /\ last # Bytes("-") ->
                Inserted(stoi(last) \intersect (0 .. Len(parent[2])))
          [] OTHER -> Thrown

\* Nothing is removed from a primitive parent.
operation_remove(parent, last) ==
    LET Without(places) ==
            IF places = {} THEN Thrown
            ELSE <<"array", RemoveAt(parent[2], CHOOSE place \in places : TRUE)>>
    IN  CASE parent[1] = "object" /\ last \in DOMAIN parent[2] ->
                <<"object", [key \in DOMAIN parent[2] \ {last} |-> parent[2][key]]>>
          [] parent[1] = "object" /\ last \notin DOMAIN parent[2] -> Thrown
          [] parent[1] = "array" -> Without({n + 1 : n \in stoi(last)} \intersect DOMAIN parent[2])
          [] OTHER -> parent

Changed(edit, value) ==
    CASE edit.op = "put" -> edit.value
      [] edit.op = "create" -> value
      [] edit.op = "add" -> operation_add(value, Last(edit.tokens), edit.value)
      [] edit.op = "remove" -> operation_remove(value, Last(edit.tokens))
      [] edit.op = "test" -> IF Equal(value, edit.value) THEN value ELSE Thrown

\* j with the change at the end of the tokens.
RECURSIVE Walk(_, _, _)
Walk(j, tokens, edit) ==
    LET Into(value, place) ==
            WithElement(value, place, Walk(Element(value, place), Tail(tokens), edit))
        Through(step) == IF step.places = {} THEN Thrown
                         ELSE Into(step.value, CHOOSE place \in step.places : TRUE)
    IN  IF tokens = <<>> THEN Changed(edit, j) ELSE Through(Follow(j, Head(tokens), edit.mode))

\* The root is replaced by what is added to it, and has no parent it could be
\* removed from.  To add, what the first token refers to must be there.
Perform(result, edit) ==
    LET tokens == edit.tokens
        target == IF edit.op \in {"add", "remove"} THEN Front(tokens) ELSE tokens
    IN  CASE isThrown(result) -> Thrown
          [] tokens = <<>> /\ edit.op = "add" -> edit.value
          [] tokens = <<>> /\ edit.op = "remove" -> Thrown
          [] OTHER ->
                IF /\ edit.op = "add" /\ Len(tokens) > 1
                   /\ get_checked(result, tokens[1]).places = {}
                THEN Thrown
                ELSE Walk(result, target, edit)

-----------------------------------------------------------------------------
(* flatten and unflatten *)

Index(i) == Bytes(ToString(i - 1))
Child(reference, token) == reference \o Bytes("/") \o token

\* The pairs of a pointer, as text, and a primitive value.
RECURSIVE Flat(_, _)
Flat(reference, value) ==
    CASE value[1] \in {"array", "object"} /\ DOMAIN value[2] = {} -> {<<reference, Null>>}
      [] value[1] = "array" /\ DOMAIN value[2] # {} ->
            UNION {Flat(Child(reference, Index(i)), value[2][i]) : i \in DOMAIN value[2]}
      [] value[1] = "object" /\ DOMAIN value[2] # {} ->
            UNION {Flat(Child(reference, escape(key)), value[2][key]) : key \in DOMAIN value[2]}
      [] OTHER -> {<<reference, value>>}

flatten(j) ==
    LET pairs == Flat(<<>>, j)
    IN  <<"object", [key \in {p[1] : p \in pairs} |-> (CHOOSE p \in pairs : p[1] = key)[2]]>>

unflatten(j) ==
    LET Insert(result, key) ==
            LET pointer == split(key)
            IN  IF isThrown(result) \/ ~pointer.ok \/ j[2][key][1] \in {"array", "object"}
                THEN Thrown
                ELSE Perform(result, Edit("put", Create, pointer.tokens, j[2][key]))
    IN  IF j[1] = "object" THEN FoldLeft(Insert, Null, Sorted(DOMAIN j[2])) ELSE Thrown

-----------------------------------------------------------------------------
(* patch *)

\* What must be a string of a pointer; Failed if there is none.
PointerMember(val, key) ==
    IF key \in DOMAIN val[2] /\ val[2][key][1] = "string" THEN split(val[2][key][2]) ELSE Failed

\* The changes of one element of a patch: path and from are pointers, moved and
\* copied are the values that from refers to.
Edits(val, path, from, moved, copied) ==
    LET IsOp(op) == val[2][Bytes("op")] = <<"string", Bytes(op)>>
        hasValue == Bytes("value") \in DOMAIN val[2]
        value == val[2][Bytes("value")]
    IN  CASE IsOp("add") /\ hasValue -> <<Edit("add", Unchecked, path.tokens, value)>>
          [] IsOp("remove") -> <<Edit("remove", Checked, path.tokens, Null)>>
          [] IsOp("replace") /\ hasValue -> <<Edit("put", Checked, path.tokens, value)>>
          [] IsOp("test") /\ hasValue -> <<Edit("test", Checked, path.tokens, value)>>
          [] IsOp("move") /\ ~isThrown(moved) ->
                <<Edit("remove", Checked, from.tokens, Null),
                  Edit("add", Unchecked, path.tokens, moved)>>
          [] IsOp("copy") /\ ~isThrown(copied) -> <<Edit("put", Unchecked, path.tokens, copied)>>
          [] OTHER -> <<>>

\* One element of a patch; the value of a copy may be read before or after the
\* place it goes to has been created.
Apply(result, val) ==
    LET From(document, pointer) == IF pointer.ok THEN Get(document, pointer.tokens) ELSE Thrown
        Performed(edits) == IF edits = <<>> THEN Thrown ELSE FoldLeft(Perform, result, edits)
        Copied(path) == IF ReadFirst THEN result
                        ELSE Perform(result, Edit("create", Unchecked, path.tokens, Null))
        WithPointers(path, from) ==
            IF ~path.ok THEN Thrown
            ELSE Performed(Edits(val, path, from, From(result, from), From(Copied(path), from)))
    IN  CASE isThrown(result) \/ val[1] # "object" -> Thrown
          [] OTHER -> IF Bytes("op") \notin DOMAIN val[2] THEN Thrown
                      ELSE WithPointers(PointerMember(val, Bytes("path")),
                                        PointerMember(val, Bytes("from")))

patch(j, json_patch) ==
    IF json_patch[1] = "array" THEN FoldLeft(Apply, j, json_patch[2]) ELSE Thrown

-----------------------------------------------------------------------------
(* diff *)

\* An object of initializer lists, each a pair of a key and a value.
Text(s) == <<"string", Bytes(s)>>
Operation(op, path, values) ==
    FromList(<<FromList(<<Text("op"), Text(op)>>), FromList(<<Text("path"), <<"string", path>>>>)>>
             \o [i \in DOMAIN values |-> FromList(<<Text("value"), values[i]>>)])

\* Mutant: the first of the remaining elements is removed first.
RemoveInOrder(path, first, last) ==
    [i \in 1 .. last - first + 1 |-> Operation("remove", Child(path, Index(first + i - 1)), <<>>)]

\* "add operations in reverse order to avoid invalid indices"
RemoveRemaining(path, first, last) ==
    [i \in 1 .. last - first + 1 |-> Operation("remove", Child(path, Index(last - i + 1)), <<>>)]

AddRemaining(path, target, first) ==
    [i \in 1 .. Len(target) - first + 1 |->
        Operation("add", Child(path, Index(first + i - 1)), <<target[first + i - 1]>>)]

\* The elements of the patch; path is the text of a pointer.
RECURSIVE diff(_, _, _), DiffArrays(_, _, _), DiffObjects(_, _, _)
DiffArrays(source, target, path) ==
    LET common == Min({Len(source), Len(target)})
    IN  FlattenSeq([i \in 1 .. common |-> diff(source[i], target[i], Child(path, Index(i)))])
        \o RemoveRemaining(path, common + 1, Len(source))
        \o AddRemaining(path, target, common + 1)

DiffObjects(source, target, path) ==
    LET keys == Sorted(DOMAIN source)
        added == Sorted(DOMAIN target \ DOMAIN source)
        Place(key) == Child(path, escape(key))
    IN  FlattenSeq([i \in DOMAIN keys |->
            IF keys[i] \in DOMAIN target
            THEN diff(source[keys[i]], target[keys[i]], Place(keys[i]))
            ELSE <<Operation("remove", Place(keys[i]), <<>>)>>])
        \o [i \in DOMAIN added |-> Operation("add", Place(added[i]), <<target[added[i]]>>)]

diff(source, target, path) ==
    CASE Equal(source, target) -> <<>>
      [] OTHER -> IF source[1] = target[1] /\ source[1] = "array"
                  THEN DiffArrays(source[2], target[2], path)
                  ELSE IF source[1] = target[1] /\ source[1] = "object"
                  THEN DiffObjects(source[2], target[2], path)
                  ELSE <<Operation("replace", path, <<target>>)>>

=============================================================================
