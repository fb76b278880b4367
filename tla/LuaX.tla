-------------------------------- MODULE LuaX --------------------------------
(***************************************************************************)
(* The helpers of src/bind/dromozoa/bind/luaX.hpp, with which every        *)
(* function of the module reads its arguments and builds its results: each *)
(* is a few calls of the Lua API on a stack, with indices that move while  *)
(* values are pushed, and integer conversions between types of different   *)
(* widths.  A C++ function is a sequence of helpers; closure turns the way *)
(* it ends into results or a Lua error.                                    *)
(***************************************************************************)
EXTENDS Integers, SequencesExt

CONSTANTS
  Ids,        \* the tables that can exist
  Keys,       \* keys of fields
  MaxTop,     \* bound on the stack
  MaxInteger, \* of lua_Integer and intmax_t
  Types,      \* the C++ integer types: records signed, max
  NameLists,  \* sequences of names of metatables of userdata
  Sizes,      \* lengths of strings a range is taken of
  Scalars,    \* values a function puts on its stack
  Arguments   \* values a function is given to read

Integers == -MaxInteger - 1 .. MaxInteger
Modulus == 2 * (MaxInteger + 1)
Halves == -Modulus .. Modulus - 1

\* Lua values; a float is a number of halves, a numeral a string that Lua
\* reads as a number.
Nil == <<"nil", 0>>
Boolean(b) == <<"boolean", b>>
Integer(n) == <<"integer", n>>
Float(h) == <<"float", h>>
Numeral(n) == <<"numeral", n>>
Str(s) == <<"string", s>>
Table(t) == <<"table", t>>
Udata(name) == <<"userdata", name>>
IsTable(v) == v[1] = "table"
IsTrue(v) == v \notin {Nil, Boolean(FALSE)}
IsNumber(v) == v[1] \in {"integer", "float", "numeral"}

ASSUME LuaXAssumption ==
  /\ Ids \subseteq Nat \ {0} /\ Ids # {} /\ MaxTop \in Nat /\ MaxInteger \in Nat
  /\ \A T \in Types : /\ T.signed \in BOOLEAN /\ T.max \in Nat \ {0}
                      /\ T.max < IF T.signed THEN MaxInteger + 1 ELSE Modulus
  /\ \A names \in NameLists : names \in Seq(STRING) /\ names # <<>>
  /\ Sizes \subseteq 0 .. MaxInteger
  /\ \A v \in Scalars : ~IsTable(v)
  /\ \A v \in Arguments : \/ \E n \in Integers : v \in {Integer(n), Numeral(n)}
                          \/ \E h \in Halves : v = Float(h)
                          \/ ~IsNumber(v) /\ ~IsTable(v) /\ v = <<v[1], v[2]>>

VARIABLES
  work,     \* whether the function works on tables or reads its argument
  version,  \* "5.1" or "5.3": what LUA_VERSION_NUM selects
  top,      \* of the stack when closure called the function
  stack,    \* of the running function
  tables,   \* tables[t]: its fields, and its metatable or 0
  saved,    \* tops kept by luaX_top_saver objects, the innermost last
  answer    \* what the last helper that returns a C++ value returned

luaVars == <<work, version, top, stack, tables, saved, answer>>

Top == Len(stack)
NoAnswer == [call |-> <<"none">>, result |-> <<"none", 0>>]
OutOfBounds == <<"error", "out of bounds">>
NotAnInteger == <<"error", "not an integer">>
Ok(n) == <<"value", n>>

-----------------------------------------------------------------------------
(* The Lua API on L, a stack and the tables *)

At(L, i) == L.stack[IF i < 0 THEN Len(L.stack) + 1 + i ELSE i]
Pushed(L, v) == [L EXCEPT !.stack = Append(@, v)]
pushvalue(L, i) == Pushed(L, At(L, i))
settop(L, n) == [L EXCEPT !.stack = SubSeq(@, 1, n)]
pop(L, n) == settop(L, Len(L.stack) - n)
settable(L, i) ==
  pop([L EXCEPT !.tables[At(L, i)[2]].fields[At(L, -2)[2]] = At(L, -1)], 2)
gettable(L, i) ==
  Pushed(pop(L, 1), L.tables[At(L, i)[2]].fields[At(L, -1)[2]])
setmetatable(L, i) == pop([L EXCEPT !.tables[At(L, i)[2]].meta = At(L, -1)[2]], 1)

\* a table that no field, metatable or stack slot refers to
Unused(L) ==
  {t \in Ids : /\ \A j \in DOMAIN L.stack : L.stack[j] # Table(t)
               /\ \A u \in Ids : /\ L.tables[u].meta # t
                                 /\ \A k \in Keys : L.tables[u].fields[k] # Table(t)}
newtable(L) ==
  LET t == CHOOSE u \in Unused(L) : TRUE
  IN Pushed([L EXCEPT !.tables[t] = [fields |-> [k \in Keys |-> Nil], meta |-> 0]], Table(t))

Lua == [stack |-> stack, tables |-> tables]
Becomes(L) == stack' = L.stack /\ tables' = L.tables

-----------------------------------------------------------------------------
(* Fields and metatables *)

luaX_abs_index(L, index) ==
  IF version = "5.1" THEN (IF index < 0 /\ Len(L.stack) >= -index
                           THEN Len(L.stack) + index + 1 ELSE index)
  ELSE IF index < 0 THEN Len(L.stack) + index + 1 ELSE index

\* a key is pushed as the string it is
Key(k) == Str(k)

luaX_set_field_top(L, i, k) ==
  LET index == luaX_abs_index(L, i)
  IN pop(settable(pushvalue(Pushed(L, Key(k)), -2), index), 1)

luaX_set_field(L, i, k, v) ==
  LET index == luaX_abs_index(L, i)
  IN settable(Pushed(Pushed(L, Key(k)), v), index)

luaX_get_field(L, i, k) ==
  LET index == luaX_abs_index(L, i) IN gettable(Pushed(L, Key(k)), index)

HasMeta(L, i) == L.tables[At(L, i)[2]].meta # 0
getmetatable(L, i) ==
  IF HasMeta(L, i) THEN Pushed(L, Table(L.tables[At(L, i)[2]].meta)) ELSE newtable(L)

luaX_set_metafield_top(L, i, k) ==
  LET index == luaX_abs_index(L, i)
      M == pushvalue(Pushed(getmetatable(L, index), Key(k)), -3)
  IN pop(setmetatable(settable(M, -3), index), 1)

luaX_set_metafield(L, i, k, v) ==
  LET index == luaX_abs_index(L, i)
  IN setmetatable(luaX_set_field(getmetatable(L, index), -1, k, v), index)

-----------------------------------------------------------------------------
(* Integers *)

Lowest(T) == IF T.signed THEN -T.max - 1 ELSE 0
Highest(T) == T.max

\* Mutant: a negative number is taken for a large unsigned one.
convert_negative(T, source, min, max) ==
  IF T.signed THEN min <= source /\ source <= max
  ELSE LET value == source % Modulus IN min <= value /\ value <= max

\* convert tests a signed type in intmax_t, an unsigned one in uintmax_t.
convert(T, source, min, max) ==
  IF T.signed THEN min <= source /\ source <= max
  ELSE /\ 0 <= source
       /\ LET value == source % Modulus IN min <= value /\ value <= max

\* luaL_checkinteger and lua_tointeger: 5.1 cuts a fraction off; 5.3 refuses
\* the first and makes the second 0.
Whole(v) == v[1] \in {"integer", "numeral"} \/ (v[1] = "float" /\ v[2] % 2 = 0)
Truncated(h) == IF h < 0 THEN -(-h \div 2) ELSE h \div 2
ToInteger(v) ==
  IF v[1] # "float" THEN v[2]
  ELSE IF Whole(v) \/ version = "5.1" THEN Truncated(v[2]) ELSE 0
Refused(v) == ~IsNumber(v) \/ (~Whole(v) /\ version = "5.3")

InRange(T, source, min, max) ==
  IF convert(T, source, min, max) THEN Ok(source) ELSE OutOfBounds

luaX_check_integer(v, T, min, max) ==
  IF Refused(v) THEN <<"error", "number expected">> ELSE InRange(T, ToInteger(v), min, max)

\* The default goes through lua_Integer, or intmax_t, as an argument would: a
\* larger unsigned one becomes negative.
AsLuaInteger(d) == IF d <= MaxInteger THEN d ELSE d - Modulus

luaX_opt_integer(v, T, d, min, max) ==
  IF v = Nil THEN InRange(T, AsLuaInteger(d), min, max) ELSE luaX_check_integer(v, T, min, max)

\* a field may be a fraction in 5.3 too: it is 0
luaX_check_integer_field(v, T, min, max) ==
  IF IsNumber(v) THEN InRange(T, ToInteger(v), min, max) ELSE NotAnInteger

luaX_opt_integer_field(v, T, d, min, max) ==
  IF v = Nil THEN InRange(T, AsLuaInteger(d), min, max) ELSE luaX_check_integer_field(v, T, min, max)

\* size_t wraps
luaX_opt_range_i(i, size) ==
  IF i < 0 THEN (IF i + size < 0 THEN 0 ELSE i + size)
  ELSE IF i > 0 THEN i - 1 ELSE i
luaX_opt_range_j(j, size) ==
  (IF j < 0 THEN j + size + 1 ELSE IF j > size THEN size ELSE j) % Modulus

\* The bytes that write and send take, by position from 1
impl_write(i, j, size) ==
  LET first == luaX_opt_range_i(i, size)
      last == luaX_opt_range_j(j, size)
  IN first + 1 .. IF last < first THEN first ELSE last

-----------------------------------------------------------------------------
(* Userdata *)

\* Each name's metatable is compared in turn.
luaX_to_udata(v, names) ==
  v[1] = "userdata" /\ \E n \in DOMAIN names : v[2] = names[n]

\* All but the last name with luaX_to_udata, the last with luaL_checkudata.
luaX_check_udata(v, names) ==
  LET first == SubSeq(names, 1, Len(names) - 1)
  IN IF luaX_to_udata(v, first) \/ v = Udata(Last(names)) THEN Ok(v[2])
     ELSE <<"error", Last(names)>>

-----------------------------------------------------------------------------
(* A function on a stack of scalars and tables *)

\* One table, which another one may refer to
StartWith(args, v) ==
  /\ version = v
  /\ stack = args /\ top = Len(args)
  /\ tables = [t \in Ids |-> [fields |-> [k \in Keys |-> Nil], meta |-> 0]]
  /\ saved = <<>> /\ answer = NoAnswer

Indices == (1 .. Top) \cup {-i : i \in 1 .. Top}
TableIndices == {i \in Indices : IsTable(At(Lua, i))}
Room(n) == Top + n <= MaxTop
Helper == UNCHANGED <<work, version, top, saved, answer>>

luaX_push(values) ==
  /\ Room(Len(values))
  /\ stack' = stack \o values
  /\ UNCHANGED tables /\ Helper

NewTable == Room(1) /\ Unused(Lua) # {} /\ Becomes(newtable(Lua)) /\ Helper

\* Slot 1 is the first argument, or what a function without arguments pushed.
luaX_push_success ==
  /\ Room(1)
  /\ Becomes(Pushed(Lua, IF stack # <<>> /\ IsTrue(stack[1]) THEN stack[1] ELSE Boolean(TRUE)))
  /\ Helper

\* Values below belong to the caller or to whoever saved the top.
Own == Top > IF saved = <<>> THEN top ELSE Last(saved)
SetFieldTop(i, k) == Own /\ Becomes(luaX_set_field_top(Lua, i, k)) /\ Helper
SetField(i, k, v) == Becomes(luaX_set_field(Lua, i, k, v)) /\ Helper
GetField(i, k) == Room(1) /\ Becomes(luaX_get_field(Lua, i, k)) /\ Helper

CanSetMeta(i) == HasMeta(Lua, i) \/ Unused(Lua) # {}
SetMetafieldTop(i, k) ==
  Own /\ CanSetMeta(i) /\ Becomes(luaX_set_metafield_top(Lua, i, k)) /\ Helper
SetMetafield(i, k, v) == CanSetMeta(i) /\ Becomes(luaX_set_metafield(Lua, i, k, v)) /\ Helper

\* luaX_top_saver: constructor and destructor
SaveTop ==
  /\ Len(saved) < 1
  /\ saved' = Append(saved, Top)
  /\ UNCHANGED <<work, version, top, stack, tables, answer>>
RestoreTop ==
  /\ saved # <<>>
  /\ Becomes(settop(Lua, Last(saved)))
  /\ saved' = Front(saved)
  /\ UNCHANGED <<work, version, top, answer>>

\* What the caller gets becomes the arguments of the next function.
Results(values) ==
  /\ stack' = values /\ top' = Len(values)
  /\ saved' = <<>>
  /\ UNCHANGED <<work, version, tables, answer>>

\* closure returns the last n values of the stack; of a function without
\* result those above the arguments.
LastOf(L, n) == SubSeq(L.stack, Len(L.stack) - n + 1, Len(L.stack))
Return == saved = <<>> /\ Results(LastOf(Lua, Top - top))

\* luaX_failure, luaX_failure<int> and any other exception, which is a Lua
\* error; the destructor of a luaX_top_saver has run before the handler.
Failures == {<<Nil, Str("what")>>, <<Nil, Str("what"), Integer(1)>>, <<Str("what")>>}
Pushes(L, what) == [L EXCEPT !.stack = @ \o what]
Throw == \E what \in Failures :
           Results(LastOf(Pushes(settop(Lua, top), what), Len(what)))

-----------------------------------------------------------------------------
(* A function that reads its first argument, with the bounds of the type   *)
(* or narrower ones                                                        *)

Bounds(T) == {<<Lowest(T), Highest(T)>>, <<0, Highest(T) - 1>>}
Reads(call, result) ==
  /\ answer = NoAnswer
  /\ answer' = [call |-> call, result |-> result]
  /\ UNCHANGED <<work, version, top, stack, tables, saved>>

Check(T, b) == Reads(<<"check", b>>, luaX_check_integer(stack[1], T, b[1], b[2]))
Opt(T, d, b) == Reads(<<"opt", b, d>>, luaX_opt_integer(stack[1], T, d, b[1], b[2]))
CheckField(T, b) == Reads(<<"check", b>>, luaX_check_integer_field(stack[1], T, b[1], b[2]))
OptField(T, d, b) ==
  Reads(<<"opt", b, d>>, luaX_opt_integer_field(stack[1], T, d, b[1], b[2]))
CheckUdata(names) == Reads(<<"udata", names>>, luaX_check_udata(stack[1], names))
Write(i, j, size) == Reads(<<"bytes", i, j, size>>, impl_write(i, j, size))

ReadNext ==
  \/ \E T \in Types : \E b \in Bounds(T) :
       \/ Check(T, b) \/ CheckField(T, b)
       \/ \E d \in {b[1], b[2]} : Opt(T, d, b) \/ OptField(T, d, b)
  \/ \E names \in NameLists : CheckUdata(names)
  \/ /\ stack[1] = Nil
     /\ \E size \in Sizes, i, j \in Integers : Write(i, j, size)
  \/ answer # NoAnswer /\ answer' = NoAnswer /\ UNCHANGED <<work, version, top, stack, tables, saved>>

StackNext ==
  \/ \E v \in Scalars : luaX_push(<<v>>)
  \/ NewTable \/ luaX_push_success \/ SaveTop \/ RestoreTop \/ Return \/ Throw
  \/ \E i \in TableIndices, k \in Keys :
       \/ SetFieldTop(i, k) \/ GetField(i, k) \/ SetMetafieldTop(i, k)
       \/ \E v \in Scalars : SetField(i, k, v) \/ SetMetafield(i, k, v)

LuaStart ==
  \E v \in {"5.1", "5.3"} :
    \/ work = "tables" /\ \E a \in Scalars : StartWith(<<a, Table(CHOOSE t \in Ids : TRUE)>>, v)
    \/ work = "argument" /\ \E a \in Arguments : StartWith(<<a>>, v)
LuaNext == \/ work = "tables" /\ StackNext
           \/ work = "argument" /\ ReadNext
LuaSpec == LuaStart /\ [][LuaNext]_luaVars

-----------------------------------------------------------------------------
(* What the helpers promise, without a stack discipline or a width         *)

TableAt(i) == At(Lua, i)[2]
OnlyField(t, k, v) == tables' = [tables EXCEPT ![t].fields[k] = v]
\* in the metatable t has, or in a new one that nothing else refers to
OnlyMetafield(t, k, v) ==
  LET m == tables'[t].meta
      old == IF tables[t].meta = 0 THEN [fields |-> [j \in Keys |-> Nil], meta |-> 0]
             ELSE tables[m]
  IN /\ m # t /\ IF tables[t].meta = 0 THEN m \in Unused(Lua) ELSE m = tables[t].meta
     /\ tables' = [tables EXCEPT ![t].meta = m, ![m] = [old EXCEPT !.fields[k] = v]]

\* The field of the table that the index meant when the helper was called
FieldsPromise ==
  \A i \in TableIndices, k \in Keys :
    /\ SetFieldTop(i, k) => stack' = Front(stack) /\ OnlyField(TableAt(i), k, Last(stack))
    /\ GetField(i, k) => stack' = Append(stack, tables[TableAt(i)].fields[k]) /\ UNCHANGED tables
    /\ SetMetafieldTop(i, k) => stack' = Front(stack) /\ OnlyMetafield(TableAt(i), k, Last(stack))
    /\ \A v \in Scalars :
         /\ SetField(i, k, v) => UNCHANGED stack /\ OnlyField(TableAt(i), k, v)
         /\ SetMetafield(i, k, v) => UNCHANGED stack /\ OnlyMetafield(TableAt(i), k, v)

\* The stack up to the saved top, or the arguments, outlives any helper, so that
\* a restored stack is the one that was saved; a function that succeeds
\* returns all it pushed, one that fails the failure and nothing else.
StackPromise ==
  /\ \/ LET n == IF saved = <<>> THEN top ELSE Last(saved)
        IN Len(stack') >= n /\ \A j \in 1 .. n : stack'[j] = stack[j]
     \/ Return \/ Throw
  /\ RestoreTop => Len(stack') = Last(saved)
  /\ luaX_push_success => Front(stack') = stack /\ IsTrue(Last(stack')) /\ UNCHANGED tables
  /\ Return => stack' = SubSeq(stack, top + 1, Top)
  /\ Throw => stack' \in Failures

Called(what) == answer # NoAnswer /\ answer.call[1] = what

\* The number that was given or an error; fractions are another matter, and
\* so are defaults that no lua_Integer holds, which are refused.
Exactly(v, b) ==
  IF ~IsNumber(v) THEN answer.result[1] = "error"
  ELSE Whole(v) => LET n == IF v[1] = "float" THEN v[2] \div 2 ELSE v[2]
                   IN answer.result = IF b[1] <= n /\ n <= b[2] THEN Ok(n) ELSE OutOfBounds
IntegersPromise ==
  /\ Called("check") => Exactly(stack[1], answer.call[2])
  /\ Called("opt") =>
       LET d == answer.call[3]
       IN IF stack[1] = Nil THEN answer.result = IF d <= MaxInteger THEN Ok(d) ELSE OutOfBounds
          ELSE Exactly(stack[1], answer.call[2])

UdataPromise ==
  Called("udata") =>
    LET names == answer.call[2]
    IN answer.result = IF stack[1] \in {Udata(n) : n \in Range(names)} THEN Ok(stack[1][2])
                       ELSE <<"error", Last(names)>>

\* The bytes that string.sub(s, i, j) would give
RangePromise ==
  Called("bytes") =>
    LET i == answer.call[2]
        j == answer.call[3]
        size == answer.call[4]
    IN j >= -size - 1 =>
         answer.result = {p \in 1 .. size : /\ p >= IF i < 0 THEN size + i + 1 ELSE i
                                            /\ p <= IF j < 0 THEN size + j + 1 ELSE j}

(* Every helper of luaX.hpp does to the stack, the tables and a number what *)
(* its name says, whatever sign its index has, however many values it       *)
(* pushes on the way and whatever type it converts to.                      *)
HelpersKeepPromises ==
  [][FieldsPromise /\ StackPromise /\ IntegersPromise /\ UdataPromise /\ RangePromise]_luaVars
=============================================================================
