----------------------------- MODULE AthValues -----------------------------
(* Values, operators and built-in rites of !~ATH (personal/ath/tildeath.js).  *)
(* A value is a record of its type and its contents: an integer, a sequence   *)
(* (of characters or of values), or a function from keys. Numbers are the     *)
(* integers; the text of a value that is not a string is one character, the   *)
(* value itself.                                                              *)
EXTENDS Integers, Sequences, SequencesExt, FiniteSetsExt

CONSTANT Width   \* bits of a bitwise operand, 32 in the code
ASSUME WidthAssumption == Width \in 2 .. 32

Void    == [t |-> "VOID", v |-> 0]
Bool(b) == [t |-> "BOOLEAN", v |-> IF b THEN 1 ELSE 0]
Num(n)  == [t |-> "INTEGER", v |-> n]
Str(s)  == [t |-> "STRING", v |-> s]
Arr(s)  == [t |-> "ARRAY", v |-> s]
Map(f)  == [t |-> "MAP", v |-> f]
Error   == [t |-> "ERROR", v |-> 0]       \* a RuntimeError was thrown
IsError(x) == x.t = "ERROR"

stringify(x) == IF x.t = "STRING" THEN x.v ELSE <<x>>

isTruthy(x) ==
    CASE x.t = "VOID"                   -> FALSE
      [] x.t \in {"BOOLEAN", "INTEGER"} -> x.v # 0
      [] x.t \in {"STRING", "ARRAY"}    -> x.v # <<>>
      [] x.t = "MAP"                    -> DOMAIN x.v # {}
      [] OTHER                          -> TRUE

------------------------------------------------------------------------------
(* Operators *)

Sign(n)      == IF n < 0 THEN -1 ELSE 1
Magnitude(n) == IF n < 0 THEN -n ELSE n
\* Math.trunc(a / b), and the remainder that has the sign of a.
Quotient(a, b)  == Sign(a) * Sign(b) * (Magnitude(a) \div Magnitude(b))
Remainder(a, b) == Sign(a) * (Magnitude(a) % Magnitude(b))

\* The bitwise operators see two's complement of Width bits.
Wrap(n) == LET m == n % 2 ^ Width IN IF m >= 2 ^ (Width - 1) THEN m - 2 ^ Width ELSE m
Bits(n) == {k \in 0 .. Width - 1 : ((n % 2 ^ Width) \div 2 ^ k) % 2 = 1}
OfBits(S) == Wrap(MapThenSumSet(LAMBDA k : 2 ^ k, S))

Arithmetic(op, a, b) ==
    CASE op = "+"  -> Num(a + b)
      [] op = "-"  -> Num(a - b)
      [] op = "*"  -> Num(a * b)
      [] op = "/"  -> IF b = 0 THEN Error ELSE Num(Quotient(a, b))
      [] op = "%"  -> IF b = 0 THEN Error ELSE Num(Remainder(a, b))
      [] op = "&"  -> Num(OfBits(Bits(a) \cap Bits(b)))
      [] op = "|"  -> Num(OfBits(Bits(a) \cup Bits(b)))
      [] op = "^"  -> Num(OfBits(SymDiff(Bits(a), Bits(b))))
      [] op = "<<" -> Num(Wrap(a * 2 ^ (b % Width)))
      [] op = ">>" -> Num(Wrap(a) \div 2 ^ (b % Width))

Order == {"<", ">", "<=", ">="}
\* Void and booleans are compared as 0 and 1; the order of texts is left out.
Compare(op, a, b) ==
    CASE op = "<" -> a < b [] op = ">" -> a > b [] op = "<=" -> a <= b [] op = ">=" -> a >= b

\* Collections are compared by identity, which a value does not show: no
\* modelled program compares them.
Same(a, b) == a.t = b.t /\ a.v = b.v

Binary(op, a, b) ==
    CASE op = "==" -> Bool(Same(a, b))
      [] op = "!=" -> Bool(~Same(a, b))
      [] op \in Order -> Bool(Compare(op, a.v, b.v))
      [] op = "+" /\ "STRING" \in {a.t, b.t} -> Str(stringify(a) \o stringify(b))
      [] OTHER -> IF a.t = "INTEGER" /\ b.t = "INTEGER" THEN Arithmetic(op, a.v, b.v) ELSE Error

Unary(op, a) ==
    CASE op = "NOT" -> Bool(~isTruthy(a))
      [] op # "NOT" /\ a.t # "INTEGER" -> Error
      [] op = "-"   /\ a.t = "INTEGER" -> Num(-a.v)
      [] op = "~"   /\ a.t = "INTEGER" -> Num(OfBits((0 .. Width - 1) \ Bits(a.v)))

------------------------------------------------------------------------------
(* Built-in rites, applied to arguments of the right types; every other       *)
(* argument throws.                                                           *)

\* Array.prototype.slice: a negative index counts from the end.
Offset(n, i) == IF i < 0 THEN Max({n + i, 0}) ELSE Min({i, n})
Slice(s, start, end) == SubSeq(s, Offset(Len(s), start) + 1, Offset(Len(s), end))

\* The first place where d stands in s, 0 if none.
FirstAt(s, d) ==
    LET at == {i \in 1 .. Len(s) + 1 - Len(d) : SubSeq(s, i, i + Len(d) - 1) = d}
    IN  IF at = {} THEN 0 ELSE Min(at)

\* The parts of s between the places where d stands.
Split(s, d) ==
    LET from[p \in 1 .. Len(s) + 1] ==
            LET rest == SubSeq(s, p, Len(s))
                i    == FirstAt(rest, d)
            IN  IF i = 0 THEN <<rest>> ELSE <<SubSeq(rest, 1, i - 1)>> \o from[p + i - 1 + Len(d)]
    IN  IF d = <<>> THEN [i \in 1 .. Len(s) |-> <<s[i]>>] ELSE from[1]

Join(parts, d) ==
    FlattenSeq([i \in 1 .. Len(parts) |-> IF i = 1 THEN parts[i] ELSE d \o parts[i]])

Set(m, key, value) == [k \in DOMAIN m \cup {key} |-> IF k = key THEN value ELSE m[k]]
Delete(m, key)     == [k \in DOMAIN m \ {key} |-> m[k]]

ArrayRite(name, args) ==
    LET a == args[1].v IN
    CASE name = "LENGTH"  -> Num(Len(a))
      [] name = "APPEND"  -> Arr(Append(a, args[2]))
      [] name = "PREPEND" -> Arr(<<args[2]>> \o a)
      [] name = "SLICE"   -> Arr(Slice(a, args[2].v, args[3].v))
      [] name = "FIRST"   -> IF a = <<>> THEN Error ELSE a[1]
      [] name = "LAST"    -> IF a = <<>> THEN Error ELSE a[Len(a)]
      [] name = "CONCAT"  -> Arr(a \o args[2].v)
      [] name = "JOIN"    -> Str(Join([i \in 1 .. Len(a) |-> stringify(a[i])], args[2].v))

StringRite(name, args) ==
    LET s == args[1].v IN
    CASE name = "LENGTH"    -> Num(Len(s))
      [] name = "SPLIT"     -> Arr([i \in 1 .. Len(Split(s, args[2].v)) |-> Str(Split(s, args[2].v)[i])])
      [] name = "SUBSTRING" -> Str(Slice(s, args[2].v, args[3].v))
      [] name = "REPLACE"   -> Str(Join(Split(s, args[2].v), args[3].v))

MapRite(name, args) ==
    LET m == args[1].v IN
    CASE name = "HAS"    -> Bool(args[2].v \in DOMAIN m)
      [] name = "SET"    -> Map(Set(m, args[2].v, args[3]))
      [] name = "DELETE" -> Map(Delete(m, args[2].v))

AnyRite(name, args) ==
    CASE name = "TYPEOF" -> Str(<<args[1].t>>)
      [] name = "STRING" -> Str(stringify(args[1]))
      [] name = "UTTER"  -> Void

Rites == [ ARRAY  |-> {"LENGTH", "APPEND", "PREPEND", "SLICE", "FIRST", "LAST", "CONCAT", "JOIN"},
           STRING |-> {"LENGTH", "SPLIT", "SUBSTRING", "REPLACE"},
           MAP    |-> {"HAS", "SET", "DELETE"},
           any    |-> {"TYPEOF", "STRING", "UTTER"} ]
Builtins == UNION {Rites[k] : k \in DOMAIN Rites}

CallBuiltin(name, args) ==
    LET takes(k) == name \in Rites[k] /\ args # <<>> /\ args[1].t = k IN
    CASE name \in Rites.any -> AnyRite(name, args)
      [] takes("ARRAY")     -> ArrayRite(name, args)
      [] takes("STRING")    -> StringRite(name, args)
      [] takes("MAP")       -> MapRite(name, args)
      [] OTHER              -> Error

\* arr[i], text[i] and map[key]: out of bounds and unknown keys throw.
Index(obj, i) ==
    CASE obj.t = "ARRAY"  -> IF i.t = "INTEGER" /\ i.v \in 0 .. Len(obj.v) - 1 THEN obj.v[i.v + 1] ELSE Error
      [] obj.t = "STRING" -> IF i.t = "INTEGER" /\ i.v \in 0 .. Len(obj.v) - 1 THEN Str(<<obj.v[i.v + 1]>>) ELSE Error
      [] obj.t = "MAP"    -> IF stringify(i) \in DOMAIN obj.v THEN obj.v[stringify(i)] ELSE Error
      [] OTHER            -> Error
=============================================================================
