------------------------------ MODULE PyValues ------------------------------
(***************************************************************************)
(* The address and network types of src/python/_libcidr_ext.c: their       *)
(* constructors, attributes and methods, as a Python program calls them    *)
(* one after the other on the texts of TextCalls and on the objects these  *)
(* calls return.  Objects never change, so the program holds two of them.  *)
(*                                                                         *)
(* A result is a value or the exception that was set.  Allocation failures *)
(* (MemoryError) are left out here; PyBulk and PyPrefixIndex have them.    *)
(***************************************************************************)
EXTENDS TextCalls

CONSTANTS
  Lengths,   \* ints given as a prefix length
  LONG_MAX   \* stands for the largest C long

ASSUME PyAssumption == /\ Lengths \subseteq Int
                       /\ LONG_MAX \in Nat
                       /\ LONG_MAX >= 255

VARIABLES
  obj,       \* the object at hand
  other,     \* one it had before
  answer     \* what the last question returned, and the objects it was about

pyVars == <<obj, other, answer>>
vars == <<callVars, pyVars>>

None == [type |-> "None"]
AddressTypes == {"IPv4Address", "IPv6Address"}
NetworkTypes == {"IPv4Network", "IPv6Network"}

AddressType(family) == IF family = "INET" THEN "IPv4Address" ELSE "IPv6Address"
NetworkType(family) == IF family = "INET" THEN "IPv4Network" ELSE "IPv6Network"

\* binding_addr_to_pyobj, binding_prefix_to_pyobj: the type follows the family.
AddressOf(a) == [type |-> AddressType(a.family), addr |-> a]
NetworkOf(p) == [type |-> NetworkType(p.addr.family), prefix |-> p]

----------------------------------------------------------------------------
(* Arguments and results.                                                  *)

Str(t) == [kind |-> "str", of |-> t]
Bytes(b) == [kind |-> "bytes", of |-> b]
Number(neg, digits) == [kind |-> "int", of |-> [neg |-> neg, digits |-> digits]]
Tuple(host, n) == [kind |-> "tuple", of |-> [host |-> host, pfxlen |-> n]]
Object(o) == [kind |-> "object", of |-> o]

Returned(v) == [exc |-> "none", val |-> v]
Raised(e) == [exc |-> e, val |-> None]
Succeeds(r) == r.exc = "none"

\* cidr_set_python_error; CIDR_ERR_NOMEM does not occur here.
ErrorOf(rc) ==
  CASE rc = "INVAL" -> "InvalidArgumentError"
    [] rc = "PARSE" -> "ParseError"
    [] rc = "HOSTBITS" -> "HostBitsError"
    [] rc = "PFXLEN" -> "PrefixLengthError"
    [] rc = "FAMILY" -> "FamilyError"
    [] rc = "OVERFLOW" -> "AddressOverflowError"

\* PyBytes_AsString of the encoded str: the C functions see it up to a nul.
CString(t) == IF LastPos(t, "nul") = 0 THEN t
              ELSE Before(t, SelectInSeq(t, LAMBDA x : x.c = "nul"))
Encodable(t) == LastPos(t, "sur") = 0

----------------------------------------------------------------------------
(* Addresses.                                                              *)

OfFamily(a, expected) ==
  IF a.family = expected THEN Returned(a) ELSE Raised("FamilyError")

\* binding_string_to_addr
StringToAddr(t, expected) ==
  LET Result(r) == IF r.rc # "OK" THEN Raised(ErrorOf(r.rc)) ELSE OfFamily(r.out, expected)
  IN  IF ~Encodable(t) THEN Raised("UnicodeEncodeError")
      ELSE Result(AddrParse(CString(t), NoAddr))

\* binding_bytes_to_addr
BytesToAddr(b, expected) ==
  IF DOMAIN b # BytesOf(expected) THEN Raised("InvalidArgumentError")
  ELSE Returned([family |-> expected, bytes |-> b])

\* binding_int_to_addr: to_bytes of a non-negative int, big end first.
IntToAddr(int, expected) ==
  LET width == Cardinality(BytesOf(expected))
      pad   == width - Len(int.digits)
  IN  IF int.neg \/ pad < 0 THEN Raised("InvalidArgumentError")
      ELSE Returned([family |-> expected,
                     bytes  |-> [k \in BytesOf(expected) |->
                                   IF k < pad THEN 0 ELSE int.digits[k - pad + 1]]])

\* binding_ipaddress_to_addr: any object with a bytes attribute packed, as the
\* addresses of the ipaddress module and of this one have.
IpaddressToAddr(o, expected) ==
  IF o.type \notin AddressTypes THEN Raised("TypeError")
  ELSE IF DOMAIN o.addr.bytes # BytesOf(expected) THEN Raised("FamilyError")
  ELSE Returned([family |-> expected, bytes |-> o.addr.bytes])

\* ipv4address_new and ipv6address_new
AddressNew(arg, expected) ==
  LET r == CASE arg.kind = "str" -> StringToAddr(arg.of, expected)
             [] arg.kind = "bytes" -> BytesToAddr(arg.of, expected)
             [] arg.kind = "int" -> IntToAddr(arg.of, expected)
             [] arg.kind = "object" -> IpaddressToAddr(arg.of, expected)
             [] arg.kind = "tuple" -> Raised("TypeError")
  IN  IF ~Succeeds(r) THEN r
      ELSE Returned([type |-> AddressType(expected), addr |-> r.val])

\* __str__, compressed, and the text inside __repr__
Compressed(o) == AddrFormat(o.addr).text

\* exploded: all eight groups with four digits; IPv4 has no other form.
Exploded(o) ==
  IF o.type = "IPv4Address" THEN Compressed(o)
  ELSE [p \in 1 .. 15 |-> IF p % 2 = 1 THEN Hex(Group(o.addr.bytes, p \div 2), 4) ELSE Char(":")]

\* classify, and the is_ attributes; IPv4 is_unspecified is always False.
Classes(o) == AddrClassify(o.addr, {}).out
FlagOf == [is_global |-> "GLOBAL", is_private |-> "PRIVATE", is_loopback |-> "LOOPBACK",
           is_multicast |-> "MULTICAST", is_link_local |-> "LINK_LOCAL",
           is_unspecified |-> "UNSPECIFIED"]
Is(o, attribute) == /\ FlagOf[attribute] \in Classes(o)
                    /\ o.type = "IPv4Address" => attribute # "is_unspecified"

\* to_ipv4: None for an address that is not mapped.
ToIPv4(o) ==
  LET r == AddrToV4(o.addr, NoAddr)
  IN  IF r.rc = "FAMILY" THEN Returned(None)
      ELSE IF r.rc # "OK" THEN Raised(ErrorOf(r.rc))
      ELSE AddressNew(Bytes(r.out.bytes), "INET")

----------------------------------------------------------------------------
(* Networks.                                                               *)

\* strtol on the text after the slash, -1 unless all of it is read: spaces and
\* one sign may come first, and nothing at all is 0.
Strtol(t) ==
  LET n    == Len(t)
      sign == n > 1 /\ t[n - 1].c \in {"+", "-"}
  IN  IF n = 0 THEN 0
      ELSE IF ~IsDecimal(t[n]) \/ \E p \in 1 .. n - 1 :
                                     t[p].c # " " /\ ~(sign /\ p = n - 1) THEN -1
      ELSE IF IsChar(t, n - 1, "-") /\ DecValue(t[n]) > 0 THEN -1
      ELSE DecValue(t[n])

\* Mutant: the family of the text is not compared.
LooseParseAnyFamily(t, expected) ==
  LET slash == LastPos(t, "/")
      host  == Before(t, slash)
      Result(a, n) ==
        IF a.rc # "OK" THEN Raised(ErrorOf(a.rc))
        ELSE IF n = -1 \/ n > MaxLen(expected) THEN Raised("PrefixLengthError")
        ELSE Returned(FromHost(a.out, n, NoPrefix).out)
  IN  IF slash = 0 \/ Width(host) >= CIDR_ADDR_STR_MAX THEN Raised("ParseError")
      ELSE Result(AddrParse(host, NoAddr), Strtol(After(t, slash)))

\* binding_parse_cidr_string with strict=False: host bits are cleared.
LooseParse(t, expected) ==
  LET slash == LastPos(t, "/")
      host  == Before(t, slash)
      Result(a, n) ==
        IF a.rc # "OK" THEN Raised(ErrorOf(a.rc))
        ELSE IF a.out.family # expected THEN Raised("FamilyError")
        ELSE IF n = -1 \/ n > MaxLen(expected) THEN Raised("PrefixLengthError")
        ELSE Returned(FromHost(a.out, n, NoPrefix).out)
  IN  IF slash = 0 \/ Width(host) >= CIDR_ADDR_STR_MAX THEN Raised("ParseError")
      ELSE Result(AddrParse(host, NoAddr), Strtol(After(t, slash)))

\* binding_parse_cidr_string with strict=True.
StrictParse(t, expected) ==
  LET Result(r) == IF r.rc # "OK" THEN Raised(ErrorOf(r.rc))
                   ELSE IF r.out.addr.family # expected THEN Raised("FamilyError")
                   ELSE Returned(r.out)
  IN  Result(PrefixParse(t, NoPrefix))

\* binding_tuple_to_prefix
TupleToPrefix(tuple, expected, strict) ==
  LET host == tuple.host
      n    == tuple.pfxlen
      Result(a) ==
        LET net == FromHost(a.val, n, NoPrefix).out
        IN  IF ~Succeeds(a) THEN a
            ELSE IF n > LONG_MAX \/ n < -LONG_MAX THEN Raised("OverflowError")
            ELSE IF n < 0 \/ n > MaxLen(expected) THEN Raised("PrefixLengthError")
            ELSE IF strict /\ net.addr # a.val THEN Raised("HostBitsError")
            ELSE Returned(net)
  IN  Result(CASE host.kind = "str" -> StringToAddr(host.of, expected)
               [] host.kind = "object" /\ host.of.type \in AddressTypes ->
                    OfFamily(host.of.addr, expected)
               [] OTHER -> Raised("TypeError"))

\* prefix_extract_ipaddress: the bytes of network_address and prefixlen as they
\* are.  The networks of the ipaddress module and of this one have both.
ExtractNetwork(o, expected) ==
  IF o.type \notin NetworkTypes THEN Raised("TypeError")
  ELSE IF DOMAIN o.prefix.addr.bytes # BytesOf(expected) THEN Raised("FamilyError")
  ELSE Returned([addr   |-> [family |-> expected, bytes |-> o.prefix.addr.bytes],
                 pfxlen |-> o.prefix.pfxlen % 256])

\* network_construct_impl
ConstructNetwork(arg, expected, strict) ==
  CASE arg.kind = "str" ->
         IF ~Encodable(arg.of) THEN Raised("UnicodeEncodeError")
         ELSE IF strict THEN StrictParse(CString(arg.of), expected)
         ELSE LooseParse(CString(arg.of), expected)
    [] arg.kind = "tuple" -> TupleToPrefix(arg.of, expected, strict)
    [] arg.kind = "object" -> ExtractNetwork(arg.of, expected)
    [] OTHER -> Raised("TypeError")

\* ipv4network_new and ipv6network_new
NetworkNew(arg, expected, strict) ==
  LET Wrapped(r) == IF ~Succeeds(r) THEN r
                    ELSE Returned([type |-> NetworkType(expected), prefix |-> r.val])
  IN  Wrapped(ConstructNetwork(arg, expected, strict))

\* __str__, with_prefixlen, and the text inside __repr__
WithPrefixlen(o) == PrefixFormat(o.prefix).text

NetworkAddress(o) == Returned(AddressOf(FirstOf(o.prefix)))
Netmask(o) == Returned(AddressOf(MaskOf(o.prefix)))
BroadcastAddress(o) ==
  IF o.type = "IPv6Network" THEN Raised("FamilyError")
  ELSE Returned(AddressOf(LastOf(o.prefix)))
SupernetOf(o) ==
  LET r == Supernet(o.prefix, NoPrefix)
  IN  IF r.rc # "OK" THEN Raised(ErrorOf(r.rc)) ELSE Returned(NetworkOf(r.out))

\* network_contains_impl, behind contains() and the in operator
ContainsObject(o, arg) ==
  LET expected == o.prefix.addr.family
      a == CASE arg.kind = "object" /\ arg.of.type \in AddressTypes ->
                  OfFamily(arg.of.addr, expected)
             [] arg.kind = "str" -> StringToAddr(arg.of, expected)
             [] OTHER -> Raised("TypeError")
  IN  IF ~Succeeds(a) THEN a ELSE Returned(ContainsAddr(o.prefix, a.val))

\* overlaps
OverlapsObject(o, q) ==
  IF q.type \notin NetworkTypes THEN Raised("TypeError")
  ELSE IF q.type # o.type THEN Raised("FamilyError")
  ELSE Returned(OverlapsNet(o.prefix, q.prefix))

\* Not the sign of a comparison.
NotImplemented == 2

\* Mutant: networks are compared by their addresses alone.
CmpByAddress(o, q) ==
  IF ~({o.type, q.type} \subseteq AddressTypes \/ {o.type, q.type} \subseteq NetworkTypes)
    THEN Returned(NotImplemented)
  ELSE IF o.type # q.type THEN Raised("FamilyError")
  ELSE Returned(CASE o.type = "IPv4Address" -> V4!AddrCmp(o.addr.bytes, q.addr.bytes)
                  [] o.type = "IPv6Address" -> V6!AddrCmp(o.addr.bytes, q.addr.bytes)
                  [] o.type = "IPv4Network" -> V4!AddrCmp(o.prefix.addr.bytes, q.prefix.addr.bytes)
                  [] o.type = "IPv6Network" -> V6!AddrCmp(o.prefix.addr.bytes, q.prefix.addr.bytes))

\* The sign that decides a comparison; NotImplemented for an object of another
\* kind, and an exception for the other family, even for == and !=.
Cmp(o, q) ==
  IF ~({o.type, q.type} \subseteq AddressTypes \/ {o.type, q.type} \subseteq NetworkTypes)
    THEN Returned(NotImplemented)
  ELSE IF o.type # q.type THEN Raised("FamilyError")
  ELSE Returned(CASE o.type = "IPv4Address" -> V4!AddrCmp(o.addr.bytes, q.addr.bytes)
                  [] o.type = "IPv6Address" -> V6!AddrCmp(o.addr.bytes, q.addr.bytes)
                  [] o.type = "IPv4Network" -> V4!PrefixCmp(Raw(o.prefix), Raw(q.prefix))
                  [] o.type = "IPv6Network" -> V6!PrefixCmp(Raw(o.prefix), Raw(q.prefix)))

----------------------------------------------------------------------------
(* The program.                                                            *)

NoAnswer == [about |-> "nothing", val |-> FALSE]

Init == /\ CInit
        /\ obj = None
        /\ other = None
        /\ answer = NoAnswer

\* An object is made: r is what the call returns.  After an exception the
\* program still has the object it had.
Make(call, r) ==
  /\ Called(call, r.exc, text)
  /\ obj' = IF Succeeds(r) THEN r.val ELSE obj
  /\ other' = IF Succeeds(r) THEN obj ELSE other
  /\ answer' = NoAnswer
  /\ UNCHANGED <<cVars, batchVars>>

\* An int in base 256, without leading zeros.
Digits(bytes) == LET n     == Cardinality(DOMAIN bytes)
                     first == CHOOSE k \in 0 .. n : /\ \A j \in 0 .. k - 1 : bytes[j] = 0
                                                    /\ k < n => bytes[k] # 0
                 IN  [i \in 1 .. n - first |-> bytes[first + i - 1]]

\* IPv4Address(arg), IPv6Address(arg)
MakeAddress ==
  \E family \in {"INET", "INET6"} :
    \/ Make("address", AddressNew(Str(text), family))
    \/ Make("address", AddressNew(Object(obj), family))
    \/ /\ obj.type \in AddressTypes
       /\ \/ Make("address", AddressNew(Bytes(obj.addr.bytes), family))
          \/ \E neg \in BOOLEAN :
               Make("address", AddressNew(Number(neg, Digits(obj.addr.bytes)), family))

\* IPv4Network(arg, strict), IPv6Network(arg, strict)
MakeNetwork ==
  \E family \in {"INET", "INET6"}, strict \in BOOLEAN :
    \/ Make("network", NetworkNew(Str(text), family, strict))
    \/ Make("network", NetworkNew(Object(obj), family, strict))
    \/ \E n \in Lengths :
         \/ Make("network", NetworkNew(Tuple(Str(text), n), family, strict))
         \/ Make("network", NetworkNew(Tuple(Object(obj), n), family, strict))

\* Attributes and methods that return another object.
Derive == \/ obj.type = "IPv6Address" /\ Make("to_ipv4", ToIPv4(obj))
          \/ obj.type \in NetworkTypes /\ Make("network_address", NetworkAddress(obj))
          \/ obj.type \in NetworkTypes /\ Make("broadcast_address", BroadcastAddress(obj))
          \/ obj.type \in NetworkTypes /\ Make("netmask", Netmask(obj))
          \/ obj.type \in NetworkTypes /\ Make("supernet", SupernetOf(obj))

\* The text of an object becomes the text at hand.
Show == /\ \/ obj.type \in AddressTypes /\ Called("str", "none", Compressed(obj))
           \/ obj.type \in AddressTypes /\ Called("exploded", "none", Exploded(obj))
           \/ obj.type \in NetworkTypes /\ Called("str", "none", WithPrefixlen(obj))
        /\ answer' = NoAnswer
        /\ UNCHANGED <<obj, other, cVars, batchVars>>

\* A question about the object at hand.
Question(about, r) ==
  /\ Called("question", r.exc, text)
  /\ answer' = IF Succeeds(r) THEN [about |-> about, val |-> r.val] ELSE NoAnswer
  /\ UNCHANGED <<obj, other, cVars, batchVars>>

Ask == \/ /\ obj.type \in AddressTypes
          /\ \/ \E attribute \in DOMAIN FlagOf :
                  Question(attribute, Returned(Is(obj, attribute)))
             \/ Question("classify", Returned(Classes(obj)))
       \/ /\ obj.type \in NetworkTypes
          /\ \/ Question("contains", ContainsObject(obj, Object(other)))
             \/ Question("overlaps", OverlapsObject(obj, other))
       \/ /\ obj # None
          /\ Question("cmp", Cmp(obj, other))

PyNext == \/ Edit /\ UNCHANGED pyVars
          \/ NextText /\ UNCHANGED pyVars
          \/ MakeAddress
          \/ MakeNetwork
          \/ Derive
          \/ Show
          \/ Ask

Next == \/ CNext /\ UNCHANGED pyVars
        \/ caller = "python" /\ PyNext

Spec == Init /\ [][Next]_vars

----------------------------------------------------------------------------
FamilyOf(o) == IF o.type \in AddressTypes THEN o.addr.family ELSE o.prefix.addr.family

\* An object of one of the four types is an address or a network of its family.
WellFormed(o) ==
  /\ o.type \in AddressTypes => /\ o.type = AddressType(o.addr.family)
                                /\ DOMAIN o.addr.bytes = BytesOf(o.addr.family)
  /\ o.type \in NetworkTypes => /\ o.type = NetworkType(o.prefix.addr.family)
                                /\ IsNetwork(o.prefix)

\* The constructor makes the same object again from each text of it.
Reconstructs(o) ==
  /\ o.type \in AddressTypes =>
       \A t \in {Compressed(o), Exploded(o)} : AddressNew(Str(t), FamilyOf(o)) = Returned(o)
  /\ o.type \in NetworkTypes =>
       NetworkNew(Str(WithPrefixlen(o)), FamilyOf(o), TRUE) = Returned(o)

Less(a, b) == IF a.family = "INET" THEN V4!AddrLess(a.bytes, b.bytes)
              ELSE V6!AddrLess(a.bytes, b.bytes)
InSpan(p, a) == ~Less(a, FirstOf(p)) /\ ~Less(LastOf(p), a)
WithinSpan(p, q) == InSpan(p, FirstOf(q)) /\ InSpan(p, LastOf(q))

\* What strict=True (s) and strict=False (l) make of one text. The loose one makes
\* of what the strict one takes the same network, never fails for host bits, and
\* makes a network around the address in the text. Of a text whose length is a
\* number it takes no more than what strict=True takes or rejects for its host
\* bits, and the number is the length (LooseOnlyClearsHostBits is about the other
\* texts).
LooseAgrees(c, s, l, family) ==
  LET slash == LastPos(c, "/")
      host  == Before(c, slash)
      len   == After(c, slash)
  IN  /\ Succeeds(s) => l = s
      /\ s.exc = "HostBitsError" /\ Meaning(host).family = family => Succeeds(l)
      /\ Succeeds(l) => InSpan(l.val, Meaning(host))
      /\ Succeeds(l) /\ Len(len) = 1 /\ IsDecimal(len[1]) =>
           /\ Succeeds(s) \/ s.exc = "HostBitsError"
           /\ l.val.pfxlen = DecValue(len[1])

\* Whatever a program constructs, derives and reads back, it holds addresses
\* and networks of the type they say they are, with no host bits set, and their
\* texts name them; with a number for a length, strict decides about host bits
\* and about nothing else.
NetworkConstructors ==
  /\ WellFormed(obj)
  /\ Reconstructs(obj)
  /\ last.call = "network" =>
       \A family \in {"INET", "INET6"} :
         LooseAgrees(CString(last.of),
                     ConstructNetwork(Str(last.of), family, TRUE),
                     ConstructNetwork(Str(last.of), family, FALSE),
                     family)

\* The comment of network_construct_impl: "strict: whether host bits are rejected
\* (1) or zeroed (0)". What strict=False takes, strict=True takes too or rejects
\* for its host bits.
LooseOnlyClearsHostBits ==
  last.call = "network" =>
    \A family \in {"INET", "INET6"} :
      LET s == ConstructNetwork(Str(last.of), family, TRUE)
          l == ConstructNetwork(Str(last.of), family, FALSE)
      IN  Succeeds(l) => Succeeds(s) \/ s.exc = "HostBitsError"

\* contains, overlaps and the comparisons agree with one another and with the
\* ranges of addresses the networks span: a network sorts before every other
\* one inside it, equal means the same, and it is always an exception, never an
\* answer, that objects of two families give.
AnswersAgree ==
  LET about(question) == last.call = "question" /\ last.rc = "none" /\ answer.about = question
  IN  /\ about("contains") => answer.val = InSpan(obj.prefix, other.addr)
      /\ about("overlaps") =>
           answer.val = (\/ InSpan(obj.prefix, FirstOf(other.prefix))
                         \/ InSpan(other.prefix, FirstOf(obj.prefix)))
      /\ about("cmp") /\ answer.val # NotImplemented =>
           /\ answer.val = 0 <=> obj = other
           /\ Cmp(other, obj) = Returned(-answer.val)
           /\ obj.type \in NetworkTypes /\ obj # other /\ WithinSpan(obj.prefix, other.prefix) =>
                answer.val = -1
      /\ last.call = "question" /\ last.rc = "FamilyError" => FamilyOf(obj) # FamilyOf(other)
=============================================================================
