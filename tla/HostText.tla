------------------------------ MODULE HostText ------------------------------
(***************************************************************************)
(* What a host is taken for: the classifiers of                            *)
(* crates/ressrf-core/src/cidr.rs and the suffix match of uri_validator.rs.*)
(*                                                                         *)
(* A text is a sequence of tokens: marks (".", ":", "/", "@", ...) and     *)
(* words.  Of a word the code asks what its characters are, and no more:   *)
(*   kind  : "name"; "dash" (has "--"), "xn" (starts with "xn--");         *)
(*           "dec" (digits, no leading zero), "octal" (digits behind a     *)
(*           zero), "hex" ("0x" and hex digits); "v6" (an IPv6 address)    *)
(*   lower : the word in lower case                                        *)
(*   value : the number it spells (for "v6", any name of the address)      *)
(*   tails : the other words it ends with                                  *)
(***************************************************************************)
EXTENDS Integers, Sequences, SequencesExt

CONSTANT Words   \* [word -> [kind, lower, value, tails]]

Marks == {".", ":", "/", "\\", "@", "?", "#", "[", "]", "%40", "%00", "NUL"}

WordKinds == {"name", "dash", "xn", "dec", "octal", "hex", "v6"}

\* What texts are made of.
Tokens == Marks \cup DOMAIN Words \cup {Words[w].lower : w \in DOMAIN Words}

\* No word is a mark, in capitals or not.
ASSUME WordsAssumption ==
  \A w \in DOMAIN Words : /\ w \notin Marks /\ Words[w].lower \notin Marks
                          /\ Words[w].kind \in WordKinds /\ Words[w].value \in Int

Kind(token) == IF token \in DOMAIN Words THEN Words[token].kind ELSE "mark"

\* str::to_lowercase.
Lower(text) ==
  [i \in DOMAIN text |->
     IF text[i] \in DOMAIN Words THEN Words[text[i]].lower ELSE text[i]]

\* The text before the first token in marks.
Before(text, marks) ==
  LET at == SelectInSeq(text, LAMBDA token : token \in marks)
  IN IF at = 0 THEN text ELSE SubSeq(text, 1, at - 1)

\* The text behind the last mark; all of it if there is none.
BehindLast(text, mark) ==
  SubSeq(text, SelectLastInSeq(text, LAMBDA token : token = mark) + 1, Len(text))

\* str::split('.').
Labels(text) ==
  LET parts[n \in 0 .. Len(text)] ==
        IF n = 0 THEN << <<>> >>
        ELSE IF text[n] = "." THEN Append(parts[n - 1], <<>>)
        ELSE [parts[n - 1] EXCEPT ![Len(parts[n - 1])] = Append(@, text[n])]
  IN parts[Len(text)]

\* str::trim_end_matches('.').
TrimDots(text) ==
  SubSeq(text, 1, SelectLastInSeq(text, LAMBDA token : token # "."))

Bracketed(text) ==
  text # <<>> /\ text[1] = "[" /\ text[Len(text)] = "]"

Unbracketed(text) ==
  IF Bracketed(text) THEN SubSeq(text, 2, Len(text) - 1) ELSE text

HasColon(text) == \E i \in DOMAIN text : text[i] = ":" \/ Kind(text[i]) = "v6"

-----------------------------------------------------------------------------
\* A label that is one word of one of the kinds.
LabelIs(label, kinds) == Len(label) = 1 /\ Kind(label[1]) \in kinds

\* parse_ip_strict, with reject_ambiguous_ipv4: one IPv6 text, or four decimal
\* octets without leading zeros.
ParsesIp(text) ==
  \/ Len(text) = 1 /\ Kind(text[1]) = "v6"
  \/ /\ ~ HasColon(text)
     /\ Len(Labels(text)) = 4
     /\ \A k \in 1 .. 4 : /\ LabelIs(Labels(text)[k], {"dec"})
                          /\ Words[Labels(text)[k][1]].value <= 255

\* The address of a text that parses: the numbers it spells.
IpOf(text) ==
  [k \in DOMAIN Labels(text) |-> Words[Labels(text)[k][1]].value]

IsIpLiteral(text) == ParsesIp(Unbracketed(text))

\* Mutated form: the number of labels is not looked at.
IsAmbiguousIpAnyCount(text) ==
  /\ ~ Bracketed(text) /\ text # <<>> /\ ~ HasColon(text) /\ ~ ParsesIp(text)
  /\ LET labels == Labels(text)
     IN \/ \E k \in DOMAIN labels : LabelIs(labels[k], {"hex"})
        \/ Len(text) = 1 /\ LabelIs(text, {"dec", "octal"})
        \/ /\ \A k \in DOMAIN labels : LabelIs(labels[k], {"dec", "octal"})
           /\ \E k \in DOMAIN labels : LabelIs(labels[k], {"octal"})

\* is_ambiguous_ip: some label in hex; or all labels of digits, one of them
\* octal or not four of them (one alone is the decimal integer form).
IsAmbiguousIp(text) ==
  /\ ~ Bracketed(text) /\ text # <<>> /\ ~ HasColon(text) /\ ~ ParsesIp(text)
  /\ LET labels == Labels(text)
     IN \/ \E k \in DOMAIN labels : LabelIs(labels[k], {"hex"})
        \/ /\ \A k \in DOMAIN labels : LabelIs(labels[k], {"dec", "octal"})
           /\ \/ \E k \in DOMAIN labels : LabelIs(labels[k], {"octal"})
              \/ Len(labels) # 4

-----------------------------------------------------------------------------
\* A suffix as it is compared: one leading dot and the trailing dots dropped.
BareSuffix(suffix) ==
  LET s == TrimDots(suffix)
  IN IF s # <<>> /\ s[1] = "." THEN Tail(s) ELSE s

\* Mutated form: what stands in front of the suffix is not looked at.
EndsWithSuffix(host, suffix) ==
  LET h == TrimDots(host)
      s == BareSuffix(suffix)
      at(i) == Len(h) - Len(s) + i
  IN /\ Len(s) <= Len(h)
     /\ \A i \in 2 .. Len(s) : h[at(i)] = s[i]
     /\ s # <<>> => \/ h[at(1)] = s[1]
                    \/ Kind(h[at(1)]) # "mark" /\ s[1] \in Words[h[at(1)]].tails

\* domain_matches_suffix: the host is the suffix or has a dot in front of it.
DomainMatchesSuffix(host, suffix) ==
  LET h == TrimDots(host)
      s == BareSuffix(suffix)
  IN h = s \/ IsSuffix(<<".">> \o s, h)
=============================================================================
