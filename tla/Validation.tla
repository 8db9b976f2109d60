------------------------------ MODULE Validation ------------------------------
(* The field validators of utils/validation.py beside the types of            *)
(* utils/types.py that describe the same fields: each validator cleans its    *)
(* text, refuses it or returns what it has cleaned. A text is a sequence of   *)
(* symbols; a word that a list or a pattern looks for is one symbol, and so   *)
(* are "space", "tab" (which stands for the line ends, too) and "ctrl", a     *)
(* control character that is not white space.                                 *)
EXTENDS Naturals, Sequences, SequencesExt

CONSTANTS
  Texts,          \* Texts[f]: the texts given to the validator of field f
  MaxLengthOf,    \* in symbols: email 254, name 100, username 30, slug 100, url 2048
  MinLengthOf,    \* 3, 1, 3, 1, 0
  MaxLocalPart    \* EMAIL_LOCAL_PART_MAX_LENGTH, 64

Fields == {"email", "name", "username", "slug", "url"}

\* Only a URL has no least length, and a text is a sequence of whatever symbols it has.
ASSUME ValidationAssumption ==
  /\ MaxLengthOf \in [Fields -> Nat] /\ MinLengthOf \in [Fields -> Nat]
  /\ \A f \in Fields \ {"url"} : MinLengthOf[f] > 0
  /\ \A f \in Fields : \A t \in Texts[f] : t \in Seq(Range(t))
  /\ MaxLocalPart \in Nat

VARIABLES
  field,          \* the field and
  text            \* the text that is validated

----------------------------------------------------------------------------
(* Symbols                                                                    *)
White == {"space", "tab"}
Words == {"test", "spam", "noreply", "no-reply", "mailinator", "com", "admin"}
LowerLetters == {"a", "b"} \cup Words
Small(c) == CASE c = "A" -> "a"
              [] c = "ADMIN" -> "admin"
              [] c = "HTTP" -> "http"
              [] c = "LOCALHOST" -> "localhost"
              [] c = "FILE" -> "file"
              [] OTHER -> c
Digits == {"1"}
Alnum == LowerLetters \cup Digits
AnyCase == Alnum \cup {"A", "ADMIN"}

Lower(t) == [i \in DOMAIN t |-> Small(t[i])]
Strip(t) ==
  LET kept == {i \in DOMAIN t : t[i] \notin White}
  IN IF kept = {} THEN <<>>
     ELSE SubSeq(t, CHOOSE i \in kept : \A j \in kept : i <= j,
                    CHOOSE i \in kept : \A j \in kept : i >= j)
Only(t, symbols) == \A i \in DOMAIN t : t[i] \in symbols
Repeats(t, n) ==
  \E i \in DOMAIN t : /\ i + n - 1 <= Len(t)
                      /\ \A j \in i..(i + n - 1) : t[j] = t[i]
LengthOK(f, t) == Len(t) \in MinLengthOf[f]..MaxLengthOf[f]

----------------------------------------------------------------------------
(* validate_email                                                             *)
TopLevel(t) == Only(t, LowerLetters) /\ (Len(t) >= 2 \/ (Len(t) = 1 /\ t[1] \in Words))
LocalSymbols == AnyCase \cup {".", "underscore", "%", "+", "-"}
DomainSymbols == AnyCase \cup {".", "-"}

\* [a-z0-9](?:[a-z0-9.-]*[a-z0-9])?\.[a-z]{2,}
DomainOK(d) ==
  \E i \in 2..Len(d) :
    /\ d[i] = "." /\ TopLevel(SubSeq(d, i + 1, Len(d)))
    /\ Only(SubSeq(d, 1, i - 1), DomainSymbols)
    /\ d[1] \in Alnum /\ d[i - 1] \in Alnum

Ats(t) == {i \in DOMAIN t : t[i] = "@"}
LocalPart(t) == SubSeq(t, 1, CHOOSE i \in 0..Len(t) : i + 1 \in Ats(t))
DomainPart(t) == SubSeq(t, 1 + CHOOSE i \in Ats(t) : TRUE, Len(t))

BlockedDomain(d) == d = <<"mailinator", ".", "com">>
BlockedLocal(l) ==
  \/ \E i \in DOMAIN l : \E j \in (i + 1)..Len(l) : l[i] = "+" /\ l[j] \in {"test", "spam"}
  \/ l[1] = "test"
  \/ l \in {<<"noreply">>, <<"no-reply">>}

ValidEmail(t) ==
  /\ LengthOK("email", t)
  /\ \E i \in DOMAIN t : Ats(t) = {i}
  /\ LocalPart(t) # <<>> /\ Only(LocalPart(t), LocalSymbols)
  /\ DomainOK(DomainPart(t))
  /\ \A i \in 1..(Len(t) - 1) : ~(t[i] = "." /\ t[i + 1] = ".")
  /\ ~BlockedDomain(DomainPart(t)) /\ ~BlockedLocal(LocalPart(t))
  /\ Len(LocalPart(t)) <= MaxLocalPart

(* validate_name: white space is collapsed, and five of one letter are too many *)
Collapse(t) ==
  LET done[n \in 0..Len(t)] ==
        IF n = 0 THEN <<>>
        ELSE IF t[n] \notin White THEN Append(done[n - 1], t[n])
        ELSE IF n > 1 /\ t[n - 1] \in White THEN done[n - 1]
        ELSE Append(done[n - 1], "space")
  IN done[Len(t)]
NameSymbols == LowerLetters \cup {"A", "ADMIN", "space", "'", "-", "."}
ValidName(t) == LengthOK("name", t) /\ Only(t, NameSymbols) /\ ~Repeats(t, 5)

(* validate_username                                                          *)
Reserved == {<<"admin">>, <<"test">>}
ValidUsername(t) ==
  /\ LengthOK("username", t)
  /\ Only(t, Alnum \cup {"-", "underscore"}) /\ t[1] \in Alnum
  /\ t \notin Reserved /\ ~Repeats(t, 4)

(* validate_url: urlparse drops the control characters and spaces in front,    *)
(* and every tab and line end, before it splits the text. It puts the scheme  *)
(* and the host name in small letters.                                        *)
Parsed(t) ==
  LET parsed[n \in 0..Len(t)] ==
        IF n = 0 THEN <<>>
        ELSE IF t[n] = "tab" \/ (t[n] \in {"ctrl", "space"} /\ parsed[n - 1] = <<>>)
          THEN parsed[n - 1]
        ELSE Append(parsed[n - 1], t[n])
  IN parsed[Len(t)]

\* What stands before the first of these symbols, and what stands after the symbols up to n
Before(t, stops) ==
  SubSeq(t, 1, CHOOSE i \in 0..Len(t) : /\ \A j \in 1..i : t[j] \notin stops
                                        /\ i < Len(t) => t[i + 1] \in stops)
Past(t, n) == SubSeq(t, n + 1, Len(t))

Scheme(p) == IF ":" \in Range(p) THEN Lower(Before(p, {":"})) ELSE <<>>
Rest(p) == Past(p, Len(Before(p, {":"})) + 1)
\* The user before the last "@" and the port are not part of the host name.
Host(p) ==
  IF Len(Rest(p)) < 2 \/ Rest(p)[1] # "/" \/ Rest(p)[2] # "/" THEN <<>>
  ELSE LET server == Before(Past(Rest(p), 2), {"/"})
       IN Lower(Before(Past(server, CHOOSE n \in 0..Len(server) :
                                      /\ n > 0 => server[n] = "@"
                                      /\ \A m \in (n + 1)..Len(server) : server[m] # "@"),
                       {":"}))

\* A suspicious word is looked for in the text itself.
ValidUrl(t) ==
  /\ LengthOK("url", t)
  /\ Scheme(Parsed(t)) \in {<<"http">>, <<"https">>}
  /\ Host(Parsed(t)) \notin {<<>>, <<"localhost">>}
  /\ \A i \in 1..(Len(t) - 1) : ~(Small(t[i]) = "file" /\ t[i + 1] = ":")

\* Mutant of ValidSlug: a hyphen may stand at the end.
ValidSlugLoose(t) ==
  /\ LengthOK("slug", t)
  /\ Only(t, Alnum \cup {"-"})
  /\ t[1] # "-"
  /\ \A i \in 1..(Len(t) - 1) : ~(t[i] = "-" /\ t[i + 1] = "-")

(* validate_slug                                                              *)
ValidSlug(t) ==
  /\ LengthOK("slug", t)
  /\ Only(t, Alnum \cup {"-"})
  /\ t[1] # "-" /\ t[Len(t)] # "-"
  /\ \A i \in 1..(Len(t) - 1) : ~(t[i] = "-" /\ t[i + 1] = "-")

Cleaned(f, t) == CASE f \in {"email", "username", "slug"} -> Lower(Strip(t))
                   [] f = "name" -> Collapse(Strip(t))
                   [] f = "url" -> Strip(t)
Validates(f, t) == CASE f = "email" -> ValidEmail(t)
                  [] f = "name" -> ValidName(t)
                  [] f = "username" -> ValidUsername(t)
                  [] f = "slug" -> ValidSlug(t)
                  [] f = "url" -> ValidUrl(t)
Returns(f, t) == Validates(f, Cleaned(f, t))

----------------------------------------------------------------------------
(* utils/types.py                                                             *)
TypeTopLevel(t) ==
  Only(t, AnyCase \ Digits) /\ (Len(t) >= 2 \/ (Len(t) = 1 /\ t[1] \in Words))
FitsEmail(t) ==
  \E i \in DOMAIN t, j \in DOMAIN t :
    /\ 1 < i /\ i + 1 < j /\ t[i] = "@" /\ t[j] = "."
    /\ Only(SubSeq(t, 1, i - 1), LocalSymbols)
    /\ Only(SubSeq(t, i + 1, j - 1), DomainSymbols)
    /\ TypeTopLevel(SubSeq(t, j + 1, Len(t)))
FitsUsername(t) == t # <<>> /\ t[1] \in Alnum /\ Only(t, Alnum \cup {"-", "underscore"})
\* [a-z0-9]+(?:-[a-z0-9]+)*: each hyphen has a letter or a digit before and after it
FitsSlug(t) ==
  /\ Only(t, Alnum \cup {"-"})
  /\ \A i \in DOMAIN t : t[i] = "-" => /\ 1 < i /\ i < Len(t)
                                       /\ t[i - 1] \in Alnum /\ t[i + 1] \in Alnum
FitsUrl(t) ==
  Len(t) >= 4 /\ t[1] \in {"http", "https"} /\ t[2] = ":" /\ t[3] = "/" /\ t[4] = "/"
Fits(f, t) ==
  LengthOK(f, t) /\ CASE f = "email" -> FitsEmail(t)
                      [] f = "name" -> TRUE
                      [] f = "username" -> FitsUsername(t)
                      [] f = "slug" -> FitsSlug(t)
                      [] f = "url" -> FitsUrl(t)

ValidationInit == field \in Fields /\ text \in Texts[field]

----------------------------------------------------------------------------
\* The start of a URL that urlparse reads otherwise than it is written
Disguised(t) == \E i \in DOMAIN t : i <= 4 /\ (Small(t[i]) # t[i] \/ t[i] \in {"ctrl", "tab"})

\* The two layers agree: what a validator returns fits the type of its field and is returned
\* unchanged when it is validated again. They differ over exactly the URLs that the
\* validator returns with a capital, a tab or a control character in "http://", which the
\* type refuses. The cleaned text that fits the type of a slug is a valid slug, and the one
\* that fits the type of a username is refused only if it is reserved or repeats a symbol
\* four times.
LayersAgree ==
  LET t == Cleaned(field, text)
  IN /\ Returns(field, text) => /\ Fits(field, t) <=> ~(field = "url" /\ Disguised(t))
                                /\ Returns(field, t) /\ Cleaned(field, t) = t
     /\ field = "slug" /\ Fits("slug", t) => Returns("slug", text)
     /\ field = "username" /\ Fits("username", t) =>
          (Returns("username", text) <=> t \notin Reserved /\ ~Repeats(t, 4))

=============================================================================
