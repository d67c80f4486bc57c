--------------------------- MODULE PromptToolParser ----------------------------
(****************************************************************************)
(* The parsing states of the prompt tools: an agent's model writes a call   *)
(* of create_prompt, update_prompt or patch_prompt as XML, its text arrives *)
(* in chunks cut anywhere, and a parser per call picks the arguments out.   *)
(*                                                                          *)
(* A call is a sequence of symbols: arg1 arg2 the arguments before the      *)
(* content, open1 open2 the opening of the content argument, s1 s2 the      *)
(* marker before the text, e1 e2 e3 the one after it (the last symbol is    *)
(* its last character), a1 a2 the closing of the argument, t1 t2 that of    *)
(* the tool, n a newline, z what the agent writes next; every other symbol  *)
(* is text.  A call has both markers, none, or only the first.              *)
(*                                                                          *)
(* Bounds: one call per agent at a time, of one of the given texts.         *)
(****************************************************************************)
EXTENDS Naturals, Sequences

CONSTANTS Authors, NoReply

VARIABLE reply   \* what an author's model is writing and its parser, or NoReply

ARG == <<"arg1", "arg2">>
OPEN == <<"open1", "open2">>
START == <<"s1", "s2">>
END == <<"e1", "e2", "e3">>
ARG_CLOSE == <<"a1", "a2">>
CLOSING == <<"t1", "t2">>

(* the symbols of a call with this text                                     *)
Symbols(w) ==
  ARG \o <<"n">> \o OPEN \o <<"n">>
  \o (IF w.marks = "none" THEN <<>> ELSE START \o <<"n">>)
  \o w.text
  \o (IF w.marks = "both" THEN <<"n">> \o END ELSE <<>>)
  \o <<"n">> \o ARG_CLOSE \o <<"n">> \o CLOSING \o <<"z">>

-----------------------------------------------------------------------------
(* Strings                                                                  *)

From(s, i) == SubSeq(s, i, Len(s))
UpTo(s, i) == SubSeq(s, 1, i)
Found(s, what) == {i \in 1 .. Len(s) + 1 - Len(what) : SubSeq(s, i, i + Len(what) - 1) = what}
Has(s, what) == Found(s, what) # {}
IndexOf(s, what) == CHOOSE i \in Found(s, what) : \A j \in Found(s, what) : i <= j
Before(s, what) == UpTo(s, IndexOf(s, what) - 1)
After(s, what) == From(s, IndexOf(s, what) + Len(what))

Solid(s) == {i \in DOMAIN s : s[i] # "n"}
TrimStart(s) == IF Solid(s) = {} THEN <<>> ELSE From(s, CHOOSE i \in Solid(s) : \A j \in Solid(s) : i <= j)
TrimEnd(s) == IF Solid(s) = {} THEN <<>> ELSE UpTo(s, CHOOSE i \in Solid(s) : \A j \in Solid(s) : i >= j)
Trim(s) == TrimStart(TrimEnd(s))
IsPrefixOf(s, t) == Len(s) <= Len(t) /\ s = UpTo(t, Len(s))

WithoutFirstNewline(s) == IF s # <<>> /\ s[1] = "n" THEN From(s, 2) ELSE s
WithoutLastNewline(s) == IF s # <<>> /\ s[Len(s)] = "n" THEN UpTo(s, Len(s) - 1) ELSE s

(* all but the last n symbols, and those                                    *)
Safe(s, n) == UpTo(s, IF Len(s) > n THEN Len(s) - n ELSE 0)
Held(s, n) == IF Len(s) > n THEN From(s, Len(s) - n + 1) ELSE s

-----------------------------------------------------------------------------
(* A parser: where it is, its buffer, and what it has found                 *)

Opened == [at |-> "arguments", buffer |-> <<>>, named |-> FALSE, text |-> <<>>, next |-> <<>>]

Emitted(p, s) == [p EXCEPT !.text = @ \o s]
Ended(p, rest) == [p EXCEPT !.at = "ended", !.buffer = <<>>, !.next = rest]

(* create and update: everything is dropped up to a chunk that holds the    *)
(* whole closing tag                                                        *)
Passthrough(p, s) ==
  IF Has(s, CLOSING) THEN Ended(p, After(s, CLOSING)) ELSE [p EXCEPT !.at = "passthrough", !.buffer = <<>>]

(* between the markers; the end marker may be cut, so its length less one   *)
(* is held back                                                             *)
Marker(p, s) ==
  IF Has(s, END)
  THEN Passthrough(Emitted(p, WithoutLastNewline(Before(s, END))), After(s, END))
  ELSE [Emitted(p, Safe(s, Len(END) - 1)) EXCEPT !.at = "marker", !.buffer = Held(s, Len(END) - 1)]

Seek(p, s) ==
  CASE Has(s, START) -> Marker(p, WithoutFirstNewline(After(s, START)))
    [] ~Has(s, START) /\ Has(s, ARG_CLOSE) ->
         Passthrough(Emitted(p, Trim(Before(s, ARG_CLOSE))), From(s, IndexOf(s, ARG_CLOSE)))
    [] ~Has(s, START) /\ ~Has(s, ARG_CLOSE) /\ ~IsPrefixOf(TrimStart(s), START) -> Passthrough(p, s)
    [] OTHER -> [p EXCEPT !.at = "seek", !.buffer = s]

(* patch: after the argument everything up to the closing tag is swallowed, *)
(* which may be cut                                                         *)
Swallow(p, s) ==
  IF Has(s, CLOSING) THEN Ended(p, After(s, CLOSING))
  ELSE [p EXCEPT !.at = "swallow", !.buffer = Held(s, Len(CLOSING) - 1)]

(* (slip: nothing is held back, so a closing tag that is cut is text)       *)
ContentWithoutHoldback(p, s) ==
  IF Has(s, ARG_CLOSE)
  THEN Swallow(Emitted(p, Before(s, ARG_CLOSE)), After(s, ARG_CLOSE))
  ELSE [Emitted(p, s) EXCEPT !.at = "default", !.buffer = <<>>]

Content(p, s) ==
  IF Has(s, ARG_CLOSE)
  THEN Swallow(Emitted(p, Before(s, ARG_CLOSE)), After(s, ARG_CLOSE))
  ELSE [Emitted(p, Safe(s, Len(ARG_CLOSE) - 1)) EXCEPT !.at = "default", !.buffer = Held(s, Len(ARG_CLOSE) - 1)]

(* the patch's end marker, or the end of its argument; a little more than   *)
(* the end marker is held back                                              *)
PatchMarker(p, s) ==
  CASE Has(s, END) -> Content(Emitted(p, Before(s, END)), After(s, END))
    [] ~Has(s, END) /\ Has(s, ARG_CLOSE) ->
         Content(Emitted(p, TrimEnd(Before(s, ARG_CLOSE))), After(s, ARG_CLOSE))
    [] OTHER -> [Emitted(p, Safe(s, Len(END))) EXCEPT !.at = "marker", !.buffer = Held(s, Len(END))]

PatchSeek(p, s) ==
  CASE Has(s, START) -> PatchMarker(p, WithoutFirstNewline(After(s, START)))
    [] ~Has(s, START) /\ (Has(s, ARG_CLOSE) \/ ~IsPrefixOf(TrimStart(s), START)) -> Content(p, s)
    [] OTHER -> [p EXCEPT !.at = "seek", !.buffer = s]

-----------------------------------------------------------------------------
(* run(): one chunk                                                         *)

Arguments(p, s) ==
  LET named == [p EXCEPT !.named = @ \/ Has(s, ARG)]
  IN  IF Has(s, OPEN) THEN [named EXCEPT !.at = "seek", !.buffer = After(s, OPEN)] ELSE [named EXCEPT !.buffer = s]

Whole(p, chunk) == p.buffer \o chunk

RunPrompt(p, chunk) ==
  CASE p.at = "arguments" ->
         LET q == Arguments(p, Whole(p, chunk)) IN IF q.at = "seek" THEN Seek(q, q.buffer) ELSE q
    [] p.at = "seek" -> Seek(p, Whole(p, chunk))
    [] p.at = "marker" -> Marker(p, Whole(p, chunk))
    [] p.at = "passthrough" -> Passthrough(p, chunk)

RunPatch(p, chunk) ==
  CASE p.at = "arguments" ->
         LET q == Arguments(p, Whole(p, chunk)) IN IF q.at = "seek" THEN PatchSeek(q, q.buffer) ELSE q
    [] p.at = "seek" -> PatchSeek(p, Whole(p, chunk))
    [] p.at = "marker" -> PatchMarker(p, Whole(p, chunk))
    [] p.at = "default" -> Content(p, Whole(p, chunk))
    [] p.at = "swallow" -> Swallow(p, Whole(p, chunk))

Run(tool, p, chunk) ==
  IF p.at = "ended" THEN [p EXCEPT !.next = @ \o chunk]
  ELSE IF tool = "patch_prompt" THEN RunPatch(p, chunk) ELSE RunPrompt(p, chunk)

-----------------------------------------------------------------------------
(* Replies that arrive                                                      *)

Silent == [c \in Authors |-> NoReply]

(* an author's model starts a call                                          *)
Starts(c, w) ==
  reply' = [reply EXCEPT ![c] = [call |-> w, left |-> Symbols(w), parser |-> Opened, cuts |-> {}]]

(* history: the cuts that the parsers do not bridge                         *)
Cut(r, p, left) ==
  r.cuts
  \cup (IF p.at = "marker" /\ r.parser.at # "marker" /\ p.buffer = <<>> /\ p.text = <<>> THEN {"start"} ELSE {})
  \cup (IF left # <<>> /\ left[1] = "e3" /\ p.at = "marker" THEN {"end"} ELSE {})
  \cup (IF left # <<>> /\ left[1] = "t2" /\ p.at = "passthrough" THEN {"closing"} ELSE {})
  \cup (IF p.at = "passthrough" /\ r.parser.at # "passthrough" /\ r.call.marks = "none" /\ p.text = <<>>
        THEN {"text"} ELSE {})
  \cup (IF r.parser.at \in {"arguments", "seek", "marker"} /\ p.at \in {"default", "swallow"} /\ left # <<>>
           /\ Has(r.call.text, ARG_CLOSE) /\ Has(left, <<"e3">>)
        THEN {"argument"} ELSE {})

(* the next chunk                                                           *)
Receive(c) ==
  /\ reply[c] # NoReply
  /\ \E k \in 1 .. Len(reply[c].left) :
       LET r == reply[c]
           p == Run(r.call.tool, r.parser, UpTo(r.left, k))
           left == From(r.left, k + 1)
       IN  reply' = [reply EXCEPT ![c] = [r EXCEPT !.parser = p, !.left = left, !.cuts = Cut(r, p, left)]]

-----------------------------------------------------------------------------
(* However a call is cut into chunks, its end is found and its text is what *)
(* was written: exactly by create and update, up to the newlines around it  *)
(* by patch.  But create and update do not bridge a cut in the closing tag  *)
(* (the call never ends), in a text without markers (the text is lost),     *)
(* behind the start marker and before the last character of the end marker  *)
(* (a newline too many); a patch whose text closes an argument is read      *)
(* wrong if the end marker is not in the same chunk; and a call without the *)
(* end marker never ends.                                                   *)
WrittenIsRead ==
  \A c \in Authors : reply[c] # NoReply /\ reply[c].left = <<>> =>
    LET r == reply[c]
    IN  /\ r.parser.named
        /\ r.parser.at = "ended" \/ ("closing" \in r.cuts /\ r.call.tool # "patch_prompt")
           \/ r.call.marks = "first"
        /\ r.parser.at = "ended" => r.parser.next = <<"z">>
        /\ \/ r.parser.text = r.call.text
           \/ r.call.marks = "first" \/ "argument" \in r.cuts
           \/ ("text" \in r.cuts /\ r.call.tool # "patch_prompt")
           \/ /\ Trim(r.parser.text) = r.call.text
              /\ r.call.tool = "patch_prompt" \/ r.cuts \cap {"start", "end"} # {}
=============================================================================
