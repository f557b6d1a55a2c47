------------------------------ MODULE Command ------------------------------
(***************************************************************************)
(* The command dispatcher of lib/core/command: a line is split into        *)
(* arguments that borrow the dispatcher's one buffer, the first two are    *)
(* matched with a module and with one of its commands, the others are      *)
(* converted to the handler's parameters, and the handler runs while the   *)
(* arguments stay borrowed.  A character is a one-letter string; " ", DQ,  *)
(* BS and NUL stand for white space, the double quote, the backslash and   *)
(* the zero byte, and capital letters fold to small ones.                  *)
(***************************************************************************)
EXTENDS Integers, Sequences, FiniteSets, SequencesExt

CONSTANTS CmLineCapacity,     \* LineCapacity: bytes of the buffer
          CmArgumentCapacity, \* ArgumentCapacity
          CmRoutes,           \* the command_route of every module, in order
          CmCommands,         \* every module's commands, as declared: a name and
                              \* parameters [kind, optional]
          CmWidth,            \* bits of an integer parameter
          CmHigh,             \* the declared maximum of a signed parameter
          CmChoices,          \* the names of an enumeration
          CmYes, CmNo,        \* the words for a Boolean; the first is the strict one
          CmFirst,            \* lines typed first, and from inside handlers
          CmLines             \* lines typed second

VARIABLES cmBound,   \* CommandSource::dispatch_ is set
          cmTyped,   \* the last line that a source submitted from the top
          cmBuffer,  \* buffer_
          cmViews,   \* arguments_ up to argc_
          cmBusy,    \* busy_
          cmCall,    \* the running handler and what it was given
          cmReply,   \* the Status dispatch returned last
          cmCount    \* lines submitted from the top so far

cmVars == <<cmBound, cmTyped, cmBuffer, cmViews, cmBusy, cmCall, cmReply,
            cmCount>>

CmNone == [name |-> "none"]
CmHelp == <<"h">>
CmNul == "NUL"

CmSpace(c) == c = " "

(* Names are compared without case; argument text is never folded.          *)
CmFold(c) ==
  CASE c = "A" -> "a" [] c = "B" -> "b" [] c = "N" -> "n" [] OTHER -> c

CmEqualName(a, b) ==
  /\ Len(a) = Len(b)
  /\ \A i \in 1..Len(a) : CmFold(a[i]) = CmFold(b[i])

(* validate: routes are valid, differ from "help" and from each other.      *)
CmValidate ==
  \A i \in 1..Len(CmRoutes) :
    /\ Len(CmRoutes[i]) > 0
    /\ ~CmEqualName(CmRoutes[i], CmHelp)
    /\ \A j \in 1..(i - 1) : ~CmEqualName(CmRoutes[i], CmRoutes[j])

CmIsPrefix(query, name) ==
  /\ Len(query) < Len(name)
  /\ CmEqualName(query, SubSeq(name, 1, Len(query)))

CmMatchFirstPrefix(query, names) ==
  LET found == {i \in 1..Len(names) : CmEqualName(query, names[i])
                                        \/ CmIsPrefix(query, names[i])}
  IN  IF query = <<>> \/ found = {}
      THEN [status |-> "not_found", index |-> 0, exact |-> FALSE]
      ELSE [status |-> "ok", exact |-> TRUE,
            index |-> CHOOSE i \in found : \A j \in found : i <= j]

(* lazy_match: one pass that stops at an exact match and otherwise counts    *)
(* the names that the query begins.                                         *)
CmMatch(query, names) ==
  LET Pass[i \in 0..Len(names)] ==
        IF i = 0 THEN [status |-> "not_found", index |-> 0, exact |-> FALSE]
        ELSE LET r == Pass[i - 1] IN
             CASE r.exact -> r
               [] CmEqualName(query, names[i]) ->
                    [status |-> "ok", index |-> i, exact |-> TRUE]
               [] CmIsPrefix(query, names[i]) ->
                    [status |-> IF r.status = "not_found" THEN "ok"
                                ELSE "ambiguous_match",
                     index |-> i, exact |-> FALSE]
               [] OTHER -> r
  IN  IF query = <<>> THEN Pass[0] ELSE Pass[Len(names)]

-----------------------------------------------------------------------------
(* Parse.  CmText reads one argument from position "at": the characters it  *)
(* stored, where it stopped, and whether it is sound.                       *)
CmEscape(line, at) ==
  /\ line[at] = "BS"
  /\ at < Len(line)
  /\ line[at + 1] \in {"DQ", "BS"}

RECURSIVE CmText(_, _, _)
CmText(line, at, quoted) ==
  LET Stored(c, next) ==
        LET rest == CmText(line, next, quoted) IN
        [rest EXCEPT !.text = <<c>> \o @]
      Stop(next, sound) == [text |-> <<>>, next |-> next, sound |-> sound]
  IN  CASE at > Len(line)     -> Stop(at, ~quoted)
        [] at <= Len(line) /\ CmEscape(line, at) ->
             Stored(line[at + 1], at + 2)
        [] at <= Len(line) /\ ~CmEscape(line, at) /\ line[at] = "DQ" ->
             Stop(at + 1, quoted /\ (at + 1 <= Len(line) =>
                                       CmSpace(line[at + 1])))
        [] at <= Len(line) /\ ~quoted /\ CmSpace(line[at]) -> Stop(at, TRUE)
        [] OTHER -> Stored(line[at], at + 1)

(* The arguments from position "at", the first "written" bytes of the buffer *)
(* and "count" arguments being taken already.                               *)
RECURSIVE CmArguments(_, _, _, _)
CmArguments(line, at, written, count) ==
  IF at > Len(line) THEN [status |-> "ok", text |-> <<>>, views |-> <<>>]
  ELSE IF CmSpace(line[at]) THEN CmArguments(line, at + 1, written, count)
  ELSE IF count = CmArgumentCapacity
  THEN [status |-> "too_many_arguments", text |-> <<>>, views |-> <<>>]
  ELSE LET quoted == line[at] = "DQ"
           token  == CmText(line, IF quoted THEN at + 1 ELSE at, quoted)
           end    == written + Len(token.text)
           rest   == CmArguments(line, token.next, end, count + 1)
       IN  IF ~token.sound
           THEN [status |-> "parse_error", text |-> token.text, views |-> <<>>]
           ELSE [rest EXCEPT !.text  = token.text \o @,
                             !.views = <<[from |-> written, to |-> end]>> \o @]

CmParse(line) ==
  IF Len(line) > CmLineCapacity
  THEN [status |-> "line_too_long", text |-> <<>>, views |-> <<>>]
  ELSE IF CmNul \in ToSet(line)
  THEN [status |-> "parse_error", text |-> <<>>, views |-> <<>>]
  ELSE CmArguments(line, 1, 0, 0)

(* What Parse leaves in the buffer: the bytes it stored over the old ones.   *)
CmStored(buffer, text) ==
  [i \in 1..CmLineCapacity |-> IF i <= Len(text) THEN text[i] ELSE buffer[i]]

CmRead(buffer, view) == SubSeq(buffer, view.from + 1, view.to)

-----------------------------------------------------------------------------
(* Number: an integer of CmWidth bits from its text.                        *)
CmDigit(c) ==
  CASE c = "0" -> 0 [] c = "1" -> 1 [] c = "8" -> 8 [] c = "b" -> 11
    [] OTHER -> 99

CmMagnitude(text, base) ==
  LET Value[i \in 0..Len(text)] ==
        IF i = 0 THEN 0 ELSE base * Value[i - 1] + CmDigit(text[i])
  IN  Value[Len(text)]

CmTop(signed) == IF signed THEN 2^(CmWidth - 1) - 1 ELSE 2^CmWidth - 1

CmLimitSame(negative, signed) == CmTop(signed)

(* The largest magnitude: a signed type has one more value below zero.       *)
CmLimit(negative, signed) ==
  IF negative THEN CmTop(signed) + 1 ELSE CmTop(signed)

CmNumber(text, signed) ==
  LET bad      == [ok |-> FALSE, value |-> 0]
      negative == text # <<>> /\ text[1] = "-"
      digits0  == IF text # <<>> /\ text[1] \in {"-", "+"} THEN Tail(text)
                  ELSE text
      base     == IF Len(digits0) >= 2 /\ digits0[1] = "0"
                  THEN CASE digits0[2] = "x" -> 16
                         [] digits0[2] = "b" -> 2
                         [] OTHER -> 10
                  ELSE 10
      digits   == IF base = 10 THEN digits0
                  ELSE SubSeq(digits0, 3, Len(digits0))
  IN  IF \/ text = <<>> \/ digits = <<>>
         \/ (negative /\ ~signed)
         \/ \E i \in 1..Len(digits) : CmDigit(digits[i]) >= base
      THEN bad
      ELSE LET magnitude == CmMagnitude(digits, base) IN
           IF \/ magnitude >= 2^CmWidth
              \/ magnitude > CmLimit(negative, signed)
           THEN bad
           ELSE [ok |-> TRUE,
                 value |-> IF negative THEN -magnitude ELSE magnitude]

(* Parse of one argument, by the kind of its parameter.  An enumeration is    *)
(* matched like a command; a Boolean is "true" or "false" as written, or,     *)
(* where it is friendly, any of the words in any case.                       *)
CmBad(status) == [status |-> status, value |-> 0]
CmGood(value) == [status |-> "ok", value |-> value]

CmChoice(text) ==
  LET match == CmMatch(text, CmChoices) IN
  IF match.status = "ok" THEN CmGood(match.index) ELSE CmBad(match.status)

CmFriendly(text) ==
  LET found == {i \in 1..Len(CmYes) : CmEqualName(text, CmYes[i])
                                        \/ CmEqualName(text, CmNo[i])}
  IN  IF found = {} THEN CmBad("invalid_argument")
      ELSE LET first == CHOOSE i \in found : \A j \in found : i <= j
           IN  CmGood(CmEqualName(text, CmYes[first]))

CmArgument(kind, text) ==
  CASE kind = "choice" -> CmChoice(text)
    [] kind = "switch" -> CmFriendly(text)
    [] kind = "boolean" ->
         IF text \in {CmYes[1], CmNo[1]} THEN CmGood(text = CmYes[1])
         ELSE CmBad("invalid_argument")
    [] kind = "text" -> CmGood(0)
    [] OTHER ->
         LET n == CmNumber(text, kind = "signed") IN
         IF ~n.ok \/ (kind = "signed" /\ n.value > CmHigh)
         THEN CmBad("invalid_argument") ELSE CmGood(n.value)

(* command: the parameters before the first optional one are required.       *)
CmRequired(declared) ==
  Cardinality({i \in 1..Len(declared) : ~declared[i].optional})

(* CommandTable: the parameters of all commands of a module in one array, of *)
(* which each command has its own part.                                      *)
CmTable(m) == FoldLeft(LAMBDA t, c : t \o c.takes, <<>>, CmCommands[m])

CmOffsetNext(m, index) ==
  FoldLeft(LAMBDA n, c : n + Len(c.takes), 0, SubSeq(CmCommands[m], 1, index))

CmOffset(m, index) ==
  FoldLeft(LAMBDA n, c : n + Len(c.takes), 0, SubSeq(CmCommands[m], 1, index - 1))

CmDescriptor(m, index) ==
  LET declared == CmCommands[m][index].takes
      offset   == CmOffset(m, index)
  IN  [arguments |-> SubSeq(CmTable(m), offset + 1, offset + Len(declared)),
       count |-> Len(declared), required |-> CmRequired(declared)]

(* Invoke: every argument in turn, up to the first that does not convert.    *)
CmInvoke(descriptor, texts) ==
  LET results == [i \in 1..Len(texts) |->
                    CmArgument(descriptor.arguments[i].kind, texts[i])]
      failed  == SelectInSeq(results, LAMBDA r : r.status # "ok")
  IN  [status |-> IF failed = 0 THEN "ok" ELSE results[failed].status,
       values |-> [i \in 1..Len(texts) |-> results[i].value]]

CmConvertedAny(descriptor, texts) ==
  IF Len(texts) > descriptor.count
  THEN [status |-> "invalid_argument", values |-> <<>>]
  ELSE CmInvoke(descriptor, texts)

(* The typed adapter: the number of arguments, then their values.            *)
CmConverted(descriptor, texts) ==
  IF Len(texts) \notin descriptor.required..descriptor.count
  THEN [status |-> "invalid_argument", values |-> <<>>]
  ELSE CmInvoke(descriptor, texts)

-----------------------------------------------------------------------------
CmInit ==
  /\ cmBound = FALSE
  /\ cmTyped = [line |-> <<>>, args |-> <<>>, sound |-> TRUE]
  /\ cmBuffer = [i \in 1..CmLineCapacity |-> CmNul]
  /\ cmViews = <<>>
  /\ cmBusy = FALSE
  /\ cmCall = CmNone
  /\ cmReply = "none"
  /\ cmCount = 0

(* bind_sources: nothing is bound when the routes are not valid.             *)
CmBind ==
  /\ ~cmBound
  /\ cmBound' = CmValidate
  /\ UNCHANGED <<cmTyped, cmBuffer, cmViews, cmBusy, cmCall, cmReply, cmCount>>

(* Handle: the command of module m that the arguments after the route name.  *)
CmHandle(m, views, buffer) ==
  IF views = <<>> THEN [status |-> "ok", call |-> CmNone]
  ELSE LET names == [i \in 1..Len(CmCommands[m]) |-> CmCommands[m][i].name]
           match == CmMatch(CmRead(buffer, views[1]), Append(names, CmHelp))
           texts == [i \in 1..(Len(views) - 1) |-> CmRead(buffer, views[i + 1])]
       IN  CASE match.status # "ok" ->
                  [status |-> match.status, call |-> CmNone]
             [] match.status = "ok" /\ match.index > Len(names) ->
                  [status |-> IF Len(views) = 1 THEN "ok"
                              ELSE "invalid_argument",
                   call |-> CmNone]
             [] OTHER ->
                  LET typed == CmConverted(CmDescriptor(m, match.index), texts)
                  IN  [status |-> typed.status,
                       call |-> IF typed.status # "ok" THEN CmNone
                                ELSE [name  |-> "handler", module |-> m,
                                      index |-> match.index,
                                      views |-> Tail(views),
                                      values |-> typed.values]]

(* Dispatch after Parse: the module that the first argument names.           *)
CmRouted(parsed, buffer) ==
  IF parsed.status # "ok" \/ parsed.views = <<>>
  THEN [status |-> parsed.status, call |-> CmNone]
  ELSE LET match == CmMatch(CmRead(buffer, parsed.views[1]),
                            Append(CmRoutes, CmHelp))
       IN  CASE match.status # "ok" ->
                  [status |-> match.status, call |-> CmNone]
             [] match.status = "ok" /\ match.index > Len(CmRoutes) ->
                  [status |-> IF Len(parsed.views) = 1 THEN "ok"
                              ELSE "invalid_argument",
                   call |-> CmNone]
             [] OTHER -> CmHandle(match.index, Tail(parsed.views), buffer)

CmReenteredLate(typed) ==
  LET parsed == CmParse(typed.line) IN
  /\ cmReply' = "busy"
  /\ cmBuffer' = CmStored(cmBuffer, parsed.text)
  /\ cmViews' = parsed.views

(* The reply to a line that arrives while a handler runs.                    *)
CmReentered(typed) ==
  /\ cmReply' = "busy"
  /\ UNCHANGED <<cmBuffer, cmViews>>

(* dispatch, up to the entry of the handler.                                 *)
CmSubmit(typed) ==
  /\ ~cmBusy
  /\ cmTyped' = typed
  /\ cmCount' = cmCount + 1
  /\ IF ~cmBound
     THEN /\ cmReply' = "not_running"
          /\ UNCHANGED <<cmBuffer, cmViews, cmBusy, cmCall>>
     ELSE LET parsed == CmParse(typed.line)
              buffer == CmStored(cmBuffer, parsed.text)
              routed == CmRouted(parsed, buffer)
          IN  /\ cmBuffer' = buffer
              /\ cmViews' = parsed.views
              /\ cmCall' = routed.call
              /\ cmBusy' = (routed.call # CmNone)
              /\ cmReply' = routed.status
  /\ UNCHANGED cmBound

(* The running handler submits a line of its own, through any source.        *)
CmReenter(typed) ==
  /\ cmBusy
  /\ CmReentered(typed)
  /\ UNCHANGED <<cmBound, cmTyped, cmBusy, cmCall, cmCount>>

(* The handler returns and Active's destructor clears busy_.                 *)
CmReturn ==
  /\ cmBusy
  /\ cmBusy' = FALSE
  /\ cmCall' = CmNone
  /\ cmReply' = "ok"
  /\ UNCHANGED <<cmBound, cmTyped, cmBuffer, cmViews, cmCount>>

CmNext ==
  \/ CmBind
  \/ cmCount = 0 /\ \E t \in CmFirst : CmSubmit(t)
  \/ cmCount = 1 /\ \E t \in CmLines : CmSubmit(t)
  \/ \E t \in CmFirst : CmReenter(t)
  \/ CmReturn

CmSpec == CmInit /\ [][CmNext]_cmVars

-----------------------------------------------------------------------------
CmTypeOK ==
  /\ cmBound \in BOOLEAN /\ cmBusy \in BOOLEAN
  /\ \A i \in 1..Len(cmViews) :
       0 <= cmViews[i].from /\ cmViews[i].from <= cmViews[i].to
         /\ cmViews[i].to <= CmLineCapacity

(* The command that the query names, said without an order: the one whose    *)
(* name it is, or else the only one whose name it begins.                   *)
CmNames(query, names, i) ==
  \/ CmEqualName(query, names[i])
  \/ /\ \A j \in 1..Len(names) : ~CmEqualName(query, names[j])
     /\ {j \in 1..Len(names) : CmIsPrefix(query, names[j])} = {i}

(* The integer that a text means: an optional sign, an optional base prefix  *)
(* and at least one digit of that base.                                     *)
CmMeans(text, value) ==
  \E base \in {2, 10, 16}, sign \in {"", "-", "+"} :
    LET head   == (IF sign = "" THEN <<>> ELSE <<sign>>)
                    \o (CASE base = 2 -> <<"0", "b">>
                          [] base = 10 -> <<>> [] OTHER -> <<"0", "x">>)
        digits == SubSeq(text, Len(head) + 1, Len(text))
    IN  /\ Len(text) > Len(head) /\ SubSeq(text, 1, Len(head)) = head
        /\ \A i \in 1..Len(digits) : CmDigit(digits[i]) < base
        /\ value = (IF sign = "-" THEN -1 ELSE 1) * CmMagnitude(digits, base)

(* A running handler reads through its borrowed views exactly the arguments  *)
(* that the line spelled, whatever it submits meanwhile, and no handler      *)
(* runs for a malformed line (Parse, Dispatch and its busy_ flag).          *)
CmBorrowed ==
  cmCall # CmNone =>
    /\ cmTyped.sound
    /\ Len(cmTyped.args) = Len(cmCall.views) + 2
    /\ \A i \in 1..Len(cmCall.views) :
         CmRead(cmBuffer, cmCall.views[i]) = cmTyped.args[i + 2]

(* What a text means to a parameter, said without the order of the search.   *)
CmDenotes(kind, text, value) ==
  CASE kind = "text" -> TRUE
    [] kind = "choice" -> CmNames(text, CmChoices, value)
    [] kind = "boolean" -> text = IF value THEN CmYes[1] ELSE CmNo[1]
    [] kind = "switch" ->
         \E w \in ToSet(IF value THEN CmYes ELSE CmNo) : CmEqualName(text, w)
    [] kind = "signed" ->
         CmMeans(text, value) /\ value \in -(2^(CmWidth - 1))..CmHigh
    [] kind = "unsigned" ->
         CmMeans(text, value) /\ value \in 0..CmTop(FALSE) /\ text[1] # "-"

CmValues(kind) ==
  CASE kind = "text" -> {0}
    [] kind = "choice" -> 1..Len(CmChoices)
    [] kind \in {"boolean", "switch"} -> BOOLEAN
    [] OTHER -> -(2^(CmWidth - 1))..CmTop(FALSE)

(* The handler that runs is the one that the line names, an exact name       *)
(* before a longer one, and each of its values is what was typed, as the     *)
(* command declares that parameter: inside an integer's width and bound, the *)
(* one choice that is named (lazy_match, CommandTable, Parse, Number).       *)
CmMeant ==
  cmCall # CmNone =>
    LET declared == CmCommands[cmCall.module][cmCall.index].takes IN
    /\ CmNames(cmTyped.args[1], Append(CmRoutes, CmHelp), cmCall.module)
    /\ CmNames(cmTyped.args[2],
               Append([i \in 1..Len(CmCommands[cmCall.module]) |->
                         CmCommands[cmCall.module][i].name], CmHelp),
               cmCall.index)
    /\ \A i \in 1..Len(declared) :
         IF i > Len(cmCall.values) THEN declared[i].optional
         ELSE CmDenotes(declared[i].kind, cmTyped.args[i + 2], cmCall.values[i])

(* A command that is named in full is never refused when its arguments are   *)
(* as many as it takes and each means something: not the lowest value of a   *)
(* signed type, not the highest of an unsigned one, in any base, and not a   *)
(* choice whose name begins another (Parse, Number).                        *)
CmAccepts ==
  (cmReply \in {"invalid_argument", "not_found", "ambiguous_match"}
     /\ cmTyped.sound /\ Len(cmTyped.args) >= 2) =>
    \A m \in 1..Len(CmRoutes) : \A c \in ToSet(CmCommands[m]) :
      (cmTyped.args[1] = CmRoutes[m] /\ cmTyped.args[2] = c.name
         /\ Len(cmTyped.args) - 2 \in CmRequired(c.takes)..Len(c.takes)) =>
        \E i \in 1..(Len(cmTyped.args) - 2) :
          \A v \in CmValues(c.takes[i].kind) :
            ~CmDenotes(c.takes[i].kind, cmTyped.args[i + 2], v)

(* What a typed line makes happen.                                           *)
CmDispatches == CmTypeOK /\ CmBorrowed /\ CmMeant /\ CmAccepts

=============================================================================
