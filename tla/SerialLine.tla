----------------------------- MODULE SerialLine -----------------------------
(***************************************************************************)
(* The clients on serial lines: the line of commands and, further down,    *)
(* the SPROG programmer.                                                   *)
(*                                                                         *)
(* A serial line of commands (SerialManager.cpp): characters are taken     *)
(* until one command is whole, which is carried out; the rest waits for    *)
(* the next pass. A bracket within a string does not end the command. The  *)
(* characters are the brackets, the quote and two letters, each of them a  *)
(* throttle command.                                                       *)
(***************************************************************************)
EXTENDS CabTable

CONSTANTS
    LineSize      \* COMMAND_BUFFER_SIZE

NewLine == [wire |-> <<>>, rx |-> <<>>, payload |-> 0, buf |-> <<>>, sent |-> <<>>, parsed |-> <<>>, odd |-> FALSE]

\* Bodies of whole commands, and transmissions that are none.
Bodies == {<<"a">>, <<"b">>, <<"a", "b">>, <<"q", ">", "q">>, <<"b", "q", "q">>}
Junk == {<<"<", "a">>, <<"<", "q", ">">>, <<"<", "a", "b", "a", "b", "a", "b">>, <<"<", "q", "a", "b", "a", "b">>, <<"a", ">">>}

\* A transmission: n characters of it at once, the rest later.
Sent(s, chars, n, whole) ==
    [s EXCEPT !.wire.serial.rx = @ \o SubSeq(chars, 1, IF n < Len(chars) THEN n ELSE Len(chars)),
              !.wire.serial.wire = SubSeq(chars, n + 1, Len(chars)),
              !.wire.serial.sent = IF whole THEN Append(@, Tail(chars)) ELSE @,
              !.wire.serial.odd = @ \/ ~whole]
Arrived(s) == [s EXCEPT !.wire.serial.rx = @ \o s.wire.serial.wire, !.wire.serial.wire = <<>>]

\* One character, x.got when the command is whole: as SerialManager::loop2 goes on
\* with it. 0 is outside a command, 1 in it; above, it counts the characters of a
\* string. A string that is too long ends the command where it is.
TakeIn(x, ch) ==
    LET y == [x EXCEPT !.buf = Append(@, ch)]
        whole == [y EXCEPT !.payload = 0, !.got = TRUE]
    IN CASE x.payload = 0 -> IF ch = "<" THEN [x EXCEPT !.payload = 1, !.buf = <<>>] ELSE x
         [] x.payload > 0 /\ Len(x.buf) >= LineSize - 1 -> [x EXCEPT !.payload = 0]
         [] x.payload > LineSize \div 2 /\ Len(x.buf) < LineSize - 1 -> whole
         [] x.payload \in 2 .. LineSize \div 2 /\ Len(x.buf) < LineSize - 1 ->
              [y EXCEPT !.payload = IF ch = "q" THEN 1 ELSE @ + 1]
         [] OTHER -> CASE ch = ">" -> whole [] ch = "q" -> [y EXCEPT !.payload = 2] [] OTHER -> y
Character(x, ch) == IF x.got THEN [x EXCEPT !.rest = Append(@, ch)] ELSE TakeIn(x, ch)

\* The command: its body without the bracket.
Execute(s, body) ==
    LET t == [s EXCEPT !.wire.serial.parsed = Append(@, body)]
    IN IF body = <<"a", ">">> THEN setThrottle(t, 1, 2, TRUE)
       ELSE IF body = <<"b", ">">> THEN setThrottle(t, 2, 2, TRUE) ELSE t

\* SerialManager::loop2.
loop2(s) ==
    LET l == s.wire.serial
        end == FoldLeft(Character, [payload |-> l.payload, buf |-> l.buf, got |-> FALSE, rest |-> <<>>], l.rx)
        t == [s EXCEPT !.wire.serial.rx = end.rest, !.wire.serial.payload = end.payload, !.wire.serial.buf = end.buf]
    IN IF end.got THEN Execute(t, end.buf) ELSE t

\* A line that was only ever sent whole commands: each was carried out, once and in
\* order, or is still on its way.
LineRight(s) ==
    LET l == s.wire.serial
    IN ~l.odd => /\ IsPrefix(l.parsed, l.sent)
                 /\ (l.rx = <<>> /\ l.wire = <<>>) => (l.parsed = l.sent /\ l.payload = 0)

-----------------------------------------------------------------------------
(* The SPROG programmer (SProg.cpp): one line is taken from the port per   *)
(* pass, none while a CV is read or written. A line is a tuple of its      *)
(* command and parameters; s.wire.sprog.log is what the user of the line   *)
(* sees, in order.                                                         *)

NoWord == [unlock |-> FALSE, modes |-> "none"]
NewSProg == [rx |-> <<>>, cv |-> Ready, word |-> NoWord, saved |-> NoWord, cab |-> 1, log |-> <<>>]

SProgLines ==
    {<<"C">>, <<"C", "decoder">>, <<"C", "box">>, <<"M", "unlocked">>, <<"R">>, <<"W">>, <<"S">>, <<"+">>, <<"-">>,
     <<"A", 2>>, <<"<">>, <<"O">>, <<"escape">>}

\* The mode word: kept in the EEPROM on request, and never unlocked when it is
\* loaded; a word that was never saved is the default one.
SetWord(s) == [s EXCEPT !.wire.sprog.word = [unlock |-> TRUE, modes |-> "set"]]
WriteWord(s) == [s EXCEPT !.wire.sprog.saved = s.wire.sprog.word]
ReadWord(s) ==
    LET w == s.wire.sprog.saved
    IN [s EXCEPT !.wire.sprog.word =
            [unlock |-> FALSE, modes |-> IF w.modes = "none" THEN "default" ELSE w.modes]]

SProgCv(s, line) ==
    IF Len(line) = 1 THEN Waits(CvSetup(s, "sprog", "read"), "sprog", "read")
    ELSE Waits(writeCVByte(s, "sprog", line[2] = "box"), "sprog", "write")

\* The line is carried out. The speed of the test loco is the parameter (none here:
\* a stop); an escape ends a line as a return does, so that what is parsed is the
\* empty line before it.
SProg_parse(s, line) ==
    LET t == [s EXCEPT !.wire.sprog.log = Append(@, line)]
    IN CASE line[1] = "C" -> SProgCv(t, line)
         [] line[1] = "M" -> SetWord(t)
         [] line[1] = "R" -> ReadWord(t)
         [] line[1] = "W" -> WriteWord(t)
         [] line[1] \in {"+", "-"} -> [t EXCEPT !.progPower = line[1] = "+"]
         [] line[1] = "A" -> [t EXCEPT !.wire.sprog.cab = line[2]]
         [] line[1] = "<" -> setThrottle(t, t.wire.sprog.cab, 0, FALSE)
         [] OTHER -> t

\* SProg::loopInternal: nothing while it waits; then the answer, then a line.
loopInternal(s) ==
    LET w == s.wire.sprog
        t == IF w.cv = Ready THEN s
             ELSE [s EXCEPT !.wire.sprog.log = Append(@, <<"=", w.cv[1]>>), !.wire.sprog.cv = Ready]
    IN CASE w.cv[2] = "waits" -> s
         [] w.cv[2] # "waits" /\ w.rx = <<>> -> t
         [] OTHER -> SProg_parse([t EXCEPT !.wire.sprog.rx = Tail(@)], Head(w.rx))

\* What follows the request for a CV on the line is the answer to it.
SProgAnswers(s) ==
    LET log == s.wire.sprog.log
    IN \A i \in 1 .. Len(log) - 1 :
         log[i][1] = "C" => log[i + 1] = <<"=", IF Len(log[i]) = 1 THEN "read" ELSE "write">>
=============================================================================
