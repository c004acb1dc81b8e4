------------------------------- MODULE MCBox -------------------------------
(***************************************************************************)
(* Boxes for Box: what each is, and what its users do.                     *)
(***************************************************************************)
EXTENDS Box

Plan(behavior, network, most) ==
    [behavior |-> behavior, network |-> network, choose |-> FALSE, cv7 |-> TRUE,
     buttons |-> {}, cabs |-> {}, speeds |-> {1}, inputs |-> {}, most |-> most]

\* One press, and the way to a line of the first list.
Presses(buttons) == {<<b>> : b \in buttons}
To(line) == <<"sel">> \o [i \in 1..line |-> IF i = line THEN "sel" ELSE "down"]

\* More trains than records, and a buffer that fills.
Driving == [Plan("Joining", "ap", 5) EXCEPT !.cabs = {3, 4, 5}, !.inputs = {"function", "forget", "power"}]

\* The lists of the menus, a train and the network.
Lists1 == [Plan("Joining", "sta", 4)
           EXCEPT !.buttons = Presses({"up", "down", "sel", "double"}) \cup {To(line) : line \in {1} \cup 7..13},
                  !.cabs = {3}, !.inputs = {"power", "wifi", "estop"}]

\* Dialogs that program, while a throttle moves the CV and another client may
\* take the manager.
Programming == [Plan("Joining", "ap", 5)
                EXCEPT !.buttons = Presses({"up", "down", "sel"}) \cup {To(2), To(3), To(4), To(5), To(6)},
                       !.cabs = {3}, !.inputs = {"job", "wifi"}]

\* The mode changes with a restart; the power may fail.
Rebooting == [Plan("Reboot", "sta", 5)
              EXCEPT !.buttons = Presses({"up", "sel"}) \cup {To(2), To(3), To(4), To(5), To(6)},
                     !.inputs = {"cut", "up held"}, !.cv7 = FALSE]

\* A box with both tracks, and decoders that do not answer.
Normal == [Plan("Normal", "sta", 5)
           EXCEPT !.buttons = Presses({"up", "down", "sel"}) \cup {To(4), To(5), To(6)}, !.cv7 = FALSE]

\* A box that programs only.
ProgOnly == [Plan("ProgOnly", "sta", 4)
             EXCEPT !.buttons = Presses({"up", "sel"}), !.cabs = {3}, !.inputs = {"power", "wifi", "cut"}]

\* A DC box.
DC == [Plan("Normal", "ap", 5)
       EXCEPT !.choose = TRUE, !.buttons = Presses({"up", "down", "sel", "double"}) \cup {To(line) : line \in 1..4},
              !.cabs = {3, 9}, !.speeds = {0, 1}, !.inputs = {"power", "wifi"}]

\* A DC box that is driven, and told of another cab.
Levels == [Plan("Normal", "ap", 6)
           EXCEPT !.choose = TRUE, !.buttons = {<<"down", "sel">>}, !.cabs = {3, 9}, !.speeds = {0, 1},
                  !.inputs = {"power"}]

MCPlans == {Driving, Lists1, Programming, Rebooting, Normal, ProgOnly, DC, Levels}
=============================================================================
