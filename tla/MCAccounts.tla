----------------------------- MODULE MCAccounts -----------------------------
(* TLC instance of Accounts. *)
EXTENDS Accounts, TLC

Template(words) == [lead |-> <<>>, words |-> words]
Seat(text) == <<Word("seat"), text>>

\* The seat modelled has one guest under all three tables: it keeps the first
\* it has, so that a second would not be touched.

\* The guest is prepared by gumd; the seat has a template of its own.
Gumd == General :> ("ACCOUNTS_PLUGIN" :> Word("gumd") @@
                    "PREPARE_DEFAULT" :> Number(1) @@
                    "DEFAULT_USER" :> Template(<<"guest", "%I">>))
        @@ Seat(Number(0)) :>
                ("DEFAULT_USER" :> Template(<<"guest", "%?">>))

\* The guest is prepared by the default plugin; the seat's own group does not
\* name the default user.
Plain == General :> ("PREPARE_DEFAULT" :> Word("yes") @@
                     "AUTO_LOGIN" :> Word("no") @@
                     "DEFAULT_USER" :> Template(<<"guest", "%S">>))
         @@ Seat(Number(0)) :> ("VTNR" :> Number(7))

\* The account plugin is not installed.
Lost == General :> ("ACCOUNTS_PLUGIN" :> Word("lost") @@
                    "PREPARE_DEFAULT" :> Word("true"))

MCContents == {Gumd, Plain, Lost}
MCPlaces == <<"env", "etc">>
\* Beside the seats of NSEATS: seat01, seat1a, seat (no number) and vt0.
MCSeatIds == {Seat(Number(0)), Seat(Spelled(1, "01")), Seat(Spelled(1, "1a")),
              <<Word("seat")>>, <<Word("vt"), Number(0)>>}
MCSeatId == Seat(Number(0))
MCNamed == {<<Word("u1")>>}
=============================================================================
