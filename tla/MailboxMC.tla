----------------------------- MODULE MailboxMC -----------------------------
(* The mailbox with a small cast, for TLC.                                  *)
EXTENDS Mailbox

CONSTANTS d1, d2,   \* drain goroutines: a second one must be possible
          c1, c2,   \* closers
          w1        \* caller of waitIdle

MCDrainers == {d1, d2}
MCClosers == {c1, c2}
=============================================================================
