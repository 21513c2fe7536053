---------------------------- MODULE MCLiveBoard ----------------------------
(* Instances of LiveBoard: a page that moves tickets and one that follows. *)
EXTENDS LiveBoard, TLC

CONSTANTS w, f, t1, t2, r1, r2, todo, done

MCUserOf == (w :> "ada") @@ (f :> "ben")
\* The page that moves tickets got no socket: it handles no events.
MCFollowers == {f}

MCMayMove == (w :> Ticket) @@ (f :> {})

\* One slot for each ticket: moves of different tickets overlap, moves of
\* one ticket follow one another.
MCHandles == (r1 :> {t1}) @@ (r2 :> {t2})
=============================================================================
