---------------------------- MODULE MCXsknfSetup ----------------------------
(***************************************************************************)
(* Option sets for XsknfSetup.  Four frames a socket, frames of eight.      *)
(***************************************************************************)
EXTENDS XsknfSetup

\* Every mode and mix of copy modes, and skb mode; a frame size of 6 is refused.
AnyMode ==
    {c \in [mode : {"AF_XDP", "XDP", "COMBINED"}, skb : BOOLEAN,
            copy : [Interfaces -> {"c", "z", ""}], unaligned : {FALSE},
            frame_size : {6, 8}] :
       IF c.skb THEN c.copy[0] = "z" /\ c.copy[1] = ""
                ELSE c.copy[0] # "" /\ c.copy[1] # "z"}

=============================================================================
