----------------------------- MODULE MCPagemap -----------------------------
(* Three pages of two bytes, three frames.                                 *)
EXTENDS Pagemap

MCPlace == {"args", "pagemap", "present", "swapped", "virt_to_phys",
            "is_continuous", "caller"}

(* All three pages, from and to the middle of one, across one boundary,    *)
(* within a page, and the wrong way round.                                 *)
MCRanges == {<<0, 5>>, <<1, 4>>, <<1, 2>>, <<2, 3>>, <<3, 2>>}
=============================================================================
