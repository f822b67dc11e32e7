---------------------------- MODULE MCFilmCatalog ----------------------------
(***************************************************************************)
(* What a docstring of services/film.py says of the order in which the      *)
(* stores are updated.                                                     *)
(***************************************************************************)
EXTENDS FilmCatalog

\* services/film.py:250, of after_film_soft_delete: "Elasticsearch (with
\* refresh) first, then the reset of Redis: otherwise the new cache is filled
\* again with what is out of date".  In that order, it is not.
FlushedStaysFlushed ==
  \A f \in marked \ overwritten : \A k \in flushed[f] : f \notin shown[k]

=============================================================================
