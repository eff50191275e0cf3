------------------------------ MODULE MCPaging ------------------------------
(***************************************************************************)
(* The instance of Paging for TLC: pages of one row; files 1 and 2 share a *)
(* millisecond, files 2 and 3 a size, and file 3 has a description.        *)
(***************************************************************************)
EXTENDS PagingProps

MCCreated == <<11, 12, 20>>
MCSize == <<5, 7, 7>>
MCDescribed == <<FALSE, FALSE, TRUE>>
=============================================================================
